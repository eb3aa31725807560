------------------------ MODULE KernelServicesProofs ------------------------
(***************************************************************************)
(* Proofs about the services of KernelServices, for any sizes of them:     *)
(* what is switched on and off is so in order, a terminated process stays  *)
(* down, what services make is complete or was thrown out of, what they    *)
(* count agrees with what there is, what they answer with is of their      *)
(* present life but for each thread's late one, and everything is bounded. *)
(*   The services share no state: each has an inductive invariant   *)
(* of its own, which its steps keep and those of the others leave alone.   *)
(***************************************************************************)
EXTENDS KernelServices, SequenceTheorems, SumTheorems

-----------------------------------------------------------------------------
\* Boot.

\* What a step of init has set up stays so; interrupts come on in its last two steps.
BootInv ==
    /\ bus \in 0 .. Buses - 1
    /\ entry = "init" => /\ step \in 0 .. 8
                         /\ \A k \in 1 .. step : Booting!BootSequence[k] \in done
    /\ Booting!BootOrder

\* Before the boot nothing is set up and interrupts are off.
LEMMA BootInit == Booting!Init => BootInv
BY BootAssumption DEF BootInv, Booting!Init, Booting!BootOrder

\* The probe's counter wraps before it reaches the bound of its loop, and interrupts
\* come on only behind the steps that set up the IDT, memory and paging.
LEMMA BootSteps == BootInv /\ Booting!Next => BootInv'
<1> SUFFICES ASSUME BootInv, Booting!Next PROVE BootInv'
    OBVIOUS
<1>1. CASE Booting!EnterInit \/ Booting!EnterMain
    BY <1>1 DEF BootInv, Booting!BootOrder, Booting!EnterInit, Booting!EnterMain,
       Booting!BootScreenThrows, Booting!Initialize, Booting!hardwareVars
<1>2. CASE Booting!BootStep
    <2> DEFINE s == Booting!BootSequence[step + 1]
    <2>1. /\ entry = "init" /\ step \in 0 .. 8 /\ step' = step + 1 /\ bus' = bus
          /\ interrupts' = (s = "sti" \/ (s \notin {"cli", "protectedMode"} /\ interrupts))
          /\ entry' = IF s = "sti" THEN "none" ELSE entry
        BY <1>2 DEF BootInv, Booting!BootStep, Booting!hardwareVars
    <2>2. done \cup {s} \subseteq done'
        BY <1>2 DEF Booting!BootStep, Booting!BootMemory
    <2>3. s = "sti" <=> step = 8
        BY <2>1 DEF Booting!BootSequence
    <2>4. \A k \in 1 .. step + 1 : Booting!BootSequence[k] \in done'
        BY <2>1, <2>2 DEF BootInv
    <2>5. step = 8 => {"idt", "memory", "paging"} \subseteq done'
        <3>1. /\ Booting!BootSequence[3] = "idt" /\ Booting!BootSequence[4] = "memory"
              /\ Booting!BootSequence[5] = "paging"
            BY DEF Booting!BootSequence
        <3> QED BY <2>4, <3>1
    <2>6. Booting!BootOrder'
        BY <2>1, <2>2, <2>3, <2>5 DEF BootInv, Booting!BootOrder
    <2>7. entry' = "init" => step' \in 0 .. 8
        BY <2>1, <2>3
    <2> HIDE DEF s
    <2> QED BY <2>1, <2>4, <2>6, <2>7 DEF BootInv
<1>3. CASE Booting!KernelStep
    <2>1. /\ entry' = "init" /\ entry = "init" /\ bus' = bus /\ step \in 0 .. 8
          /\ Booting!BootSequence[step + 1] = "kernel"
        BY <1>3 DEF BootInv, Booting!KernelStep, Booting!hardwareVars
    <2>2. step = 7
        BY <2>1 DEF Booting!BootSequence
    <2>3. done \subseteq done' /\ (step' = step \/ (step' = step + 1 /\ "kernel" \in done'))
        BY <1>3 DEF Booting!KernelStep
    <2>4. \A k \in 1 .. step' : Booting!BootSequence[k] \in done'
        BY <2>1, <2>2, <2>3 DEF BootInv
    <2>5. {"idt", "memory", "paging"} \subseteq done'
        <3>1. /\ Booting!BootSequence[3] = "idt" /\ Booting!BootSequence[4] = "memory"
              /\ Booting!BootSequence[5] = "paging"
            BY DEF Booting!BootSequence
        <3> QED BY <2>1, <2>2, <2>3, <3>1 DEF BootInv
    <2> QED BY <2>1, <2>2, <2>3, <2>4, <2>5 DEF BootInv, Booting!BootOrder
<1>4. CASE Booting!DetectCPU \/ Booting!DetectMemoryCapacity
    BY <1>4 DEF BootInv, Booting!BootOrder, Booting!DetectCPU, Booting!DetectMemoryCapacity,
       Booting!hardwareVars
<1>5. CASE Booting!ProbeBus
    BY <1>5, BootAssumption DEF BootInv, Booting!BootOrder, Booting!ProbeBus, Booting!NextBus
<1> QED BY <1>1, <1>2, <1>3, <1>4, <1>5 DEF Booting!Next

-----------------------------------------------------------------------------
\* The scheduler.

\* Entries of the process table, slots of threads, and calls in progress.
Processes == [id : Nat \ {0}, pid : Nat, state : {"READY", "TERMINATED"}]
Slots == [owner : Nat, isActive : BOOLEAN, priority : Priorities \cup {0}]
Calls == [op : {"none", "create", "terminate"}, step : Nat, id : Nat, pid : Nat,
          priority : Priorities \cup {0}]

\* The state of the scheduler has its types.
SchedulerTypes ==
    /\ processes \in Seq(Processes)
    /\ threads \in Seq(Slots)
    /\ call \in Calls
    /\ created \in Nat

\* The objects in the table.
Ids == {processes[j].id : j \in DOMAIN processes}

\* A pid is a place in the table; the call in progress makes the newest object and has
\* a slot for it, or ends one that is in the table.
CallInv ==
    /\ \A j \in DOMAIN processes : processes[j].id <= created /\ processes[j].pid = j
    /\ call.op = "create" => /\ call.id = created /\ created # 0 /\ created \notin Ids
                             /\ call.pid = Len(processes) + 1
                             /\ ~ overrun => /\ call.step \in DOMAIN threads
                                             /\ threads[call.step].owner \in {0, created}
    /\ call.op = "terminate" => call.id \in Ids

\* Each process of the table has a slot, and those of the terminated ones are at rest.
SlotsInv ==
    /\ \A id \in Ids : \E i \in DOMAIN threads : threads[i].owner = id
    /\ terminated \subseteq Ids
    /\ \A i \in DOMAIN threads : threads[i].isActive => threads[i].owner \notin terminated

\* What the steps of the scheduler keep.
SchedulerInv == SchedulerTypes /\ CallInv /\ SlotsInv

\* What the tables are.
LEMMA Tables ==
    ASSUME SchedulerTypes
    PROVE  /\ Len(processes) \in Nat /\ DOMAIN processes = 1 .. Len(processes)
           /\ \A j \in DOMAIN processes : processes[j] \in Processes /\ processes[j].id \in Nat \ {0}
           /\ 0 \notin Ids
           /\ Len(threads) \in Nat /\ DOMAIN threads = 1 .. Len(threads)
           /\ \A i \in DOMAIN threads :
                 threads[i] \in Slots
<1>1. /\ Len(processes) \in Nat /\ DOMAIN processes = 1 .. Len(processes)
      /\ Len(threads) \in Nat /\ DOMAIN threads = 1 .. Len(threads)
    BY LenProperties DEF SchedulerTypes
<1>2. \A j \in DOMAIN processes :
         processes[j] \in Processes
    BY <1>1, ElementOfSeq DEF SchedulerTypes
<1>3. \A i \in DOMAIN threads :
         threads[i] \in Slots
    BY <1>1, ElementOfSeq DEF SchedulerTypes
<1> QED BY <1>1, <1>2, <1>3 DEF Ids, Processes

\* Before the first process there is nothing to say.
LEMMA SchedulerInit == Sched!Init => SchedulerInv
BY DEF SchedulerInv, SchedulerTypes, CallInv, SlotsInv, Ids, Calls, Sched!Init, Sched!NoCall

\* The invariant is about the table, the slots and the call; nothing else disturbs it.
LEMMA SchedulerStill ==
    SchedulerInv /\ UNCHANGED <<processes, threads, call, created, terminated, overrun>> => SchedulerInv'
BY DEF SchedulerInv, SchedulerTypes, CallInv, SlotsInv, Ids

\* A new call numbers a new object, and takes a slot if there is one.
LEMMA CreateCallInv ==
    ASSUME SchedulerInv, NEW priority \in Priorities, Sched!CreateCall(priority)
    PROVE  SchedulerInv'
<1> USE DEF SchedulerInv
<1> DEFINE slot == [owner |-> 0, isActive |-> FALSE, priority |-> 0]
<1>1. /\ processes' = processes /\ terminated' = terminated /\ created' = created + 1
      /\ call' = [op |-> "create", step |-> Len(threads) + 1, id |-> created + 1,
                  pid |-> Len(processes) + 1, priority |-> priority]
      /\ IF overrun' THEN threads' = threads ELSE threads' = Append(threads, slot)
    BY DEF Sched!CreateCall
<1>2. /\ Len(processes) \in Nat /\ Len(threads) \in Nat /\ DOMAIN threads = 1 .. Len(threads)
      /\ slot \in Slots
    BY Tables DEF Slots
<1> HIDE DEF slot
<1>3. SchedulerTypes'
    <2>1. threads' \in Seq(Slots)
        BY <1>1, <1>2, AppendProperties DEF SchedulerTypes
    <2>2. call' \in Calls
        BY <1>1, <1>2 DEF SchedulerTypes, Calls
    <2> QED BY <1>1, <2>1, <2>2 DEF SchedulerTypes
<1>4. \A i \in DOMAIN threads : i \in DOMAIN threads' /\ threads'[i] = threads[i]
    BY <1>1, <1>2, AppendProperties DEF SchedulerTypes
<1>5. ~ overrun' => /\ Len(threads) + 1 \in DOMAIN threads' /\ threads'[Len(threads) + 1] = slot
                    /\ DOMAIN threads' = DOMAIN threads \cup {Len(threads) + 1}
    BY <1>1, <1>2, AppendProperties DEF SchedulerTypes
<1>6. \A j \in DOMAIN processes : processes[j].id <= created /\ processes[j].id # created + 1
    BY Tables DEF CallInv, SchedulerTypes
<1>7. CallInv'
    <2>1. created + 1 \notin Ids /\ created + 1 # 0 /\ created \in Nat
        BY <1>6 DEF Ids, SchedulerTypes
    <2>2. \A j \in DOMAIN processes : processes[j].id <= created + 1
        BY <1>6, Tables DEF CallInv, SchedulerTypes
    <2>3. Ids' = Ids
        BY <1>1 DEF Ids
    <2>4. ~ overrun' => threads'[Len(threads) + 1].owner = 0
        BY <1>5 DEF slot
    <2> QED BY <1>1, <1>5, <2>1, <2>2, <2>3, <2>4 DEF CallInv
<1>8. SlotsInv'
    <2>1. \A i \in DOMAIN threads' : threads'[i].isActive => i \in DOMAIN threads /\ threads'[i] = threads[i]
        BY <1>1, <1>4, <1>5 DEF slot
    <2> QED BY <1>1, <1>4, <2>1 DEF SlotsInv, Ids
<1> QED BY <1>3, <1>7, <1>8

\* The slot that was taken gets its owner, who is not terminated: it is not in the table.
LEMMA CreateThreadInv ==
    ASSUME SchedulerInv, ~ overrun, Sched!CreateThread
    PROVE  SchedulerInv'
<1> USE DEF SchedulerInv
<1> DEFINE slot == [owner |-> call.id, isActive |-> TRUE, priority |-> call.priority]
<1>1. /\ UNCHANGED <<processes, terminated, created, call, overrun>> /\ call.op = "create"
      /\ threads' = [threads EXCEPT ![call.step] = slot]
    BY DEF Sched!CreateThread, Sched!historyVars
<1>2. /\ call.step \in 1 .. Len(threads) /\ DOMAIN threads = 1 .. Len(threads)
      /\ threads[call.step].owner \in {0, created} /\ call.id = created /\ created \notin Ids
    BY <1>1, LenProperties DEF CallInv, SchedulerTypes, Calls
<1>3. slot \in Slots
      /\ slot.owner = created
    BY <1>2 DEF SchedulerTypes, Slots, Calls
<1> HIDE DEF slot
<1>4. threads' \in Seq(Slots)
      /\ DOMAIN threads' = DOMAIN threads
    BY <1>1, <1>2, <1>3, ExceptSeq DEF SchedulerTypes
<1>5. SchedulerTypes'
    BY <1>1, <1>4 DEF SchedulerTypes
<1>6. \A i \in DOMAIN threads : threads'[i] = IF i = call.step THEN slot ELSE threads[i]
    BY <1>1
<1>7. CallInv'
    BY <1>1, <1>2, <1>3, <1>4, <1>6 DEF CallInv, Ids
<1>8. SlotsInv'
    <2>1. 0 \notin Ids
        BY Tables
    <2>2. \A id \in Ids : \E i \in DOMAIN threads' : threads'[i].owner = id
        BY <1>2, <1>4, <1>6, <2>1 DEF SlotsInv
    <2>3. \A i \in DOMAIN threads' : threads'[i].isActive => threads'[i].owner \notin terminated
        BY <1>2, <1>3, <1>4, <1>6 DEF SlotsInv
    <2> QED BY <1>1, <2>2, <2>3 DEF SlotsInv, Ids
<1> QED BY <1>5, <1>7, <1>8

\* The object enters the table with the next pid, and has the slot.
LEMMA CreateReturnInv ==
    ASSUME SchedulerInv, ~ overrun, Sched!CreateReturn
    PROVE  SchedulerInv'
<1> USE DEF SchedulerInv
<1> DEFINE new == [id |-> call.id, pid |-> call.pid, state |-> "READY"]
<1>1. /\ UNCHANGED <<threads, terminated, created, overrun>> /\ call.op = "create"
      /\ processes' = Append(processes, new) /\ call' = Sched!NoCall
      /\ threads[call.step].owner = call.id
    BY DEF Sched!CreateReturn, Sched!historyVars
<1>2. /\ call.id = created /\ created \notin Ids /\ call.pid = Len(processes) + 1
      /\ call.step \in DOMAIN threads /\ threads[call.step].owner = created
    BY <1>1 DEF CallInv
<1>3. created \in Nat \ {0}
    BY <1>1 DEF CallInv, SchedulerTypes
<1>4. new \in Processes
      /\ new.id = created /\ new.pid = Len(processes) + 1
    BY <1>2, <1>3, Tables DEF Processes
<1> HIDE DEF new
<1>5. /\ processes' \in Seq(Processes)
      /\ DOMAIN processes' = 1 .. Len(processes) + 1
      /\ \A j \in DOMAIN processes : processes'[j] = processes[j]
      /\ processes'[Len(processes) + 1] = new
    BY <1>1, <1>4, Tables, AppendProperties, LenProperties DEF SchedulerTypes
<1>6. SchedulerTypes'
    BY <1>1, <1>5 DEF SchedulerTypes, Sched!NoCall, Calls
<1>7. \A j \in DOMAIN processes' : \/ j \in DOMAIN processes /\ processes'[j] = processes[j]
                                   \/ j = Len(processes) + 1 /\ processes'[j] = new
    BY <1>5, Tables
<1>8. Ids' = Ids \cup {created}
    <2>1. DOMAIN processes' = DOMAIN processes \cup {Len(processes) + 1}
        BY <1>5, Tables
    <2>2. \A j \in DOMAIN processes' : processes'[j].id \in Ids \cup {created}
        BY <1>4, <1>7 DEF Ids
    <2>3. \A j \in DOMAIN processes : \E k \in DOMAIN processes' : processes'[k].id = processes[j].id
        BY <1>5, <2>1
    <2>4. \E k \in DOMAIN processes' : processes'[k].id = created
        BY <1>4, <1>5, <2>1
    <2>5. Ids' \subseteq Ids \cup {created}
        BY <2>2 DEF Ids
    <2>6. Ids \subseteq Ids' /\ created \in Ids'
        BY <2>3, <2>4 DEF Ids
    <2> QED BY <2>5, <2>6
<1>9. CallInv'
    <2>1. \A j \in DOMAIN processes' : processes'[j].id <= created /\ processes'[j].pid = j
        BY <1>3, <1>4, <1>7 DEF CallInv
    <2> QED BY <1>1, <2>1 DEF CallInv, Sched!NoCall
<1>10. SlotsInv'
    BY <1>1, <1>2, <1>8 DEF SlotsInv
<1> QED BY <1>6, <1>9, <1>10

\* A process that is being terminated stays in the table.
LEMMA TerminateCallInv ==
    ASSUME SchedulerInv, NEW pid, Sched!TerminateCall(pid)
    PROVE  SchedulerInv'
<1> USE DEF SchedulerInv
<1>1. PICK j \in DOMAIN processes :
        /\ processes' = [processes EXCEPT ![j].state = "TERMINATED"]
        /\ call' = [Sched!NoCall EXCEPT !.op = "terminate", !.id = processes[j].id]
    BY DEF Sched!TerminateCall
<1>2. UNCHANGED <<threads, created, terminated, overrun>>
    BY DEF Sched!TerminateCall, Sched!historyVars
<1>3. \A k \in DOMAIN processes :
         processes[k] \in Processes
    BY Tables
<1>4. [processes[j] EXCEPT !.state = "TERMINATED"]
         \in Processes
    BY <1>3 DEF Processes
<1>5. processes' = [processes EXCEPT ![j] = [processes[j] EXCEPT !.state = "TERMINATED"]]
    BY <1>1
<1>6. processes' \in Seq(Processes)
    BY <1>4, <1>5, Tables, ExceptSeq DEF SchedulerTypes
<1>7. /\ DOMAIN processes' = DOMAIN processes
      /\ \A k \in DOMAIN processes :
            processes'[k].id = processes[k].id /\ processes'[k].pid = processes[k].pid
    BY <1>3, <1>5 DEF Processes
<1>8. /\ call'.op = "terminate" /\ call'.id = processes[j].id
      /\ call' \in Calls
    BY <1>1, <1>3 DEF Sched!NoCall, Calls, Processes
<1>9. Ids' = Ids
    BY <1>7 DEF Ids
<1>10. call'.id \in Ids
    BY <1>8 DEF Ids
<1>11. SchedulerTypes'
    BY <1>2, <1>6, <1>8 DEF SchedulerTypes
<1>12. CallInv'
    BY <1>2, <1>7, <1>8, <1>9, <1>10 DEF CallInv
<1>13. SlotsInv'
    BY <1>2, <1>9 DEF SlotsInv
<1> QED BY <1>11, <1>12, <1>13

\* Only then is it terminated: its slots have been put to rest.
LEMMA TerminateReturnInv ==
    ASSUME SchedulerInv, Sched!TerminateReturn
    PROVE  SchedulerInv'
<1> USE DEF SchedulerInv
<1>1. /\ UNCHANGED <<processes, created, overrun>> /\ call' = Sched!NoCall
      /\ terminated' = terminated \cup {call.id}
      /\ threads' = [i \in DOMAIN threads |->
            IF threads[i].owner = call.id THEN [threads[i] EXCEPT !.isActive = FALSE] ELSE threads[i]]
      /\ call.id \in Ids
    BY DEF Sched!TerminateReturn, CallInv
<1>2. \A i \in DOMAIN threads :
        /\ threads'[i] \in Slots
        /\ threads'[i].owner = threads[i].owner
        /\ threads'[i].isActive => threads[i].isActive /\ threads[i].owner # call.id
    BY <1>1, Tables DEF Slots
<1>3. DOMAIN threads' = DOMAIN threads
    BY <1>1
<1>4. threads' \in Seq(Slots)
    BY <1>1, <1>2, Tables
<1>5. SchedulerTypes'
    BY <1>1, <1>4 DEF SchedulerTypes, Sched!NoCall, Calls
<1>6. Ids' = Ids
    BY <1>1 DEF Ids
<1>7. CallInv'
    BY <1>1, <1>6 DEF CallInv, Sched!NoCall
<1>8. SlotsInv'
    BY <1>1, <1>2, <1>3, <1>6 DEF SlotsInv
<1> QED BY <1>5, <1>7, <1>8

\* The timer may cut any call off: what the call had done keeps the invariant.
LEMMA TimerInv ==
    ASSUME SchedulerInv, Sched!Timer
    PROVE  SchedulerInv'
<1>1. UNCHANGED <<processes, threads, created, terminated, overrun>> /\ call' = Sched!NoCall
    BY DEF Sched!Timer, Sched!LoadProcess
<1> QED BY <1>1 DEF SchedulerInv, SchedulerTypes, CallInv, SlotsInv, Ids, Sched!NoCall, Calls

\* Every step of the scheduler keeps the invariant.
LEMMA SchedulerSteps == SchedulerInv /\ Sched!Next => SchedulerInv'
<1> SUFFICES ASSUME SchedulerInv, Sched!Next PROVE SchedulerInv'
    OBVIOUS
<1>1. ~ overrun
    BY DEF Sched!Next
<1>2. CASE \/ Sched!InitializeInterrupts \/ Sched!ShutdownInterrupts \/ Sched!UnregisterHandler
           \/ \E masked \in BOOLEAN : Sched!MaskIRQ(masked)
           \/ Sched!Initialize \/ Sched!Start \/ Sched!Stop
    BY <1>2, SchedulerStill
    DEF Sched!InitializeInterrupts, Sched!ShutdownInterrupts, Sched!UnregisterHandler, Sched!MaskIRQ,
        Sched!Initialize, Sched!Start, Sched!Stop, Sched!Switch, Sched!historyVars
<1> QED BY <1>1, <1>2, CreateCallInv, CreateThreadInv, CreateReturnInv, TerminateCallInv,
           TerminateReturnInv, TimerInv
    DEF Sched!Next
-----------------------------------------------------------------------------
\* Interrupts and drivers.

\* The flag is set ahead of the assignment that says so, and cleared ahead of the one
\* that takes it back; the objects that run were made and are under a name, or replaced.
InterruptInv ==
    /\ switching \in {"none", "enable", "disable"}
    /\ flag => interruptsEnabled \/ switching = "enable"
    /\ switching = "disable" => ~ flag
    /\ Irqs!LostOnlyWhileEnabling
    /\ DOMAIN drivers = DriverNames /\ 0 \notin up
    /\ made \in Nat
    /\ Irqs!DriversReachable

\* At the start interrupts are off and no driver runs.
LEMMA InterruptInit == Irqs!Init => InterruptInv
BY DEF InterruptInv, Irqs!Init, Irqs!LostOnlyWhileEnabling, Irqs!DriversReachable

\* Nothing else disturbs the invariant.
LEMMA InterruptStill == InterruptInv /\ UNCHANGED interruptVars => InterruptInv'
BY DEF InterruptInv, interruptVars, Irqs!LostOnlyWhileEnabling, Irqs!DriversReachable

\* An interrupt can be lost only between the instruction that enables them and the
\* assignment; a driver's object leaves its name only when it is shut down or replaced.
LEMMA InterruptSteps == InterruptInv /\ Irqs!Next => InterruptInv'
<1> SUFFICES ASSUME InterruptInv, Irqs!Next PROVE InterruptInv'
    OBVIOUS
<1> USE DEF Irqs!LostOnlyWhileEnabling, Irqs!interruptVars, Irqs!driverVars
<1>1. CASE Irqs!Initialize \/ Irqs!EnableInterrupts \/ Irqs!DisableInterrupts
    BY <1>1 DEF InterruptInv, Irqs!DriversReachable, Irqs!Initialize, Irqs!EnableInterrupts,
                Irqs!DisableInterrupts
<1>2. CASE Irqs!Switched
    BY <1>2 DEF InterruptInv, Irqs!DriversReachable, Irqs!Switched
<1>3. ASSUME NEW v \in Vectors, Irqs!RegisterInterruptHandler(v) \/ Irqs!Interrupt(v)
      PROVE  InterruptInv'
    <2>1. /\ UNCHANGED <<switching, flag, interruptsEnabled, drivers, made, up, replaced>>
          /\ lost' = lost \/ (flag /\ lost' = IF interruptsEnabled THEN lost ELSE lost \cup {switching})
        BY <1>3 DEF Irqs!RegisterInterruptHandler, Irqs!Interrupt
    <2>2. lost' \subseteq {"enable"}
        BY <2>1 DEF InterruptInv
    <2> QED BY <2>1, <2>2 DEF InterruptInv, Irqs!DriversReachable
<1>4. ASSUME NEW n \in DriverNames, Irqs!RegisterDriver(n) PROVE InterruptInv'
    <2>1. /\ made' = made + 1 /\ UNCHANGED <<switching, flag, interruptsEnabled, lost>>
          /\ \/ UNCHANGED <<drivers, up, replaced>>
             \/ /\ drivers' = [drivers EXCEPT ![n] = made'] /\ up' = up \cup {made'}
                /\ replaced' = replaced \cup ({drivers[n]} \ {0})
        BY <1>4 DEF Irqs!RegisterDriver
    <2>2. made' \in Nat /\ made' # 0
        BY <2>1 DEF InterruptInv
    <2>3. Irqs!DriversReachable'
        <3>1. CASE UNCHANGED <<drivers, up, replaced>>
            BY <3>1 DEF InterruptInv, Irqs!DriversReachable
        <3>2. CASE drivers' = [drivers EXCEPT ![n] = made'] /\ up' = up \cup {made'}
                   /\ replaced' = replaced \cup ({drivers[n]} \ {0})
            <4> SUFFICES ASSUME NEW x \in up', x \notin replaced'
                         PROVE  \E m \in DriverNames : drivers'[m] = x
                BY DEF Irqs!DriversReachable
            <4>1. drivers'[n] = made'
                BY <3>2 DEF InterruptInv
            <4>2. CASE x = made'
                BY <4>1, <4>2
            <4>3. CASE x \in up
                <5>1. x \notin replaced /\ x # drivers[n]
                    BY <3>2, <4>3 DEF InterruptInv
                <5>2. PICK m \in DriverNames : drivers[m] = x
                    BY <4>3, <5>1 DEF InterruptInv, Irqs!DriversReachable
                <5> QED BY <3>2, <5>1, <5>2 DEF InterruptInv
            <4> QED BY <3>2, <4>2, <4>3
        <3> QED BY <2>1, <3>1, <3>2
    <2> QED BY <2>1, <2>2, <2>3 DEF InterruptInv
<1>5. ASSUME NEW n \in DriverNames, Irqs!UnregisterDriver(n) PROVE InterruptInv'
    <2>1. /\ up' = up \ {drivers[n]} /\ drivers' = [drivers EXCEPT ![n] = 0]
          /\ UNCHANGED <<made, replaced, switching, flag, interruptsEnabled, lost>>
        BY <1>5 DEF Irqs!UnregisterDriver
    <2>2. Irqs!DriversReachable'
        BY <2>1 DEF InterruptInv, Irqs!DriversReachable
    <2> QED BY <2>1, <2>2 DEF InterruptInv
<1>6. CASE Irqs!ShutdownDrivers
    <2>1. PICK throwing \in SUBSET ({drivers[n] : n \in DriverNames} \ {0}) :
            /\ up' = up \ ({drivers[n] : n \in DriverNames} \ throwing)
            /\ replaced' = replaced \cup (throwing \cap up)
        BY <1>6 DEF Irqs!ShutdownDrivers
    <2>2. /\ drivers' = [n \in DriverNames |-> 0]
          /\ UNCHANGED <<made, switching, flag, interruptsEnabled, lost>>
        BY <1>6 DEF Irqs!ShutdownDrivers
    <2>3. up' \subseteq replaced'
        BY <2>1 DEF InterruptInv, Irqs!DriversReachable
    <2>4. Irqs!DriversReachable'
        BY <2>3 DEF Irqs!DriversReachable
    <2> QED BY <2>1, <2>2, <2>4 DEF InterruptInv
<1> QED BY <1>1, <1>2, <1>3, <1>4, <1>5, <1>6 DEF Irqs!Next

-----------------------------------------------------------------------------
\* Audio and COM.

\* Only a thread in the middle of a block has buffers to come to.
AudioInv ==
    /\ Audio!StoppedIsQuiet
    /\ audioThread # "processing" => block = {}
    /\ ~ comInitialized => threadInitMap = {}
    /\ apartment \in [Threads -> {0, 1}]
    /\ Audio!ApartmentsBalanced

\* Before the first start there is no thread and no apartment.
LEMMA AudioInit == Audio!Init => AudioInv
BY DEF AudioInv, Audio!Init, Audio!StoppedIsQuiet, Audio!ApartmentsBalanced

\* Nothing else disturbs the invariant.
LEMMA AudioStill == AudioInv /\ UNCHANGED audioVars => AudioInv'
BY DEF AudioInv, audioVars, Audio!StoppedIsQuiet, Audio!ApartmentsBalanced

\* The thread leaves its loop only between blocks, and is joined before it counts as gone.
LEMMA AudioSteps == AudioInv /\ Audio!Next => AudioInv'
<1> SUFFICES ASSUME AudioInv, Audio!Next PROVE AudioInv'
    OBVIOUS
<1> USE DEF AudioInv, Audio!audioVars, Audio!comVars
<1>1. CASE Audio!StartProcessing \/ Audio!StopProcessing \/ Audio!Joined
    BY <1>1 DEF Audio!StoppedIsQuiet, Audio!ApartmentsBalanced, Audio!StartProcessing,
                Audio!StopProcessing, Audio!Joined
<1>2. CASE Audio!Loop \/ Audio!BlockDone \/ \E b \in Buffers : Audio!ProcessBuffer(b)
    BY <1>2 DEF Audio!StoppedIsQuiet, Audio!ApartmentsBalanced, Audio!Loop, Audio!BlockDone,
                Audio!ProcessBuffer
<1>3. ASSUME NEW t \in Threads, Audio!ComInitialize(t) \/ Audio!ComUninitialize(t)
      PROVE  AudioInv'
    <2>1. Audio!StoppedIsQuiet' /\ (audioThread # "processing" => block = {})'
        BY <1>3 DEF Audio!StoppedIsQuiet, Audio!ComInitialize, Audio!ComUninitialize
    <2>2. \A u \in Threads : apartment[u] = IF u \in threadInitMap THEN 1 ELSE 0
        BY DEF Audio!ApartmentsBalanced
    <2>3. CASE Audio!ComInitialize(t)
        <3>1. /\ comInitialized' /\ threadInitMap = {} /\ threadInitMap' = {t}
              /\ apartment' = [apartment EXCEPT ![t] = apartment[t] + 1]
            BY <2>3 DEF Audio!ComInitialize
        <3>2. \A u \in Threads : apartment'[u] = IF u = t THEN 1 ELSE 0
            BY <2>2, <3>1
        <3>3. apartment' \in [Threads -> {0, 1}]
            BY <3>1, <3>2
        <3> QED BY <2>1, <3>1, <3>2, <3>3 DEF Audio!ApartmentsBalanced
    <2>4. CASE Audio!ComUninitialize(t)
        <3>1. /\ comInitialized' = comInitialized /\ t \in threadInitMap
              /\ threadInitMap' = threadInitMap \ {t}
              /\ apartment' = [apartment EXCEPT ![t] = apartment[t] - 1]
            BY <2>4 DEF Audio!ComUninitialize
        <3>2. \A u \in Threads : apartment'[u] = IF u \in threadInitMap' THEN 1 ELSE 0
            BY <2>2, <3>1
        <3>3. apartment' \in [Threads -> {0, 1}]
            BY <3>1, <3>2
        <3> QED BY <2>1, <3>1, <3>2, <3>3 DEF Audio!ApartmentsBalanced
    <2> QED BY <1>3, <2>3, <2>4
<1> QED BY <1>1, <1>2, <1>3 DEF Audio!Next

-----------------------------------------------------------------------------
\* The process manager.

\* Before the first process nothing is visible.
LEMMA ProcessInit == ProcMgr!Init => ProcMgr!VisibleIsSetUp
BY DEF ProcMgr!Init, ProcMgr!VisibleIsSetUp

\* Nothing else disturbs what is visible.
LEMMA ProcessStill == ProcMgr!VisibleIsSetUp /\ UNCHANGED processVars => ProcMgr!VisibleIsSetUp'
BY DEF processVars, ProcMgr!VisibleIsSetUp

\* The barrier stands between the last section and the process's entry in the map.
LEMMA ProcessSteps == ProcMgr!VisibleIsSetUp /\ ProcMgr!Next => ProcMgr!VisibleIsSetUp'
<1> SUFFICES ASSUME ProcMgr!VisibleIsSetUp, ProcMgr!Next PROVE ProcMgr!VisibleIsSetUp'
    OBVIOUS
<1> USE DEF ProcMgr!VisibleIsSetUp
<1>1. ASSUME NEW c \in Creators, NEW section \in ProcMgr!Sections, ProcMgr!SetUpSection(c, section)
      PROVE  ProcMgr!VisibleIsSetUp'
    <2>1. /\ visible' = visible /\ section \notin setUp[creating[c]]
          /\ setUp' = [setUp EXCEPT ![creating[c]] = @ \cup {section}]
        BY <1>1 DEF ProcMgr!SetUpSection
    <2>2. \A pid \in visible : pid # creating[c] /\ setUp'[pid] = setUp[pid]
        BY <2>1
    <2> QED BY <2>1, <2>2
<1>2. CASE \E c \in Creators : ProcMgr!CreateCall(c) \/ ProcMgr!Emplace(c) \/ ProcMgr!CreateReturn(c)
    BY <1>2 DEF ProcMgr!CreateCall, ProcMgr!Emplace, ProcMgr!CreateReturn, ProcMgr!baseVars
<1>3. CASE ProcMgr!BaseCreate \/ \E pid \in 0 .. MaxPid :
             ProcMgr!BaseTerminate(pid) \/ ProcMgr!Schedule(pid) \/ ProcMgr!ExecuteProcess(pid)
    BY <1>3 DEF ProcMgr!BaseCreate, ProcMgr!BaseTerminate, ProcMgr!Schedule,
                ProcMgr!ExecuteProcess, ProcMgr!derivedVars
<1> QED BY <1>1, <1>2, <1>3 DEF ProcMgr!Next
-----------------------------------------------------------------------------
\* Performance metrics.

\* What a metric keeps, and what is being recorded.
Samples    == [value : Values, tested : Nat, stored : Nat, by : Recorders]
Recordings == ({"record"} \X Names \X Values \X Nat) \cup ({"start", "stop"} \X Names)

\* A recorder on its way that tested for an earlier life has no sample from an earlier
\* life in a metric: it has not stored one since the metrics were last cleared.
LateHasNoOther ==
    \A t \in Recorders : recording[t] # <<>> /\ recording[t][1] = "record" /\ recording[t][4] # metricsEpoch
        => \A n \in Names : \A k \in DOMAIN samples[n] : Metrics!Stale(n, k) => samples[n][k].by # t

MetricsInv ==
    /\ recording \in [Recorders -> Recordings \cup {<<>>}]
    /\ samples \in [Names -> Seq(Samples)] /\ metricsEpoch \in Nat
    /\ Metrics!StaleOnePerRecorder /\ LateHasNoOther

\* Nothing is recorded before the first initialize.
LEMMA MetricsInit == Metrics!Init => MetricsInv
BY DEF MetricsInv, LateHasNoOther, Metrics!Init, Metrics!StaleOnePerRecorder

\* Nothing else disturbs the invariant.
LEMMA MetricsStill ==
    MetricsInv /\ UNCHANGED <<samples, recording, metricsEpoch>> => MetricsInv'
BY DEF MetricsInv, LateHasNoOther, Metrics!StaleOnePerRecorder, Metrics!Stale

\* A call that does not record ends, and the metrics are as they were.
LEMMA MetricsCallEnds ==
    ASSUME MetricsInv, NEW t \in Recorders, recording' = [recording EXCEPT ![t] = <<>>],
           UNCHANGED <<samples, metricsEpoch>>
    PROVE  MetricsInv'
<1>1. recording' \in [Recorders -> Recordings \cup {<<>>}]
    BY DEF MetricsInv
<1>2. \A u \in Recorders : recording'[u] # <<>> => recording'[u] = recording[u]
    BY DEF MetricsInv
<1>3. LateHasNoOther' /\ Metrics!StaleOnePerRecorder'
    BY <1>2 DEF MetricsInv, LateHasNoOther, Metrics!StaleOnePerRecorder, Metrics!Stale
<1> QED BY <1>1, <1>3 DEF MetricsInv

\* Who enters tests for the present life.
LEMMA EnterInv ==
    ASSUME MetricsInv, NEW t \in Recorders, NEW what \in Recordings, Metrics!Enter(t, what),
           what[1] = "record" => what[4] = metricsEpoch
    PROVE  MetricsInv'
<1>1. /\ recording[t] = <<>> /\ recording' = [recording EXCEPT ![t] = what]
      /\ UNCHANGED <<samples, metricsEpoch>>
    BY DEF Metrics!Enter
<1>2. recording' \in [Recorders -> Recordings \cup {<<>>}]
    BY <1>1 DEF MetricsInv
<1>3. \A u \in Recorders : recording'[u] = IF u = t THEN what ELSE recording[u]
    BY <1>1 DEF MetricsInv
<1>4. LateHasNoOther' /\ Metrics!StaleOnePerRecorder'
    BY <1>1, <1>3 DEF MetricsInv, LateHasNoOther, Metrics!StaleOnePerRecorder, Metrics!Stale
<1> QED BY <1>1, <1>2, <1>4 DEF MetricsInv

\* A sample is stored in the present life; if it was tested for in an earlier one, its
\* recorder has no other such sample, and is on its way no longer.
LEMMA RecordMetricInv ==
    ASSUME MetricsInv, NEW t \in Recorders, Metrics!RecordMetric(t)
    PROVE  MetricsInv'
<1> DEFINE new == [value |-> recording[t][3], tested |-> recording[t][4], stored |-> metricsEpoch, by |-> t]
           n   == recording[t][2]
           old == samples[n]
           all == Append(old, new)
<1>1. /\ recording[t] # <<>> /\ recording[t][1] = "record" /\ metricsEpoch' = metricsEpoch
      /\ samples' = [samples EXCEPT ![n] = all]
      /\ recording' = [recording EXCEPT ![t] = <<>>]
    BY DEF Metrics!RecordMetric
<1>2. recording[t] \in {"record"} \X Names \X Values \X Nat
    BY <1>1 DEF MetricsInv, Recordings
<1>3. /\ new \in Samples /\ new.stored = metricsEpoch /\ new.by = t /\ new.tested = recording[t][4]
    BY <1>2 DEF MetricsInv, Samples
<1>4. n \in Names /\ old \in Seq(Samples)
    BY <1>2 DEF MetricsInv
<1>5. recording' \in [Recorders -> Recordings \cup {<<>>}]
    BY <1>1 DEF MetricsInv
<1> HIDE DEF new, n, old
<1>6. /\ all \in Seq(Samples) /\ DOMAIN old = 1 .. Len(old) /\ DOMAIN all = 1 .. Len(old) + 1
      /\ Len(old) \in Nat /\ all[Len(old) + 1] = new
      /\ \A k \in DOMAIN old : all[k] = old[k]
    BY <1>3, <1>4, AppendProperties, LenProperties
<1> DEFINE newest == Len(old) + 1
<1>7. samples' \in [Names -> Seq(Samples)]
    BY <1>1, <1>4, <1>6 DEF MetricsInv
<1>8. samples'[n] = all /\ \A m \in Names : m # n => samples'[m] = samples[m]
    BY <1>1, <1>4 DEF MetricsInv
<1> HIDE DEF all, newest
<1>9. ASSUME NEW m \in Names, NEW k \in DOMAIN samples'[m]
      PROVE  \/ m = n /\ k = newest /\ samples'[m][k] = new
             \/ k \in DOMAIN samples[m] /\ samples'[m][k] = samples[m][k]
    <2>1. CASE m = n
        BY <1>6, <1>8, <1>9, <2>1 DEF newest, old
    <2>2. CASE m # n
        BY <1>8, <1>9, <2>2
    <2> QED BY <2>1, <2>2
<1>10. newest \notin DOMAIN samples[n]
    BY <1>6 DEF newest, old
<1>11. \A m \in Names : \A k \in DOMAIN samples'[m] : samples'[m][k].stored = metricsEpoch
    BY <1>3, <1>9 DEF MetricsInv, Metrics!StaleOnePerRecorder
<1>12. new.tested # metricsEpoch =>
          \A m \in Names : \A k \in DOMAIN samples[m] :
              samples[m][k].tested # metricsEpoch => samples[m][k].by # t
    BY <1>1, <1>3 DEF MetricsInv, LateHasNoOther, Metrics!Stale
<1>13. ASSUME NEW m1 \in Names, NEW m2 \in Names, NEW k1 \in DOMAIN samples'[m1],
              NEW k2 \in DOMAIN samples'[m2],
              samples'[m1][k1].tested # metricsEpoch, samples'[m2][k2].tested # metricsEpoch,
              samples'[m1][k1].by = samples'[m2][k2].by
       PROVE  m1 = m2 /\ k1 = k2
    <2>1. CASE k1 \in DOMAIN samples[m1] /\ samples'[m1][k1] = samples[m1][k1]
               /\ k2 \in DOMAIN samples[m2] /\ samples'[m2][k2] = samples[m2][k2]
        BY <1>13, <2>1 DEF MetricsInv, Metrics!StaleOnePerRecorder, Metrics!Stale
    <2> QED BY <1>3, <1>9, <1>12, <1>13, <2>1
<1>14. Metrics!StaleOnePerRecorder'
    BY <1>1, <1>11, <1>13 DEF Metrics!StaleOnePerRecorder, Metrics!Stale
<1>15. \A u \in Recorders : recording'[u] # <<>> => u # t /\ recording'[u] = recording[u]
    BY <1>1 DEF MetricsInv
<1>16. LateHasNoOther'
    <2> SUFFICES ASSUME NEW u \in Recorders, recording'[u] # <<>>, recording'[u][1] = "record",
                        recording'[u][4] # metricsEpoch', NEW m \in Names, NEW k \in DOMAIN samples'[m],
                        Metrics!Stale(m, k)'
                 PROVE  samples'[m][k].by # u
        BY DEF LateHasNoOther
    <2>1. u # t /\ recording[u] # <<>> /\ recording[u][1] = "record" /\ recording[u][4] # metricsEpoch
          /\ samples'[m][k].tested # metricsEpoch
        BY <1>1, <1>15 DEF Metrics!Stale
    <2>2. CASE m = n /\ k = newest /\ samples'[m][k] = new
        BY <1>3, <2>1, <2>2
    <2>3. CASE k \in DOMAIN samples[m] /\ samples'[m][k] = samples[m][k]
        BY <2>1, <2>3 DEF MetricsInv, LateHasNoOther, Metrics!Stale
    <2> QED BY <1>9, <2>2, <2>3
<1> QED BY <1>1, <1>5, <1>7, <1>14, <1>16 DEF MetricsInv

\* Every step of the metrics keeps the invariant.
LEMMA MetricsSteps == MetricsInv /\ Metrics!Next => MetricsInv'
<1> SUFFICES ASSUME MetricsInv, Metrics!Next PROVE MetricsInv'
    OBVIOUS
<1>1. CASE Metrics!Initialize \/ Metrics!Shutdown
    <2>1. /\ UNCHANGED recording
          /\ samples' = [n \in Names |-> <<>>] /\ metricsEpoch' \in Nat
        BY <1>1 DEF MetricsInv, Metrics!Initialize, Metrics!Shutdown, Metrics!Clear
    <2>2. samples' \in [Names -> Seq(Samples)] /\ Metrics!StaleOnePerRecorder' /\ LateHasNoOther'
        BY <2>1 DEF Metrics!StaleOnePerRecorder, LateHasNoOther
    <2> QED BY <2>1, <2>2 DEF MetricsInv
<1>2. ASSUME NEW t \in Recorders, Metrics!StartTimer(t) PROVE MetricsInv'
    BY <1>2, MetricsCallEnds DEF Metrics!StartTimer
<1>3. ASSUME NEW t \in Recorders, Metrics!StopTimer(t) PROVE MetricsInv'
    <2>1. /\ UNCHANGED <<samples, metricsEpoch>>
          /\ recording' = recording \/ recording' = [recording EXCEPT ![t] = <<>>]
        BY <1>3 DEF Metrics!StopTimer
    <2> QED BY <2>1, MetricsCallEnds, MetricsStill
<1>4. ASSUME NEW n \in Names, NEW v \in Values, Metrics!SetThreshold(n, v) PROVE MetricsInv'
    BY <1>4, MetricsStill DEF Metrics!SetThreshold
<1>5. ASSUME NEW t \in Recorders, NEW n \in Names,
             Metrics!Enter(t, <<"start", n>>) \/ Metrics!Enter(t, <<"stop", n>>)
      PROVE  MetricsInv'
    <2>1. <<"start", n>> \in Recordings /\ <<"stop", n>> \in Recordings
        BY DEF Recordings
    <2> QED BY <1>5, <2>1, EnterInv
<1>6. ASSUME NEW t \in Recorders, NEW n \in Names, NEW v \in Values,
             Metrics!Enter(t, <<"record", n, v, metricsEpoch>>)
      PROVE  MetricsInv'
    <2>1. <<"record", n, v, metricsEpoch>> \in Recordings
        BY DEF Recordings, MetricsInv
    <2> QED BY <1>6, <2>1, EnterInv
<1> QED BY <1>1, <1>2, <1>3, <1>4, <1>5, <1>6, RecordMetricInv DEF Metrics!Next

\* What the loop of calculateStats adds sample by sample to the statistics so far.
StatsRound(ss, n, g) ==
    [k \in 0 .. n |->
        IF k = 0 THEN [min |-> ss[1].value, max |-> ss[1].value, sum |-> 0]
        ELSE [min |-> IF ss[k].value < g[k - 1].min THEN ss[k].value ELSE g[k - 1].min,
              max |-> IF ss[k].value > g[k - 1].max THEN ss[k].value ELSE g[k - 1].max,
              sum |-> g[k - 1].sum + ss[k].value]]

\* The loop comes to an end with any samples.
LEMMA StatsExist ==
    ASSUME NEW ss, NEW n \in Nat
    PROVE  \E g : g = StatsRound(ss, n, g)
<1> DEFINE N == {m \in Nat : ~ \E g : g = StatsRound(ss, m, g)}
<1> SUFFICES ASSUME N # {} PROVE FALSE
    OBVIOUS
<1>1. PICK m \in N : \A k \in N : m <= k
    <2> HIDE DEF N
    <2>1. N \in SUBSET Nat
        BY DEF N
    <2> QED BY <2>1, LeastNumber
<1>2. m # 0
    <2> SUFFICES ASSUME m = 0 PROVE FALSE
        OBVIOUS
    <2> DEFINE g == [k \in 0 .. 0 |-> [min |-> ss[1].value, max |-> ss[1].value, sum |-> 0]]
    <2>1. g = StatsRound(ss, 0, g)
        BY DEF StatsRound
    <2> QED BY <2>1
<1>3. m \in Nat /\ m - 1 \in Nat /\ ~ (m <= m - 1)
    BY <1>2
<1>4. PICK h : h = StatsRound(ss, m - 1, h)
    <2>1. m - 1 \notin N
        <3> HIDE DEF N
        <3> QED BY <1>1, <1>3
    <2> QED BY <1>3, <2>1
<1> DEFINE g == StatsRound(ss, m, h)
<1>5. \A k \in 0 .. m - 1 : g[k] = h[k]
    <2> TAKE k \in 0 .. m - 1
    <2>1. k \in 0 .. m
        BY <1>3
    <2>2. h[k] = StatsRound(ss, m - 1, h)[k]
        BY <1>4
    <2> QED BY <2>1, <2>2 DEF StatsRound
<1>6. \A k \in 0 .. m : k # 0 => g[k - 1] = h[k - 1]
    BY <1>3, <1>5
<1>7. StatsRound(ss, m, g) = g
    <2> HIDE DEF g
    <2>1. StatsRound(ss, m, g) = StatsRound(ss, m, h)
        BY <1>6 DEF StatsRound
    <2> QED BY <2>1 DEF g
<1> QED BY <1>7

\* A number that a sum of n terms is at least n times is at most their average, and one
\* that it is at most n times is at least their average.
LEMMA AverageBetween ==
    ASSUME NEW n \in Nat \ {0}, NEW s \in Int, NEW a \in Int, NEW b \in Int,
           n * a <= s, s <= n * b
    PROVE  a <= s \div n /\ s \div n <= b
<1> DEFINE q == s \div n
<1>1. q \in Int /\ n * q <= s /\ s < n * q + n
    OBVIOUS
<1> HIDE DEF q
<1>2. \A x, y \in Int : x > y => n * x >= n * y + n
    <2> TAKE x, y \in Int
    <2> HAVE x > y
    <2>1. x - y - 1 \in Nat
        OBVIOUS
    <2>2. n * (x - y - 1) >= 0
        BY <2>1
    <2>3. n * (x - y - 1) = n * x - n * y - n
        OBVIOUS
    <2>4. n * x \in Int /\ n * y \in Int
        OBVIOUS
    <2> QED BY <2>2, <2>3, <2>4
<1>3. n * q \in Int /\ n * a \in Int /\ n * b \in Int
    BY <1>1
<1>4. a <= q
    <2> SUFFICES ASSUME a > q PROVE FALSE
        BY <1>1
    <2>1. n * a >= n * q + n
        BY <1>1, <1>2
    <2> QED BY <2>1, <1>1, <1>3
<1>5. q <= b
    <2> SUFFICES ASSUME q > b PROVE FALSE
        BY <1>1
    <2>1. n * q >= n * b + n
        BY <1>1, <1>2
    <2> QED BY <2>1, <1>1, <1>3
<1> QED BY <1>4, <1>5 DEF q

\* After any number of samples, minimum and maximum are among them, and the sum lies
\* between their multiples.
LEMMA StatsBound ==
    ASSUME NEW ss, NEW n \in Nat \ {0}, \A k \in 1 .. n : ss[k].value \in Int,
           NEW g, g = StatsRound(ss, n, g)
    PROVE  /\ g[n].min \in {ss[k].value : k \in 1 .. n} /\ g[n].max \in {ss[k].value : k \in 1 .. n}
           /\ g[n].sum \in Int /\ n * g[n].min <= g[n].sum /\ g[n].sum <= n * g[n].max
<1> DEFINE V == {ss[k].value : k \in 1 .. n}
           Good(k) == /\ g[k].min \in V /\ g[k].max \in V /\ g[k].sum \in Int
                      /\ k * g[k].min <= g[k].sum /\ g[k].sum <= k * g[k].max
           N == {k \in 0 .. n : ~ Good(k)}
<1>1. V \in SUBSET Int /\ \A k \in 1 .. n : ss[k].value \in V
    OBVIOUS
<1> SUFFICES ASSUME N # {} PROVE FALSE
    <2>1. N = {}
        OBVIOUS
    <2> QED BY <2>1
<1>2. PICK m \in N : \A k \in N : m <= k
    <2> HIDE DEF N
    <2>1. N \in SUBSET Nat
        BY DEF N
    <2> QED BY <2>1, LeastNumber
<1>3. m \in 0 .. n /\ ~ Good(m)
    OBVIOUS
<1>4. \A k \in 0 .. n : g[k] = StatsRound(ss, n, g)[k]
    OBVIOUS
<1> HIDE DEF V
<1>5. m # 0
    <2> SUFFICES ASSUME m = 0 PROVE FALSE
        OBVIOUS
    <2>1. g[0] = [min |-> ss[1].value, max |-> ss[1].value, sum |-> 0]
        BY <1>4 DEF StatsRound
    <2>2. ss[1].value \in V /\ ss[1].value \in Int
        BY <1>1
    <2> QED BY <1>3, <2>1, <2>2
<1> DEFINE p == m - 1
<1>6. p \in Nat /\ p \in 0 .. n /\ m \in 1 .. n /\ m = p + 1 /\ ~ (m <= p)
    BY <1>3, <1>5
<1>7. Good(p)
    <2>1. p \notin N
        <3> HIDE DEF N, p
        <3> QED BY <1>2, <1>6
    <2> QED BY <1>6, <2>1
<1> DEFINE v == ss[m].value
           a == g[p].min
           b == g[p].max
           s == g[p].sum
           c == IF v < a THEN v ELSE a
           d == IF v > b THEN v ELSE b
<1>8. g[m] = [min |-> c, max |-> d, sum |-> s + v]
    BY <1>4, <1>5, <1>6 DEF StatsRound
<1>9. v \in V /\ a \in V /\ b \in V /\ v \in Int /\ a \in Int /\ b \in Int /\ s \in Int
    BY <1>1, <1>6, <1>7
<1>10. p * a <= s /\ s <= p * b
    BY <1>7
<1> HIDE DEF p, a, b, s, v
<1>11. c \in V /\ d \in V /\ c \in Int /\ d \in Int /\ c <= a /\ c <= v /\ b <= d /\ v <= d
    BY <1>9
<1> HIDE DEF c, d
<1>12. p * c <= p * a /\ p * b <= p * d /\ m * c = p * c + c /\ m * d = p * d + d
    <2>1. p * (a - c) >= 0 /\ p * (d - b) >= 0
        BY <1>6, <1>9, <1>11
    <2>2. p * (a - c) = p * a - p * c /\ p * (d - b) = p * d - p * b
        BY <1>6, <1>9, <1>11
    <2>3. p * a \in Int /\ p * c \in Int /\ p * d \in Int /\ p * b \in Int
        BY <1>6, <1>9, <1>11
    <2>4. (p + 1) * c = p * c + c /\ (p + 1) * d = p * d + d
        BY <1>6, <1>9, <1>11
    <2> QED BY <1>6, <2>1, <2>2, <2>3, <2>4
<1>13. m * c <= s + v /\ s + v <= m * d
    <2>1. p * a \in Int /\ p * c \in Int /\ p * d \in Int /\ p * b \in Int
        BY <1>6, <1>9, <1>11
    <2> QED BY <1>9, <1>10, <1>11, <1>12, <2>1
<1>14. Good(m)
    BY <1>8, <1>9, <1>11, <1>13
<1> QED BY <1>3, <1>14

\* The statistics of a metric lie between its samples.
LEMMA StatsFollow ==
    ASSUME samples \in [Names -> Seq(Samples)]
    PROVE  Metrics!StatsOrdered
<1> SUFFICES ASSUME NEW n \in Names, samples[n] # <<>>
             PROVE  LET s == Metrics!CalculateStats(samples[n]) IN
                    /\ s.min <= s.average /\ s.average <= s.max
                    /\ {s.min, s.max} \subseteq {samples[n][k].value : k \in DOMAIN samples[n]}
    BY DEF Metrics!StatsOrdered
<1> DEFINE ss == samples[n]
           L == Len(ss)
           g == CHOOSE h : h = StatsRound(ss, L, h)
<1>1. ss \in Seq(Samples) /\ L \in Nat \ {0} /\ DOMAIN ss = 1 .. L
    BY EmptySeq, LenProperties
<1>2. \A k \in 1 .. L : ss[k].value \in Int
    <2> HIDE DEF ss, L
    <2>1. \A k \in 1 .. L : ss[k] \in Samples
        BY <1>1, ElementOfSeq DEF L
    <2> QED BY <2>1, MetricsAssumption DEF Samples
<1>3. Metrics!CalculateStats(ss) =
        [min |-> g[L].min, max |-> g[L].max, average |-> g[L].sum \div L]
    BY DEF Metrics!CalculateStats, StatsRound
<1> HIDE DEF ss
<1>4. g = StatsRound(ss, L, g)
    BY <1>1, StatsExist
<1> HIDE DEF g, L
<1>5. /\ g[L].min \in {ss[k].value : k \in 1 .. L} /\ g[L].max \in {ss[k].value : k \in 1 .. L}
      /\ g[L].sum \in Int /\ L * g[L].min <= g[L].sum /\ g[L].sum <= L * g[L].max
    BY <1>1, <1>2, <1>4, StatsBound
<1>6. g[L].min \in Int /\ g[L].max \in Int
    BY <1>2, <1>5
<1>7. g[L].min <= g[L].sum \div L /\ g[L].sum \div L <= g[L].max
    BY <1>1, <1>5, <1>6, AverageBetween
<1>8. /\ Metrics!CalculateStats(ss).min = g[L].min /\ Metrics!CalculateStats(ss).max = g[L].max
      /\ Metrics!CalculateStats(ss).average = g[L].sum \div L
    BY <1>3
<1> HIDE DEF ss
<1>9. /\ Metrics!CalculateStats(ss).min <= Metrics!CalculateStats(ss).average
      /\ Metrics!CalculateStats(ss).average <= Metrics!CalculateStats(ss).max
      /\ {Metrics!CalculateStats(ss).min, Metrics!CalculateStats(ss).max}
            \subseteq {ss[k].value : k \in DOMAIN ss}
    BY <1>1, <1>5, <1>7, <1>8
<1> QED BY <1>9 DEF ss

-----------------------------------------------------------------------------
\* The task scheduler.

\* The processes added are known ones, and in the queue or switched to.
TaskInv == procs \subseteq Pids /\ Schedulers!AddedIsReady

\* Before the first process nothing is queued.
LEMMA TaskInit == Schedulers!TaskInit => TaskInv
BY DEF TaskInv, Schedulers!TaskInit, Schedulers!AddedIsReady

\* Nothing else disturbs the queue.
LEMMA TaskStill == TaskInv /\ UNCHANGED taskVars => TaskInv'
BY DEF TaskInv, taskVars, Schedulers!AddedIsReady

\* Only switchContext takes an entry out; a rebuild takes up every process.
LEMMA TaskSteps == TaskInv /\ Schedulers!TaskNext => TaskInv'
<1> SUFFICES ASSUME TaskInv, Schedulers!TaskNext PROVE TaskInv'
    OBVIOUS
<1> USE DEF TaskInv, Schedulers!AddedIsReady
<1>1. ASSUME NEW element, Schedulers!Push(element)
      PROVE  DOMAIN readyQueue' = DOMAIN readyQueue \cup {element}
    BY <1>1 DEF Schedulers!Push, Schedulers!BagAdd
<1>2. ASSUME NEW task \in Tasks, Schedulers!ScheduleTask(task) PROVE TaskInv'
    <2>1. Schedulers!Push(task) /\ UNCHANGED <<procs, dispatched>>
        BY <1>2 DEF Schedulers!ScheduleTask
    <2> QED BY <1>1, <2>1
<1>3. ASSUME NEW pid \in Pids, Schedulers!AddProcess(pid) PROVE TaskInv'
    <2>1. /\ Schedulers!Push(pid) /\ procs' = procs \cup {pid}
          /\ dispatched' = dispatched \ {pid}
        BY <1>3 DEF Schedulers!AddProcess
    <2> QED BY <1>1, <2>1
<1>4. ASSUME NEW pid \in Pids, Schedulers!RemoveProcess(pid) PROVE TaskInv'
    <2>1. /\ procs' = procs \ {pid} /\ dispatched' = dispatched
          /\ readyQueue' = [p \in procs' |-> 1]
        BY <1>4 DEF Schedulers!RemoveProcess, Schedulers!Rebuilt
    <2>2. DOMAIN readyQueue' = procs'
        BY <2>1
    <2> QED BY <2>1, <2>2
<1>5. CASE \E on \in BOOLEAN : Schedulers!SetRunning(on)
    BY <1>5 DEF Schedulers!SetRunning
<1>6. CASE Schedulers!Yield
    <2>1. Schedulers!Push(currentProcess) /\ UNCHANGED <<procs, dispatched>>
        BY <1>6 DEF Schedulers!Yield
    <2> QED BY <1>1, <2>1
<1>7. CASE Schedulers!SwitchContext
    <2>1. PICK top \in DOMAIN readyQueue :
            /\ readyQueue' = Schedulers!BagRemove(readyQueue, top)
            /\ dispatched' = dispatched \cup ({top} \cap Pids)
        BY <1>7 DEF Schedulers!SwitchContext
    <2>2. procs' = procs
        BY <1>7 DEF Schedulers!SwitchContext
    <2>3. DOMAIN readyQueue \ {top} \subseteq DOMAIN readyQueue'
        BY <2>1 DEF Schedulers!BagRemove
    <2> QED BY <2>1, <2>2, <2>3
<1> QED BY <1>2, <1>3, <1>4, <1>5, <1>6, <1>7 DEF Schedulers!TaskNext

-----------------------------------------------------------------------------
\* The scheduler of games.

\* A list of what is in a set, each once.
Lists(l, S) ==
    /\ \A x \in S : \E j \in 1 .. Len(l) : l[j] = x
    /\ \A j \in 1 .. Len(l) : l[j] \in S
    /\ \A j, k \in 1 .. Len(l) : l[j] = l[k] => j = k

\* SetToSeq lists each element of a finite set once.
LEMMA ListOfSet ==
    ASSUME NEW S, IsFiniteSet(S)
    PROVE  /\ Schedulers!SetToSeq(S) \in Seq(S)
           /\ Len(Schedulers!SetToSeq(S)) = Cardinality(S)
           /\ Lists(Schedulers!SetToSeq(S), S)
<1> DEFINE n == Cardinality(S)
           l == Schedulers!SetToSeq(S)
<1>1. n \in Nat /\ ExistsBijection(1 .. n, S)
    BY FS_CardinalityType
<1>2. l = CHOOSE g \in [1 .. n -> S] : IsInjective(g)
    BY DEF Schedulers!SetToSeq, Schedulers!IsInjective, IsInjective, Schedulers!Cardinality, Cardinality
<1>3. \E g \in [1 .. n -> S] : IsInjective(g)
    BY <1>1 DEF ExistsBijection, Bijection, Injection
<1> HIDE DEF n, l
<1>4. l \in [1 .. n -> S] /\ IsInjective(l)
    BY <1>2, <1>3
<1>5. l \in Injection(1 .. n, S)
    BY <1>4 DEF Injection
<1>6. Cardinality(1 .. n) = n /\ IsFiniteSet(1 .. n)
    BY <1>1, FS_Interval
<1>7. l \in Surjection(1 .. n, S)
    BY <1>5, <1>6, FS_Injection DEF n
<1>8. l \in Seq(S) /\ Len(l) = n
    BY <1>1, <1>4, SeqDef, LenProperties
<1>9. Lists(l, S)
    <2>1. \A j \in 1 .. n : l[j] \in S
        BY <1>4
    <2> QED BY <1>4, <1>7, <1>8, <2>1 DEF Lists, Surjection, IsInjective
<1> QED BY <1>8, <1>9 DEF n, l

\* Processes that handles may be opened to, and what an entry of a game holds.
Opened == Schedulers!AllProcesses
GameEntry == [game : Games, open : BOOLEAN, priority : Schedulers!Classes, threads : Seq(Opened)]

\* The handles of a process that an entry holds, and those that all entries hold.
HandlesOf(e, p)  == (IF e.game = p /\ e.open THEN 1 ELSE 0)
                    + Cardinality({j \in DOMAIN e.threads : e.threads[j] = p})
HandlesIn(gs, p) == SumFunctionOnSet([k \in DOMAIN gs |-> HandlesOf(gs[k], p)], DOMAIN gs)

\* The monitor's walk never leaves the entries, as these only grow.
GameInv ==
    /\ alive \subseteq Opened
    /\ activeGames \in Seq(GameEntry)
    /\ handles \in [Opened -> Nat]
    /\ walk \in 0 .. Len(activeGames)
    /\ \A p \in Opened : handles[p] = HandlesIn(activeGames, p)

\* What the schedulers count, in terms of the library.
LEMMA RecordedIsSum ==
    ASSUME NEW p
    PROVE  Schedulers!Recorded(p) = HandlesIn(activeGames, p)
<1> DEFINE f == [k \in DOMAIN activeGames |-> HandlesOf(activeGames[k], p)]
           h == [k \in DOMAIN activeGames |->
                   (IF activeGames[k].game = p /\ activeGames[k].open THEN 1 ELSE 0)
                   + Schedulers!Cardinality({j \in DOMAIN activeGames[k].threads :
                                                activeGames[k].threads[j] = p})]
<1>1. Schedulers!Recorded(p) = Schedulers!SumFunction(f)
    <2>1. Schedulers!Recorded(p) = Schedulers!SumFunction(h)
        BY DEF Schedulers!Recorded
    <2>2. \A S : Schedulers!Cardinality(S) = Cardinality(S)
        BY DEF Schedulers!Cardinality, Cardinality
    <2>3. h = f
        BY <2>2 DEF HandlesOf
    <2> HIDE DEF h, f
    <2> QED BY <2>1, <2>3
<1>2. Schedulers!SumFunction(f) = SumFunctionOnSet(f, DOMAIN f)
    <2> HIDE DEF f
    <2> QED BY SumIsLastPartial
            DEF Schedulers!SumFunction, Schedulers!SumFunctionOnSet, Schedulers!FoldFunctionOnSet,
                Schedulers!MapThenFoldSet, PartialSums, SumRound, Chosen
<1> QED BY <1>1, <1>2 DEF HandlesIn

\* An entry holds a natural number of handles.
LEMMA HandlesCounted ==
    ASSUME NEW e \in GameEntry, NEW p
    PROVE  /\ IsFiniteSet({j \in DOMAIN e.threads : e.threads[j] = p})
           /\ HandlesOf(e, p) \in Nat
<1>1. e.threads \in Seq(Opened)
    BY DEF GameEntry
<1>2. DOMAIN e.threads = 1 .. Len(e.threads) /\ Len(e.threads) \in Nat
    BY <1>1, LenProperties
<1>3. IsFiniteSet(DOMAIN e.threads)
    BY <1>2, FS_Interval
<1> DEFINE J == {j \in DOMAIN e.threads : e.threads[j] = p}
<1>4. IsFiniteSet(J) /\ Cardinality(J) \in Nat
    BY <1>3, FS_Subset, FS_CardinalityType
<1> DEFINE c == IF e.game = p /\ e.open THEN 1 ELSE 0
<1>5. c \in Nat
    OBVIOUS
<1>6. HandlesOf(e, p) = c + Cardinality(J)
    BY DEF HandlesOf
<1> HIDE DEF c
<1>7. HandlesOf(e, p) \in Nat
    BY <1>4, <1>5, <1>6
<1> QED BY <1>4, <1>7

\* So do the entries of any list.
LEMMA EntriesCounted ==
    ASSUME NEW gs \in Seq(GameEntry), NEW p
    PROVE  /\ Len(gs) \in Nat /\ DOMAIN gs = 1 .. Len(gs) /\ IsFiniteSet(1 .. Len(gs))
           /\ \A k \in 1 .. Len(gs) : gs[k] \in GameEntry /\ HandlesOf(gs[k], p) \in Nat
<1>1. Len(gs) \in Nat /\ DOMAIN gs = 1 .. Len(gs)
    BY LenProperties
<1>2. \A k \in 1 .. Len(gs) : gs[k] \in GameEntry
    BY ElementOfSeq
<1>3. IsFiniteSet(1 .. Len(gs))
    BY <1>1, FS_Interval
<1> QED BY <1>1, <1>2, <1>3, HandlesCounted

\* An entry that got the threads l more, which are those of the processes A.
Extended(e, e2, l, A) ==
    /\ e \in GameEntry /\ e2 \in GameEntry /\ l \in Seq(Opened) /\ Lists(l, A)
    /\ e2.game = e.game /\ e2.open = e.open /\ e2.threads = e.threads \o l

\* An entry that gets a thread of some processes holds one handle more of each of them.
LEMMA HandlesOfMore ==
    ASSUME NEW e, NEW e2, NEW l, NEW A, NEW p, Extended(e, e2, l, A)
    PROVE  HandlesOf(e2, p) = IF p \in A THEN HandlesOf(e, p) + 1 ELSE HandlesOf(e, p)
<1> USE DEF Extended
<1> DEFINE t == e.threads
           J == {j \in DOMAIN t : t[j] = p}
           K == {j \in DOMAIN e2.threads : e2.threads[j] = p}
           c == IF e.game = p /\ e.open THEN 1 ELSE 0
<1>0. /\ \A x \in A : \E j \in 1 .. Len(l) : l[j] = x
      /\ \A j \in 1 .. Len(l) : l[j] \in A
      /\ \A j, k \in 1 .. Len(l) : l[j] = l[k] => j = k
    BY DEF Lists
<1>1. t \in Seq(Opened) /\ e2.threads = t \o l
    BY DEF GameEntry
<1>2. Len(t) \in Nat /\ DOMAIN t = 1 .. Len(t) /\ Len(l) \in Nat
    BY <1>1, LenProperties
<1>3. /\ DOMAIN e2.threads = 1 .. Len(t) + Len(l)
      /\ \A j \in 1 .. Len(t) + Len(l) :
            e2.threads[j] = IF j <= Len(t) THEN t[j] ELSE l[j - Len(t)]
    <2> HIDE DEF t
    <2>1. t \o l \in Seq(Opened) /\ Len(t \o l) = Len(t) + Len(l)
        BY <1>1, ConcatProperties
    <2>2. DOMAIN (t \o l) = 1 .. Len(t) + Len(l)
        BY <2>1, LenProperties
    <2>3. \A j \in 1 .. Len(t) + Len(l) : (t \o l)[j] = IF j <= Len(t) THEN t[j] ELSE l[j - Len(t)]
        BY <1>1, ConcatProperties
    <2> QED BY <1>1, <2>2, <2>3
<1>4. HandlesOf(e, p) = c + Cardinality(J) /\ HandlesOf(e2, p) = c + Cardinality(K)
    BY DEF HandlesOf
<1>5. IsFiniteSet(J) /\ Cardinality(J) \in Nat
    <2>1. IsFiniteSet(DOMAIN t) /\ J \subseteq DOMAIN t
        BY <1>2, FS_Interval
    <2> HIDE DEF J, t
    <2> QED BY <2>1, FS_Subset, FS_CardinalityType
<1>6. c \in Nat
    OBVIOUS
<1> HIDE DEF c, t
<1>7. CASE p \in A
    <2>1. PICK i \in 1 .. Len(l) : l[i] = p
        BY <1>0, <1>7
    <2>2. \A j \in 1 .. Len(l) : l[j] = p => j = i
        BY <1>0, <2>1
    <2>3. Len(t) + i \notin J
        BY <1>2, <2>1
    <2>4. K = J \cup {Len(t) + i}
        <3>1. ASSUME NEW j \in K PROVE j \in J \cup {Len(t) + i}
            <4>1. j \in 1 .. Len(t) + Len(l) /\ e2.threads[j] = p
                BY <1>3
            <4>2. CASE j <= Len(t)
                BY <1>2, <1>3, <4>1, <4>2
            <4>3. CASE ~ (j <= Len(t))
                <5>1. j - Len(t) \in 1 .. Len(l) /\ l[j - Len(t)] = p
                    BY <1>2, <1>3, <4>1, <4>3
                <5>2. j - Len(t) = i
                    BY <2>2, <5>1
                <5>3. j = Len(t) + i
                    <6>1. j \in Int /\ i \in Int
                        BY <4>1
                    <6> QED BY <1>2, <5>2, <6>1
                <5> QED BY <5>3
            <4> QED BY <4>2, <4>3
        <3>2. ASSUME NEW j \in J PROVE j \in K
            BY <1>2, <1>3
        <3>3. Len(t) + i \in K
            BY <1>2, <1>3, <2>1
        <3> QED BY <3>1, <3>2, <3>3
    <2>5. Cardinality(K) = Cardinality(J) + 1
        <3> HIDE DEF J, K
        <3> QED BY <1>5, <2>3, <2>4, FS_AddElement
    <2> HIDE DEF J, K
    <2> QED BY <1>4, <1>5, <1>6, <1>7, <2>5
<1>8. CASE p \notin A
    <2>1. K = J
        <3>1. ASSUME NEW j \in K PROVE j \in J
            <4>1. j \in 1 .. Len(t) + Len(l) /\ e2.threads[j] = p
                BY <1>3
            <4>2. CASE j <= Len(t)
                BY <1>2, <1>3, <4>1, <4>2
            <4>3. CASE ~ (j <= Len(t))
                BY <1>0, <1>2, <1>3, <1>8, <4>1, <4>3
            <4> QED BY <4>2, <4>3
        <3>2. ASSUME NEW j \in J PROVE j \in K
            BY <1>2, <1>3
        <3> QED BY <3>1, <3>2
    <2> HIDE DEF J, K
    <2> QED BY <1>4, <1>8, <2>1
<1> QED BY <1>7, <1>8

\* At first there is no entry and no handle.
LEMMA GameInitInv == Schedulers!GameInit => GameInv
<1> SUFFICES ASSUME Schedulers!GameInit PROVE GameInv
    OBVIOUS
<1>1. /\ alive = Opened /\ activeGames = <<>> /\ handles = [p \in Opened |-> 0] /\ walk = 0
    BY DEF Schedulers!GameInit, Opened
<1>2. activeGames \in Seq(GameEntry) /\ Len(activeGames) = 0
    BY <1>1, EmptySeq
<1>3. ASSUME NEW p PROVE HandlesIn(activeGames, p) = 0
    <2>1. DOMAIN activeGames = {}
        BY <1>1, <1>2, EntriesCounted
    <2> QED BY <2>1, SumEmpty DEF HandlesIn
<1> QED BY <1>1, <1>2, <1>3 DEF GameInv

\* A list of which every entry holds what it held holds what it held.
LEMMA SameHandles ==
    ASSUME NEW gs \in Seq(GameEntry), NEW hs \in Seq(GameEntry), Len(hs) = Len(gs), NEW p,
           \A k \in 1 .. Len(gs) : HandlesOf(hs[k], p) = HandlesOf(gs[k], p)
    PROVE  HandlesIn(hs, p) = HandlesIn(gs, p)
<1> DEFINE f == [k \in DOMAIN gs |-> HandlesOf(gs[k], p)]
           g == [k \in DOMAIN hs |-> HandlesOf(hs[k], p)]
<1>1. DOMAIN gs = 1 .. Len(gs) /\ DOMAIN hs = 1 .. Len(gs)
    BY EntriesCounted
<1>2. f = g
    BY <1>1
<1> QED BY <1>1, <1>2 DEF HandlesIn

\* A step that leaves the entries' games and threads alone, and the handles, is harmless.
LEMMA GameStill ==
    ASSUME GameInv, UNCHANGED <<activeGames, handles>>, alive' \subseteq alive,
           walk' \in 0 .. Len(activeGames)
    PROVE  GameInv'
BY DEF GameInv

\* A scan: one entry more for each game that runs, and a handle for each it could open.
LEMMA ScanInv == GameInv /\ Schedulers!ScanForGames => GameInv'
<1> SUFFICES ASSUME GameInv, Schedulers!ScanForGames PROVE GameInv'
    OBVIOUS
<1> DEFINE A == alive \cap Games
           order == Schedulers!SetToSeq(A)
<1>1. PICK opened \in SUBSET Games :
        /\ activeGames' = activeGames \o [k \in DOMAIN order |->
              [game |-> order[k], open |-> order[k] \in opened, priority |-> "NORMAL", threads |-> <<>>]]
        /\ handles' = [p \in Opened |->
              IF p \in alive \cap Games \cap opened THEN handles[p] + 1 ELSE handles[p]]
    BY DEF Schedulers!ScanForGames, Opened
<1>2. UNCHANGED <<alive, walk>>
    BY DEF Schedulers!ScanForGames
<1>3. IsFiniteSet(A) /\ A \subseteq Games
    <2>1. A \subseteq Games \cup Others
        OBVIOUS
    <2> HIDE DEF A
    <2>2. IsFiniteSet(A)
        BY <2>1, GamesAssumption, FS_Subset
    <2> QED BY <2>2 DEF A
<1> DEFINE m == Cardinality(A)
<1>4. /\ m \in Nat /\ order \in Seq(A) /\ Len(order) = m
      /\ \A x \in A : \E j \in 1 .. m : order[j] = x
      /\ \A j, k \in 1 .. m : order[j] = order[k] => j = k
    <2> HIDE DEF A
    <2> QED BY <1>3, ListOfSet, FS_CardinalityType DEF Lists
<1> HIDE DEF A, order, m
<1>5. DOMAIN order = 1 .. m /\ \A j \in 1 .. m : order[j] \in A /\ order[j] \in Games
    BY <1>3, <1>4, ElementOfSeq, LenProperties
<1> DEFINE new == [k \in 1 .. m |->
              [game |-> order[k], open |-> order[k] \in opened, priority |-> "NORMAL", threads |-> <<>>]]
           gs == activeGames
           n == Len(gs)
<1>6. /\ new \in Seq(GameEntry) /\ Len(new) = m /\ activeGames' = gs \o new
      /\ \A k \in 1 .. m : /\ new[k].game = order[k] /\ (new[k].open <=> order[k] \in opened)
                           /\ new[k].threads = <<>>
    <2>1. \A k \in 1 .. m : new[k] \in GameEntry
        <3>1. "NORMAL" \in Schedulers!Classes /\ <<>> \in Seq(Opened)
            BY EmptySeq DEF Schedulers!Classes
        <3> QED BY <1>5, <3>1 DEF GameEntry
    <2>2. new \in [1 .. m -> GameEntry]
        BY <2>1
    <2>3. activeGames' = gs \o new
        BY <1>1, <1>5
    <2> HIDE DEF new
    <2>4. new \in Seq(GameEntry) /\ Len(new) = m
        BY <1>4, <2>2, SeqDef, LenProperties
    <2> QED BY <2>3, <2>4 DEF new
<1> HIDE DEF new
<1>7. gs \in Seq(GameEntry) /\ n \in Nat
    BY LenProperties DEF GameInv
<1>8. /\ activeGames' \in Seq(GameEntry) /\ Len(activeGames') = n + m
      /\ \A k \in 1 .. n + m : activeGames'[k] = IF k <= n THEN gs[k] ELSE new[k - n]
    <2> HIDE DEF gs
    <2>1. gs \o new \in Seq(GameEntry) /\ Len(gs \o new) = Len(gs) + Len(new)
          /\ \A k \in 1 .. Len(gs) + Len(new) : (gs \o new)[k] = IF k <= Len(gs) THEN gs[k] ELSE new[k - Len(gs)]
        BY <1>6, <1>7, ConcatProperties
    <2> QED BY <1>6, <2>1
<1> HIDE DEF n
<1>9. ASSUME NEW k \in 1 .. m, NEW p
      PROVE  HandlesOf(new[k], p) = IF order[k] = p /\ p \in opened THEN 1 ELSE 0
    <2>1. new[k].threads = <<>> /\ DOMAIN <<>> = {}
        BY <1>6
    <2>2. {j \in DOMAIN new[k].threads : new[k].threads[j] = p} = {}
        BY <2>1
    <2>3. Cardinality({j \in DOMAIN new[k].threads : new[k].threads[j] = p}) = 0
        BY <2>2, FS_EmptySet
    <2>4. new[k].game = order[k] /\ (new[k].open <=> order[k] \in opened)
        BY <1>6
    <2> QED BY <2>3, <2>4 DEF HandlesOf
<1>10. ASSUME NEW p \in Opened
       PROVE  HandlesIn(activeGames', p) = IF p \in A /\ p \in opened THEN HandlesIn(gs, p) + 1
                                                                      ELSE HandlesIn(gs, p)
    <2> DEFINE f == [k \in DOMAIN activeGames' |-> HandlesOf(activeGames'[k], p)]
               h == [k \in DOMAIN gs |-> HandlesOf(gs[k], p)]
               Old == 1 .. n
               More == n + 1 .. n + m
    <2>1. DOMAIN activeGames' = 1 .. n + m /\ DOMAIN gs = 1 .. n
        <3>1. DOMAIN gs = 1 .. Len(gs) /\ DOMAIN activeGames' = 1 .. Len(activeGames')
            BY <1>7, <1>8, EntriesCounted
        <3> QED BY <1>8, <3>1 DEF n
    <2>2. \A k \in 1 .. n + m : f[k] = HandlesOf(activeGames'[k], p) /\ f[k] \in Nat
        <3>1. \A k \in 1 .. n + m : HandlesOf(activeGames'[k], p) \in Nat
            BY <1>8, EntriesCounted
        <3> QED BY <2>1, <3>1
    <2>3. \A k \in Old : f[k] = h[k]
        BY <1>4, <1>7, <1>8, <2>1, <2>2
    <2>4. \A k \in More : /\ k - n \in 1 .. m
                          /\ f[k] = IF order[k - n] = p /\ p \in opened THEN 1 ELSE 0
        <3> SUFFICES ASSUME NEW k \in More
                     PROVE  /\ k - n \in 1 .. m
                            /\ f[k] = IF order[k - n] = p /\ p \in opened THEN 1 ELSE 0
            OBVIOUS
        <3>1. k - n \in 1 .. m /\ k \in 1 .. n + m /\ ~ (k <= n)
            BY <1>4, <1>7
        <3>2. activeGames'[k] = new[k - n]
            BY <1>8, <3>1
        <3> QED BY <1>9, <2>2, <3>1, <3>2
    <2>5. HandlesIn(activeGames', p) = SumFunctionOnSet(f, 1 .. n + m)
          /\ HandlesIn(gs, p) = SumFunctionOnSet(h, Old)
        BY <2>1 DEF HandlesIn
    <2>6. Old \cup More = 1 .. n + m /\ Old \cap More = {} /\ IsFiniteSet(Old) /\ IsFiniteSet(More)
        <3>1. IsFiniteSet(Old) /\ IsFiniteSet(More)
            BY <1>4, <1>7, FS_Interval
        <3>2. Old \cup More = 1 .. n + m /\ Old \cap More = {}
            BY <1>4, <1>7
        <3> QED BY <3>1, <3>2
    <2>7. \A k \in Old \cup More : f[k] \in Int
        BY <2>2, <2>6
    <2>8. SumFunctionOnSet(f, Old) = SumFunctionOnSet(h, Old) /\ SumFunctionOnSet(h, Old) \in Int
        <3>1. \A k \in Old : h[k] \in Int
            BY <2>3, <2>7
        <3> HIDE DEF f, h, Old, More
        <3> QED BY <2>3, <2>6, <3>1, SumSame, SumType
    <2>9. SumFunctionOnSet(f, 1 .. n + m) = SumFunctionOnSet(f, Old) + SumFunctionOnSet(f, More)
        <3> HIDE DEF f, h, Old, More
        <3>1. SumFunctionOnSet(f, Old \cup More) = SumFunctionOnSet(f, Old) + SumFunctionOnSet(f, More)
            BY <2>6, <2>7, SumUnion
        <3> QED BY <2>6, <3>1
    <2>10. CASE p \in A /\ p \in opened
        <3>1. PICK i \in 1 .. m : order[i] = p
            BY <1>4, <2>10
        <3>2. n + i \in More /\ f[n + i] = 1
            <4>1. n + i \in More /\ (n + i) - n = i
                <5>1. i \in Int /\ 1 <= i /\ i <= m
                    BY <1>4
                <5> QED BY <1>4, <1>7, <5>1
            <4>2. f[n + i] = IF order[(n + i) - n] = p /\ p \in opened THEN 1 ELSE 0
                BY <2>4, <4>1
            <4> QED BY <2>10, <3>1, <4>1, <4>2
        <3>3. \A k \in More : k # n + i => f[k] = 0
            BY <1>4, <1>7, <2>4, <3>1
        <3>4. SumFunctionOnSet(f, More) = 1
            <4>1. f[n + i] \in Int
                BY <3>2
            <4> HIDE DEF f, More
            <4>2. SumFunctionOnSet(f, More) = f[n + i]
                BY <2>6, <3>2, <3>3, <4>1, SumOfOne
            <4> QED BY <3>2, <4>2
        <3> HIDE DEF f, h, Old, More
        <3> QED BY <2>5, <2>8, <2>9, <2>10, <3>4
    <2>11. CASE ~ (p \in A /\ p \in opened)
        <3>1. \A k \in More : f[k] = 0
            BY <1>5, <2>4, <2>11
        <3>2. SumFunctionOnSet(f, More) = 0
            <4> HIDE DEF f, More
            <4> QED BY <2>6, <3>1, SumOfNone
        <3> HIDE DEF f, h, Old, More
        <3> QED BY <2>5, <2>8, <2>9, <2>11, <3>2
    <2> QED BY <2>10, <2>11
<1>11. handles' \in [Opened -> Nat]
       /\ \A p \in Opened : handles'[p] = IF p \in A /\ p \in opened THEN handles[p] + 1 ELSE handles[p]
    BY <1>1 DEF GameInv, A
<1>12. \A p \in Opened : handles'[p] = HandlesIn(activeGames', p)
    BY <1>10, <1>11 DEF GameInv
<1>13. walk' \in 0 .. Len(activeGames')
    <2>1. walk \in 0 .. n
        BY DEF GameInv, n
    <2> QED BY <1>2, <1>4, <1>7, <1>8, <2>1
<1> QED BY <1>2, <1>8, <1>11, <1>12, <1>13 DEF GameInv

\* An optimization: every entry opens some of the threads once more.
LEMMA OptimizeInv == GameInv /\ Schedulers!OptimizeForGaming => GameInv'
<1> SUFFICES ASSUME GameInv, Schedulers!OptimizeForGaming PROVE GameInv'
    OBVIOUS
<1> DEFINE gs == activeGames
           n == Len(gs)
<1>1. /\ gs \in Seq(GameEntry) /\ n \in Nat /\ DOMAIN gs = 1 .. n /\ IsFiniteSet(1 .. n)
      /\ \A k \in 1 .. n : gs[k] \in GameEntry
    BY EntriesCounted DEF GameInv
<1>0. PICK opened \in [DOMAIN activeGames -> SUBSET alive] :
      /\ activeGames' = [k \in DOMAIN activeGames |->
              [activeGames[k] EXCEPT !.priority = "HIGH",
                                     !.threads = @ \o Schedulers!ThreadsKept(activeGames[k], opened[k])]]
      /\ boosted' = boosted \cup UNION {opened[k] : k \in DOMAIN activeGames}
      /\ handles' = [p \in Schedulers!AllProcesses |->
              handles[p] + Schedulers!Cardinality({k \in DOMAIN activeGames : p \in opened[k]})]
    BY DEF Schedulers!OptimizeForGaming
<1>2. /\ opened \in [1 .. n -> SUBSET alive]
      /\ activeGames' = [k \in 1 .. n |->
              [gs[k] EXCEPT !.priority = "HIGH", !.threads = gs[k].threads \o Schedulers!SetToSeq(opened[k])]]
      /\ handles' = [p \in Opened |-> handles[p] + Schedulers!Cardinality({k \in 1 .. n : p \in opened[k]})]
    BY <1>0, <1>1 DEF Schedulers!ThreadsKept, Opened
<1>3. UNCHANGED <<alive, walk>>
    BY DEF Schedulers!OptimizeForGaming
<1> DEFINE l(k)  == Schedulers!SetToSeq(opened[k])
           K(p) == {k \in 1 .. n : p \in opened[k]}
<1>4. ASSUME NEW k \in 1 .. n
      PROVE  l(k) \in Seq(Opened) /\ Lists(l(k), opened[k])
    <2>1. IsFiniteSet(alive) /\ opened[k] \subseteq alive /\ alive \subseteq Opened
        BY GamesAssumption, FS_Subset DEF GameInv, Opened, Schedulers!AllProcesses
    <2>2. IsFiniteSet(opened[k]) /\ opened[k] \subseteq Opened
        BY <2>1, FS_Subset
    <2>3. l(k) \in Seq(opened[k]) /\ Lists(l(k), opened[k])
        BY <2>2, ListOfSet
    <2> QED BY <2>2, <2>3, SeqMonotonic
<1> HIDE DEF gs, n
<1>5. ASSUME NEW p \in Opened
      PROVE  handles'[p] = handles[p] + Cardinality(K(p)) /\ Cardinality(K(p)) \in Nat
    <2>1. \A S : Schedulers!Cardinality(S) = Cardinality(S)
        BY DEF Schedulers!Cardinality, Cardinality
    <2>2. handles'[p] = handles[p] + Schedulers!Cardinality(K(p))
        BY <1>2
    <2>3. IsFiniteSet(K(p))
        BY <1>1, FS_Subset
    <2> HIDE DEF K
    <2> QED BY <2>1, <2>2, <2>3, FS_CardinalityType
<1> HIDE DEF l
<1>6. ASSUME NEW k \in 1 .. n
      PROVE  /\ activeGames'[k] \in GameEntry /\ activeGames'[k].game = gs[k].game
             /\ activeGames'[k].open = gs[k].open /\ activeGames'[k].threads = gs[k].threads \o l(k)
    <2>1. gs[k] \in GameEntry /\ activeGames'[k] = [gs[k] EXCEPT !.priority = "HIGH", !.threads = gs[k].threads \o l(k)]
        BY <1>1, <1>2 DEF l
    <2>2. gs[k].threads \in Seq(Opened)
        BY <2>1 DEF GameEntry
    <2>3. gs[k].threads \o l(k) \in Seq(Opened)
        BY <1>4, <2>2, ConcatProperties
    <2>4. "HIGH" \in Schedulers!Classes
        BY DEF Schedulers!Classes
    <2> QED BY <2>1, <2>3, <2>4 DEF GameEntry
<1>7. activeGames' \in Seq(GameEntry) /\ Len(activeGames') = n /\ DOMAIN activeGames' = 1 .. n
    <2>1. activeGames' \in [1 .. n -> GameEntry]
        BY <1>2, <1>6
    <2> QED BY <1>1, <2>1, SeqDef, LenProperties
<1>8. ASSUME NEW p \in Opened, NEW k \in 1 .. n
      PROVE  HandlesOf(activeGames'[k], p) = IF p \in opened[k] THEN HandlesOf(gs[k], p) + 1 ELSE HandlesOf(gs[k], p)
    <2>1. Extended(gs[k], activeGames'[k], l(k), opened[k])
        BY <1>1, <1>4, <1>6 DEF Extended
    <2> QED BY <2>1, HandlesOfMore
<1>9. ASSUME NEW p \in Opened
      PROVE  HandlesIn(activeGames', p) = HandlesIn(gs, p) + Cardinality(K(p))
    <2> DEFINE f == [k \in DOMAIN gs |-> HandlesOf(gs[k], p)]
               g == [k \in DOMAIN activeGames' |-> HandlesOf(activeGames'[k], p)]
               T == K(p)
               U == {k \in 1 .. n : p \notin opened[k]}
    <2>1. /\ \A k \in T : f[k] \in Int /\ g[k] \in Int /\ g[k] = f[k] + 1
          /\ \A k \in U : f[k] \in Int /\ g[k] \in Int /\ g[k] = f[k]
        <3>1. \A k \in 1 .. n : HandlesOf(gs[k], p) \in Nat
            BY <1>1, HandlesCounted
        <3> QED BY <1>1, <1>7, <1>8, <3>1
    <2>2. HandlesIn(activeGames', p) = SumFunctionOnSet(g, 1 .. n)
          /\ HandlesIn(gs, p) = SumFunctionOnSet(f, 1 .. n)
        BY <1>1, <1>7 DEF HandlesIn
    <2>3. T \cup U = 1 .. n /\ T \cap U = {} /\ T \subseteq 1 .. n /\ U \subseteq 1 .. n
        OBVIOUS
    <2>4. IsFiniteSet(T) /\ IsFiniteSet(U)
        BY <1>1, <2>3, FS_Subset
    <2> HIDE DEF f, g, T, U
    <2>5. SumFunctionOnSet(g, 1 .. n) = SumFunctionOnSet(g, T) + SumFunctionOnSet(g, U)
        <3>1. \A k \in T \cup U : g[k] \in Int
            BY <2>1
        <3>2. SumFunctionOnSet(g, T \cup U) = SumFunctionOnSet(g, T) + SumFunctionOnSet(g, U)
            BY <2>3, <2>4, <3>1, SumUnion
        <3> QED BY <2>3, <3>2
    <2>6. SumFunctionOnSet(f, 1 .. n) = SumFunctionOnSet(f, T) + SumFunctionOnSet(f, U)
        <3>1. \A k \in T \cup U : f[k] \in Int
            BY <2>1
        <3>2. SumFunctionOnSet(f, T \cup U) = SumFunctionOnSet(f, T) + SumFunctionOnSet(f, U)
            BY <2>3, <2>4, <3>1, SumUnion
        <3> QED BY <2>3, <3>2
    <2>7. SumFunctionOnSet(g, T) = SumFunctionOnSet(f, T) + Cardinality(T)
        BY <2>1, <2>4, SumOfMore
    <2>8. SumFunctionOnSet(g, U) = SumFunctionOnSet(f, U)
        BY <2>1, <2>4, SumSame
    <2>9. /\ SumFunctionOnSet(f, T) \in Int /\ SumFunctionOnSet(f, U) \in Int
          /\ Cardinality(T) \in Nat
        BY <2>1, <2>4, SumType, FS_CardinalityType
    <2> QED BY <2>2, <2>5, <2>6, <2>7, <2>8, <2>9 DEF T
<1>10. handles' \in [Opened -> Nat]
    <2>1. ASSUME NEW p \in Opened PROVE handles'[p] \in Nat
        <3>1. handles[p] \in Nat
            BY DEF GameInv
        <3> HIDE DEF K
        <3> QED BY <1>5, <3>1
    <2>2. handles' = [p \in Opened |-> handles'[p]]
        BY <1>2
    <2> QED BY <2>1, <2>2
<1>11. \A p \in Opened : handles'[p] = HandlesIn(activeGames', p)
    BY <1>5, <1>9 DEF GameInv, gs
<1>12. walk' \in 0 .. Len(activeGames')
    BY <1>3, <1>7 DEF GameInv, gs, n
<1> QED BY <1>3, <1>7, <1>10, <1>11, <1>12 DEF GameInv

\* The monitor changes nothing of an entry but its priority.
LEMMA MonitorInv == GameInv /\ Schedulers!MonitorEntry => GameInv'
<1> SUFFICES ASSUME GameInv, Schedulers!MonitorEntry PROVE GameInv'
    OBVIOUS
<1> DEFINE gs == activeGames
           n == Len(gs)
<1>1. /\ gs \in Seq(GameEntry) /\ n \in Nat /\ DOMAIN gs = 1 .. n /\ walk \in 1 .. n
      /\ \A k \in 1 .. n : gs[k] \in GameEntry
    BY EntriesCounted DEF GameInv, Schedulers!MonitorEntry
<1>2. PICK byTime \in {gs[walk].priority, "HIGH", "ABOVE_NORMAL"} :
            activeGames' = [gs EXCEPT ![walk].priority = byTime]
    BY DEF Schedulers!MonitorEntry
<1>3. UNCHANGED <<alive, handles>> /\ walk' = (walk + 1) % (n + 1)
    BY DEF Schedulers!MonitorEntry
<1>4. byTime \in Schedulers!Classes
    BY <1>1, <1>2 DEF GameEntry, Schedulers!Classes
<1> DEFINE e == [gs[walk] EXCEPT !.priority = byTime]
<1>5. /\ e \in GameEntry /\ e.game = gs[walk].game /\ e.open = gs[walk].open
      /\ e.threads = gs[walk].threads
    BY <1>1, <1>4 DEF GameEntry
<1>6. activeGames' = [gs EXCEPT ![walk] = e]
    BY <1>2
<1> HIDE DEF e, gs, n
<1>7. /\ activeGames' \in Seq(GameEntry) /\ Len(activeGames') = n
      /\ \A k \in 1 .. n : activeGames'[k] = IF k = walk THEN e ELSE gs[k]
    BY <1>1, <1>5, <1>6, ExceptSeq DEF n
<1>8. ASSUME NEW p \in Opened PROVE HandlesIn(activeGames', p) = HandlesIn(gs, p)
    <2>1. HandlesOf(e, p) = HandlesOf(gs[walk], p)
        BY <1>5 DEF HandlesOf
    <2>2. \A k \in 1 .. n : HandlesOf(activeGames'[k], p) = HandlesOf(gs[k], p)
        BY <1>7, <2>1
    <2> QED BY <1>1, <1>7, <2>2, SameHandles DEF n
<1>9. walk' \in 0 .. n
    BY <1>1, <1>3
<1> QED BY <1>3, <1>7, <1>8, <1>9 DEF GameInv, gs

\* Every step of the game scheduler keeps the invariant.
LEMMA GameSteps == GameInv /\ Schedulers!GameNext => GameInv'
<1> SUFFICES ASSUME GameInv, Schedulers!GameNext PROVE GameInv'
    OBVIOUS
<1>0. Len(activeGames) \in Nat /\ walk \in 0 .. Len(activeGames) /\ alive \subseteq alive
    BY LenProperties DEF GameInv
<1>1. CASE Schedulers!MonitorBegin
    <2>1. Len(activeGames) # 0
        BY <1>1, EmptySeq DEF Schedulers!MonitorBegin, GameInv
    <2> QED BY <1>0, <1>1, <2>1, GameStill DEF Schedulers!MonitorBegin
<1>2. CASE Schedulers!OptimizeForGame \/ Schedulers!GetGameThreads
    BY <1>0, <1>2, GameStill DEF Schedulers!OptimizeForGame, Schedulers!GetGameThreads
<1>3. CASE \E p \in Schedulers!AllProcesses : Schedulers!Exit(p)
    BY <1>0, <1>3, GameStill DEF Schedulers!Exit
<1> QED BY <1>1, <1>2, <1>3, ScanInv, OptimizeInv, MonitorInv DEF Schedulers!GameNext

\* In the invariant, what the handles are is what the entries record.
LEMMA HandlesFollow == GameInv => Schedulers!HandlesRecorded
BY RecordedIsSum DEF GameInv, Schedulers!HandlesRecorded, Opened

-----------------------------------------------------------------------------
\* The security manager.

\* Entries of an access list, policies, and what a setter goes by after its test.
Entries  == [who : Security!Whos, permissions : SUBSET Permissions]
Policies == [tested : Nat, stored : Nat, by : Setters \cup {Wildcard}]
Settings == {<<>>} \cup (ProcessIds \X Nat)

\* Policies are of the present life; of each setter at most one was tested for in an
\* earlier life, and a setter still on its way with such a test has stored none.
PolicyInv ==
    /\ policies \in [ProcessIds -> Policies] /\ setting \in [Setters -> Settings] /\ epoch \in Nat
    /\ Security!StaleOnePerSetter
    /\ \A s \in Setters : \A p \in ProcessIds :
          setting[s] # <<>> /\ setting[s][2] # epoch /\ Security!Stale(p) => policies[p].by # s

\* An access list has one entry for a user and group, with the permissions last given.
SecurityInv ==
    /\ PolicyInv
    /\ acls \in [Resources -> Seq(Entries)]
    /\ DOMAIN lastSet = Resources
    /\ \A r \in Resources : \A j, k \in DOMAIN acls[r] : acls[r][j].who = acls[r][k].who => j = k
    /\ \A r \in Resources : \A i \in DOMAIN lastSet[r] :
          \E k \in DOMAIN acls[r] : acls[r][k] = [who |-> i, permissions |-> lastSet[r][i]]

\* A set of natural numbers that is not empty has a smallest one.
LEMMA MinOfNats ==
    ASSUME NEW S \in SUBSET Nat, S # {}
    PROVE  Security!Min(S) \in S
<1>1. PICK m \in S : \A x \in S : ~ (<<x, m>> \in OpToRel(<, Nat))
    BY NatLessThanWellFounded, WFMin
<1>2. \A x \in S : ~ (x < m)
    BY <1>1 DEF OpToRel
<1>3. \A x \in S : m <= x
    BY <1>2
<1> QED BY <1>3 DEF Security!Min

\* The place of the entry of a user and group in an access list, 0 if it has none.
Place(entries, id) == Security!SelectInSeq(entries, LAMBDA ace : ace.who = id)

\* What the place is.
LEMMA PlaceOfEntry ==
    ASSUME NEW entries \in Seq(Entries), NEW id
    PROVE  \/ Place(entries, id) \in DOMAIN entries /\ entries[Place(entries, id)].who = id
           \/ Place(entries, id) = 0 /\ \A k \in DOMAIN entries : entries[k].who # id
<1> DEFINE I == {k \in 1 .. Len(entries) : entries[k].who = id}
<1>1. Place(entries, id) = IF I # {} THEN Security!Min(I) ELSE 0
    BY DEF Place, Security!SelectInSeq
<1>2. I \in SUBSET Nat /\ DOMAIN entries = 1 .. Len(entries)
    BY LenProperties
<1>3. I # {} => Security!Min(I) \in I
    BY <1>2, MinOfNats
<1> QED BY <1>1, <1>2, <1>3

\* Before the first call there are no entries and no policies.
LEMMA SecurityInit == Security!Init => SecurityInv
<1> SUFFICES ASSUME Security!Init PROVE SecurityInv
    OBVIOUS
<1>1. Security!NoPolicy \in Policies /\ policies = [p \in ProcessIds |-> Security!NoPolicy]
      /\ setting = [s \in Setters |-> <<>>] /\ epoch = 0
    BY DEF Security!Init, Security!NoPolicies, Security!NoPolicy, Policies
<1>2. PolicyInv
    BY <1>1 DEF PolicyInv, Settings, Security!StaleOnePerSetter, Security!Stale
<1> QED BY <1>2 DEF SecurityInv, Security!Init

\* Nothing else disturbs the invariant.
LEMMA SecurityStill ==
    SecurityInv /\ UNCHANGED <<acls, policies, setting, epoch, lastSet>> => SecurityInv'
BY DEF SecurityInv, PolicyInv, Security!StaleOnePerSetter, Security!Stale

\* setPermissions gives their entry the new permissions, and makes it if there is none.
LEMMA SetPermissionsInv ==
    ASSUME SecurityInv, NEW r \in Resources, NEW i \in Security!Whos, NEW p \in SUBSET Permissions,
           Security!SetPermissions(r, i, p)
    PROVE  SecurityInv'
<1> DEFINE it  == Place(acls[r], i)
           ace == [who |-> i, permissions |-> p]
           new == IF it # 0 THEN [acls[r] EXCEPT ![it] = ace] ELSE Append(acls[r], ace)
<1>1. /\ acls' = [acls EXCEPT ![r] = new]
      /\ lastSet' = [lastSet EXCEPT ![r] =
                       [k \in DOMAIN lastSet[r] \cup {i} |-> IF k = i THEN p ELSE lastSet[r][k]]]
      /\ UNCHANGED <<policies, setting, epoch>>
    BY DEF Security!SetPermissions, Security!ReplaceAt, Place
<1>2. acls[r] \in Seq(Entries) /\ ace \in Entries /\ ace.who = i
    BY DEF SecurityInv, Entries
<1>3. /\ Len(acls[r]) \in Nat /\ DOMAIN acls[r] = 1 .. Len(acls[r])
      /\ \A k \in DOMAIN acls[r] : acls[r][k] \in Entries
    BY <1>2, LenProperties, ElementOfSeq
<1>4. \/ it \in DOMAIN acls[r] /\ acls[r][it].who = i
      \/ it = 0 /\ \A k \in DOMAIN acls[r] : acls[r][k].who # i
    BY <1>2, PlaceOfEntry
<1>5. PICK place : /\ new \in Seq(Entries) /\ DOMAIN new = DOMAIN acls[r] \cup {place}
                   /\ new[place] = ace
                   /\ place \in DOMAIN acls[r] => acls[r][place].who = i
                   /\ \A k \in DOMAIN acls[r] : k # place => new[k] = acls[r][k] /\ acls[r][k].who # i
    <2>1. CASE it # 0
        <3>1. /\ it \in DOMAIN acls[r] /\ acls[r][it].who = i
              /\ new = [acls[r] EXCEPT ![it] = ace]
            BY <1>3, <1>4, <2>1
        <3>2. \A k \in DOMAIN acls[r] : k # it => acls[r][k].who # i
            BY <3>1 DEF SecurityInv
        <3>3. new \in Seq(Entries)
            BY <1>2, <1>3, <3>1, ExceptSeq
        <3> HIDE DEF it, ace, new
        <3>4. DOMAIN new = DOMAIN acls[r] \cup {it} /\ new[it] = ace
            BY <3>1
        <3>5. \A k \in DOMAIN acls[r] : k # it => new[k] = acls[r][k]
            BY <3>1
        <3> QED BY <3>1, <3>2, <3>3, <3>4, <3>5
    <2>2. CASE it = 0
        <3>1. new = Append(acls[r], ace)
            BY <2>2
        <3>2. \A k \in DOMAIN acls[r] : acls[r][k].who # i
            BY <1>3, <1>4, <2>2
        <3> HIDE DEF it, ace, new
        <3>3. /\ new \in Seq(Entries) /\ DOMAIN new = 1 .. Len(acls[r]) + 1
              /\ new[Len(acls[r]) + 1] = ace
              /\ \A k \in DOMAIN acls[r] : new[k] = acls[r][k]
            BY <1>2, <1>3, <3>1, AppendProperties, LenProperties
        <3>4. DOMAIN new = DOMAIN acls[r] \cup {Len(acls[r]) + 1} /\ Len(acls[r]) + 1 \notin DOMAIN acls[r]
            BY <1>3, <3>3
        <3> QED BY <3>2, <3>3, <3>4
    <2> QED BY <2>1, <2>2
<1>6. ace.who = i /\ ace = [who |-> i, permissions |-> p]
    OBVIOUS
<1> HIDE DEF it, ace, new
<1>7. acls' \in [Resources -> Seq(Entries)] /\ acls'[r] = new
      /\ \A q \in Resources : q # r => acls'[q] = acls[q]
    BY <1>1, <1>5 DEF SecurityInv
<1>8. \A j, k \in DOMAIN new : new[j].who = new[k].who => j = k
    BY <1>5, <1>6 DEF SecurityInv
<1>9. /\ DOMAIN lastSet' = Resources
      /\ \A q \in Resources : q # r => lastSet'[q] = lastSet[q]
      /\ lastSet'[r] = [k \in DOMAIN lastSet[r] \cup {i} |-> IF k = i THEN p ELSE lastSet[r][k]]
    BY <1>1 DEF SecurityInv
<1>10. \A u \in DOMAIN lastSet'[r] :
          \E k \in DOMAIN new : new[k] = [who |-> u, permissions |-> lastSet'[r][u]]
    <2> SUFFICES ASSUME NEW u \in DOMAIN lastSet'[r]
                 PROVE  \E k \in DOMAIN new : new[k] = [who |-> u, permissions |-> lastSet'[r][u]]
        OBVIOUS
    <2>1. CASE u = i
        BY <1>5, <1>6, <1>9, <2>1
    <2>2. CASE u # i
        <3>1. u \in DOMAIN lastSet[r] /\ lastSet'[r][u] = lastSet[r][u]
            BY <1>9, <2>2
        <3>2. PICK k \in DOMAIN acls[r] : acls[r][k] = [who |-> u, permissions |-> lastSet[r][u]]
            BY <3>1 DEF SecurityInv
        <3>3. k # place
            BY <1>5, <2>2, <3>2
        <3> QED BY <1>5, <3>1, <3>2, <3>3
    <2> QED BY <2>1, <2>2
<1>11. PolicyInv'
    BY <1>1 DEF SecurityInv, PolicyInv, Security!StaleOnePerSetter, Security!Stale
<1>12. ASSUME NEW q \in Resources, NEW j \in DOMAIN acls'[q], NEW k \in DOMAIN acls'[q],
              acls'[q][j].who = acls'[q][k].who
       PROVE  j = k
    <2>1. CASE q = r
        BY <1>7, <1>8, <1>12, <2>1
    <2>2. CASE q # r
        <3>1. acls'[q] = acls[q]
            BY <1>7, <2>2
        <3> QED BY <1>12, <3>1 DEF SecurityInv
    <2> QED BY <2>1, <2>2
<1>13. ASSUME NEW q \in Resources, NEW u \in DOMAIN lastSet'[q]
       PROVE  \E k \in DOMAIN acls'[q] : acls'[q][k] = [who |-> u, permissions |-> lastSet'[q][u]]
    <2>1. CASE q = r
        BY <1>7, <1>10, <2>1
    <2>2. CASE q # r
        <3>1. acls'[q] = acls[q] /\ lastSet'[q] = lastSet[q]
            BY <1>7, <1>9, <2>2
        <3> QED BY <3>1 DEF SecurityInv
    <2> QED BY <2>1, <2>2
<1> QED BY <1>7, <1>9, <1>11, <1>12, <1>13 DEF SecurityInv

\* A setter's store: if it was tested for in an earlier life, the setter has no other such
\* policy, and is on its way no longer.
LEMMA SetPolicyStoreInv ==
    ASSUME SecurityInv, NEW s \in Setters, Security!SetPolicyStore(s)
    PROVE  SecurityInv'
<1>1. /\ setting[s] # <<>> /\ setting' = [setting EXCEPT ![s] = <<>>]
      /\ policies' = [policies EXCEPT ![setting[s][1]] = [tested |-> setting[s][2], stored |-> epoch, by |-> s]]
      /\ UNCHANGED <<acls, epoch, lastSet>>
    BY DEF Security!SetPolicyStore
<1>2. setting[s] \in ProcessIds \X Nat
    BY <1>1 DEF SecurityInv, PolicyInv, Settings
<1>3. PICK p \in ProcessIds : p = setting[s][1]
    BY <1>2
<1>4. PICK new \in Policies : new.tested = setting[s][2] /\ new.stored = epoch /\ new.by = s
                             /\ policies' = [policies EXCEPT ![p] = new]
    <2>1. [tested |-> setting[s][2], stored |-> epoch, by |-> s] \in Policies
        BY <1>2 DEF SecurityInv, PolicyInv, Policies
    <2> QED BY <1>1, <1>3, <2>1
<1>5. /\ policies' \in [ProcessIds -> Policies] /\ setting' \in [Setters -> Settings]
      /\ policies'[p] = new /\ \A q \in ProcessIds : q # p => policies'[q] = policies[q]
      /\ \A u \in Setters : setting'[u] # <<>> => u # s /\ setting'[u] = setting[u]
    BY <1>1, <1>3, <1>4 DEF SecurityInv, PolicyInv, Settings
<1>6. \A q \in ProcessIds : policies'[q] # Security!NoPolicy => policies'[q].stored = epoch
    BY <1>4, <1>5 DEF SecurityInv, PolicyInv, Security!StaleOnePerSetter
<1>7. \A q \in ProcessIds : q # p => (Security!Stale(q)' <=> Security!Stale(q))
    BY <1>1, <1>5 DEF Security!Stale
<1>8. Security!Stale(p)' => \A q \in ProcessIds : Security!Stale(q) => policies[q].by # s
    <2>1. Security!Stale(p)' => setting[s][2] # epoch
        <3>1. Security!Stale(p)' => policies'[p].tested # epoch'
            BY DEF Security!Stale
        <3> QED BY <1>1, <1>4, <1>5, <3>1
    <2> QED BY <1>1, <2>1 DEF SecurityInv, PolicyInv
<1>9. \A q1, q2 \in ProcessIds :
         Security!Stale(q1)' /\ Security!Stale(q2)' /\ policies'[q1].by = policies'[q2].by => q1 = q2
    <2> SUFFICES ASSUME NEW q1 \in ProcessIds, NEW q2 \in ProcessIds, Security!Stale(q1)', Security!Stale(q2)',
                        policies'[q1].by = policies'[q2].by
                 PROVE  q1 = q2
        OBVIOUS
    <2>1. policies'[p].by = s
        BY <1>4, <1>5
    <2>2. CASE q1 = p \/ q2 = p
        BY <1>5, <1>7, <1>8, <2>1, <2>2
    <2>3. CASE q1 # p /\ q2 # p
        <3>1. Security!Stale(q1) /\ Security!Stale(q2) /\ policies[q1].by = policies[q2].by
            BY <1>5, <1>7, <2>3
        <3>2. \A q, o \in ProcessIds : Security!Stale(q) /\ Security!Stale(o) /\ policies[q].by = policies[o].by => q = o
            BY DEF SecurityInv, PolicyInv, Security!StaleOnePerSetter
        <3> QED BY <3>1, <3>2
    <2> QED BY <2>2, <2>3
<1>10. Security!StaleOnePerSetter'
    BY <1>1, <1>6, <1>9 DEF Security!StaleOnePerSetter
<1>11. \A u \in Setters : \A q \in ProcessIds :
          setting'[u] # <<>> /\ setting'[u][2] # epoch /\ Security!Stale(q)' => policies'[q].by # u
    BY <1>4, <1>5, <1>7 DEF SecurityInv, PolicyInv
<1> QED BY <1>1, <1>5, <1>10, <1>11 DEF SecurityInv, PolicyInv

\* Every step of the security manager keeps the invariant.
LEMMA SecuritySteps == SecurityInv /\ Security!Next => SecurityInv'
<1> SUFFICES ASSUME SecurityInv, Security!Next PROVE SecurityInv'
    OBVIOUS
<1>1. CASE Security!Initialize \/ Security!Shutdown
    <2>1. /\ UNCHANGED <<acls, lastSet, setting>> /\ policies' = [p \in ProcessIds |-> Security!NoPolicy]
          /\ epoch' \in Nat
        BY <1>1 DEF Security!Initialize, Security!Shutdown, Security!NoPolicies, SecurityInv, PolicyInv
    <2>2. Security!NoPolicy \in Policies
        BY DEF Security!NoPolicy, Policies
    <2>3. PolicyInv'
        BY <2>1, <2>2 DEF SecurityInv, PolicyInv, Security!StaleOnePerSetter, Security!Stale
    <2> QED BY <2>1, <2>3 DEF SecurityInv
<1>2. ASSUME NEW r \in Resources, NEW w \in Users \X Groups, NEW q \in Requests, Security!CheckAccess(r, w, q)
      PROVE  SecurityInv'
    BY <1>2, SecurityStill DEF Security!CheckAccess
<1>3. ASSUME NEW s \in Setters, NEW now,
             setting' = [setting EXCEPT ![s] = now], now = <<>> \/ (now \in ProcessIds \X Nat /\ now[2] = epoch),
             UNCHANGED <<acls, policies, epoch, lastSet>>
      PROVE  SecurityInv'
    <2>1. /\ setting' \in [Setters -> Settings]
          /\ \A u \in Setters : setting'[u] = IF u = s THEN now ELSE setting[u]
        BY <1>3 DEF SecurityInv, PolicyInv, Settings
    <2>2. PolicyInv'
        BY <1>3, <2>1 DEF SecurityInv, PolicyInv, Security!StaleOnePerSetter, Security!Stale
    <2> QED BY <1>3, <2>2 DEF SecurityInv
<1>4. ASSUME NEW s \in Setters, NEW p \in ProcessIds, Security!SetPolicyTest(s, p)
      PROVE  SecurityInv'
    <2>1. <<p, epoch>> \in ProcessIds \X Nat /\ <<p, epoch>>[2] = epoch
        BY DEF SecurityInv, PolicyInv
    <2> QED BY <1>3, <1>4, <2>1 DEF Security!SetPolicyTest
<1>5. ASSUME NEW s \in Setters, Security!SetPolicyRefused(s) PROVE SecurityInv'
    BY <1>3, <1>5 DEF Security!SetPolicyRefused
<1> QED BY <1>1, <1>2, <1>4, <1>5, SetPermissionsInv, SetPolicyStoreInv DEF Security!Next

\* The first entry of a user and group is its only one.
LEMMA EntryDecides == SecurityInv => Security!LastSetDecides
<1> SUFFICES ASSUME SecurityInv, NEW r \in Resources, NEW i \in DOMAIN lastSet[r]
             PROVE  Place(acls[r], i) # 0 /\ acls[r][Place(acls[r], i)].permissions = lastSet[r][i]
    BY DEF Security!LastSetDecides, Place
<1>1. PICK k \in DOMAIN acls[r] : acls[r][k] = [who |-> i, permissions |-> lastSet[r][i]]
    BY DEF SecurityInv
<1>2. acls[r] \in Seq(Entries)
    BY DEF SecurityInv
<1>3. 0 \notin DOMAIN acls[r]
    BY <1>2, LenProperties
<1>4. Place(acls[r], i) \in DOMAIN acls[r] /\ acls[r][Place(acls[r], i)].who = i
    BY <1>1, <1>2, PlaceOfEntry
<1>5. Place(acls[r], i) = k
    BY <1>1, <1>4 DEF SecurityInv
<1> QED BY <1>1, <1>3, <1>4, <1>5
-----------------------------------------------------------------------------
\* The power manager.

\* Changes of the power state that observers are told of.
Changes == [previous : States \cup {Power!Normal}, new : States \cup {Power!Normal}, next : Nat]

\* The first change in progress is the outermost one, and when none is, mode and settings
\* are of the last of these.
PowerInv ==
    /\ changes \in Seq(Changes) /\ currentState \in States \cup {Power!Normal}
    /\ IF changes = <<>> THEN mode = outermost /\ settings = outermost
                         ELSE changes[1].new = outermost

\* At the start all is normal.
LEMMA PowerInit == Power!Init => PowerInv
BY DEF PowerInv, Power!Init

\* Nothing else disturbs the invariant.
LEMMA PowerStill ==
    PowerInv /\ UNCHANGED <<currentState, changes, mode, settings, outermost>> => PowerInv'
BY DEF PowerInv

\* What the invariant is for.
LEMMA SettingsFollow == PowerInv => Power!SettingsOfOutermost
BY DEF PowerInv, Power!SettingsOfOutermost

\* The last change in progress is the one that is told of and finished.
LEMMA PowerSteps == PowerInv /\ Power!Next => PowerInv'
<1> SUFFICES ASSUME PowerInv, Power!Next PROVE PowerInv'
    OBVIOUS
<1>1. ASSUME NEW state \in States, Power!HandlePowerStateChange(state) PROVE PowerInv'
    <2> DEFINE new == [previous |-> currentState, new |-> state, next |-> 1]
    <2>1. /\ changes' = Append(changes, new) /\ currentState' = state
          /\ outermost' = IF changes = <<>> THEN state ELSE outermost
        BY <1>1 DEF Power!HandlePowerStateChange
    <2>2. new \in Changes /\ new.new = state
        BY DEF PowerInv, Changes
    <2> HIDE DEF new
    <2>3. /\ changes' \in Seq(Changes) /\ Len(changes') = Len(changes) + 1 /\ Len(changes) \in Nat
          /\ changes'[Len(changes) + 1] = new
          /\ \A k \in 1 .. Len(changes) : changes'[k] = changes[k]
        BY <2>1, <2>2, AppendProperties, LenProperties DEF PowerInv
    <2>4. changes' # <<>> /\ (changes = <<>> <=> Len(changes) = 0)
        BY <2>3, EmptySeq DEF PowerInv
    <2>5. changes'[1].new = outermost'
        BY <2>1, <2>2, <2>3, <2>4 DEF PowerInv
    <2> QED BY <2>1, <2>3, <2>4, <2>5 DEF PowerInv
<1>2. CASE Power!Notify
    <2> DEFINE n    == Len(changes)
               told == [changes[n] EXCEPT !.next = @ + 1]
    <2>1. /\ changes # <<>> /\ changes' = [changes EXCEPT ![n] = told]
          /\ UNCHANGED <<currentState, mode, settings, outermost>>
        BY <1>2 DEF Power!Notify, Power!Last
    <2>2. n \in Nat \ {0} /\ DOMAIN changes = 1 .. n
        BY <2>1, EmptySeq, LenProperties DEF PowerInv
    <2>3. changes[n] \in Changes
        BY <2>2, ElementOfSeq DEF PowerInv
    <2>4. told \in Changes /\ told.new = changes[n].new
        BY <2>3 DEF Changes
    <2> HIDE DEF told
    <2>5. /\ changes' \in Seq(Changes) /\ Len(changes') = n
          /\ \A k \in 1 .. n : changes'[k] = IF k = n THEN told ELSE changes[k]
        BY <2>1, <2>2, <2>4, ExceptSeq DEF PowerInv
    <2>6. changes' # <<>> /\ changes'[1].new = changes[1].new
        <3>1. 1 \in 1 .. n /\ (1 = n => changes[n] = changes[1])
            BY <2>2
        <3>2. changes'[1].new = changes[1].new
            BY <2>4, <2>5, <3>1
        <3>3. changes' # <<>>
            BY <2>2, <2>5, EmptySeq
        <3> QED BY <3>2, <3>3
    <2> QED BY <2>1, <2>5, <2>6 DEF PowerInv
<1>3. CASE Power!Finish
    <2>1. /\ changes # <<>> /\ changes' = SubSeq(changes, 1, Len(changes) - 1)
          /\ mode' = changes[Len(changes)].new /\ settings' = changes[Len(changes)].new
          /\ UNCHANGED <<currentState, outermost>>
        BY <1>3 DEF Power!Finish, Power!Last, Power!Front
    <2>2. /\ Len(changes) \in Nat \ {0} /\ \A i \in 1 .. Len(changes) : changes[i] \in Changes
        BY <2>1, EmptySeq, ElementOfSeq DEF PowerInv
    <2>3. CASE Len(changes) = 1
        <3>1. changes' = <<>>
            BY <2>1, <2>2, <2>3, SubSeqEmpty DEF PowerInv
        <3>2. <<>> \in Seq(Changes)
            BY EmptySeq
        <3> QED BY <2>1, <2>3, <3>1, <3>2 DEF PowerInv
    <2>4. CASE Len(changes) # 1
        <3>1. /\ changes' \in Seq(Changes) /\ Len(changes') = Len(changes) - 1
              /\ changes'[1] = changes[1]
            <4> DEFINE m == Len(changes) - 1
            <4>1. m \in Nat \ {0} /\ m + 1 = Len(changes) /\ \A i \in 1 .. m : changes[i] \in Changes
                BY <2>2, <2>4
            <4>2. changes' = SubSeq(changes, 1, m)
                BY <2>1
            <4> HIDE DEF m
            <4>3. /\ SubSeq(changes, 1, m) \in Seq(Changes) /\ Len(SubSeq(changes, 1, m)) = m
                  /\ \A i \in 1 .. m : SubSeq(changes, 1, m)[i] = changes[i]
                BY <4>1, SubSeqProperties
            <4> QED BY <4>1, <4>2, <4>3 DEF m
        <3>2. changes' # <<>>
            BY <2>2, <2>4, <3>1, EmptySeq
        <3> QED BY <2>1, <3>1, <3>2 DEF PowerInv
    <2> QED BY <2>3, <2>4
<1>4. ASSUME NEW o \in Observers, Power!Register(o) \/ Power!Unregister(o) PROVE PowerInv'
    BY <1>4, PowerStill DEF Power!Register, Power!Unregister
<1> QED BY <1>1, <1>2, <1>3, <1>4 DEF Power!Next

-----------------------------------------------------------------------------
\* Game profiles.

\* What each step of configureGraphics and of allocateResources finds held, wherever a
\* call before it failed, and what may be held besides.
Held == [graphics |-> <<{}, {"device+context"}, {"device+context"},
                        {"device+context", "dxgiDevice"},
                        {"device+context", "dxgiDevice", "dxgiAdapter"},
                        {"device+context", "dxgiDevice", "dxgiAdapter", "dxgiFactory"},
                        {"device+context", "dxgiDevice", "dxgiAdapter"},
                        {"device+context", "dxgiDevice"},
                        {"device+context"}, {"device+context"}, {"device+context"},
                        {"device+context"}>>,
         resources |-> <<{}, {"device"}, {"device", "dxgiDevice"},
                         {"device", "dxgiDevice", "adapter"},
                         {"device", "dxgiDevice", "adapter", "tiledResource"},
                         {"device", "dxgiDevice", "adapter"}, {"device", "dxgiDevice"}, {"device"},
                         {}, {"dsModule"}, {"dsModule", "queue"}, {"dsModule"}>>]

\* What may be held besides at each step.
Besides == [graphics |-> <<{}, {}, {"rastState"}, {"rastState"}, {"rastState"}, {"rastState"},
                           {"rastState"}, {"rastState"}, {"rastState"},
                           {"rastState", "samplerState"}, {"rastState"}, {}>>,
            resources |-> [k \in 1 .. 12 |-> {}]]

\* Readings grow, idle time is part of the kernel's, and no time is near the width.
ProfileInv ==
    /\ path \in {"none", "graphics", "resources"} /\ pc \in 1 .. 12
    /\ path = "none" => pc = 1 /\ held = {}
    /\ path # "none" => Held[path][pc] \subseteq held /\ held \subseteq Held[path][pc] \cup Besides[path][pc]

\* The times the processor counts.
Kinds == {"idle", "kernel", "user"}

\* Times only grow, and idle time is part of kernel time; a counter shows, modulo its
\* width, where it started and what has passed.
ReadingInv ==
    /\ start \in [Kinds -> 0 .. 255]
    /\ times \in [Kinds -> 0 .. MaxTime] /\ since \in [Kinds -> 0 .. MaxTime]
    /\ \A k \in Kinds : since[k] <= times[k] /\ last[k] = (start[k] + since[k]) % 256
    /\ times["idle"] <= times["kernel"]
    /\ times["idle"] - since["idle"] <= times["kernel"] - since["kernel"]
    /\ Profiles!UtilizationIsShare

\* Nothing is held and no time has passed.
LEMMA ProfileInit == Profiles!Init => ProfileInv /\ ReadingInv
<1> SUFFICES ASSUME Profiles!Init PROVE ProfileInv /\ ReadingInv
    OBVIOUS
<1>1. ProfileInv
    BY DEF ProfileInv, Profiles!Init
<1>2. /\ times = [k \in Kinds |-> 0] /\ since = [k \in Kinds |-> 0]
      /\ start \in [Kinds -> 0 .. 255] /\ last = start /\ MaxTime \in Nat
    <2>1. MaxTime \in Nat /\ \A k \in StartTimes : k \in 0 .. 255
        BY ProfileAssumption
    <2>2. start \in [Kinds -> StartTimes] /\ last = start /\ since = times
        BY DEF Profiles!Init, Kinds
    <2>3. times = [k \in Kinds |-> 0]
        <3>1. times = [idle |-> 0, kernel |-> 0, user |-> 0]
            BY DEF Profiles!Init
        <3> QED BY <3>1 DEF Kinds
    <2> QED BY <2>1, <2>2, <2>3
<1>3. \A k \in Kinds : since[k] <= times[k] /\ last[k] = (start[k] + since[k]) % 256
    BY <1>2
<1>4. Profiles!UtilizationIsShare
    BY DEF Profiles!Init, Profiles!UtilizationIsShare
<1> QED BY <1>1, <1>2, <1>3, <1>4 DEF ReadingInv, Kinds

\* Nothing else disturbs the invariants.
LEMMA ProfileStill ==
    /\ ProfileInv /\ UNCHANGED <<path, pc, held>> => ProfileInv'
    /\ ReadingInv /\ UNCHANGED <<start, times, last, since, utilization, share>> => ReadingInv'
BY DEF ProfileInv, ReadingInv, Profiles!UtilizationIsShare

\* What the invariant is for.
LEMMA ReferencesHeld == ProfileInv => Profiles!ReferencesBalanced
<1> SUFFICES ASSUME ProfileInv PROVE Profiles!ReferencesBalanced
    OBVIOUS
<1>1. pc = 1 => held = {}
    BY DEF ProfileInv, Held, Besides
<1>2. CASE path = "graphics"
    <2>1. Profiles!ConfigureGraphics[pc].op = "release" => Profiles!ConfigureGraphics[pc].what \in held
        BY <1>2 DEF ProfileInv, Held, Besides, Profiles!ConfigureGraphics, Profiles!Take, Profiles!Create,
            Profiles!Release, Profiles!Tidy
    <2> QED BY <1>1, <1>2, <2>1 DEF Profiles!ReferencesBalanced
<1>3. CASE path = "resources"
    <2>1. Profiles!AllocateResources[pc].op = "release" => Profiles!AllocateResources[pc].what \in held
        BY <1>3 DEF ProfileInv, Held, Besides, Profiles!AllocateResources, Profiles!Take, Profiles!Create,
            Profiles!Release, Profiles!Tidy
    <2> QED BY <1>1, <1>3, <2>1 DEF Profiles!ReferencesBalanced
<1> QED BY <1>1, <1>2, <1>3 DEF ProfileInv, Profiles!ReferencesBalanced
\* The steps of a function, and what may be held at one of them.
Steps(function) == IF function = "graphics" THEN Profiles!ConfigureGraphics ELSE Profiles!AllocateResources
MayHold(function, p) == Held[function][p] \cup Besides[function][p]

\* What is held at a step and its outcome make what is held at the next, or nothing.
Leads(function, p, next, taken, given) ==
    IF next > 12 THEN (MayHold(function, p) \cup taken) \ given = {}
    ELSE /\ Held[function][next] \subseteq (Held[function][p] \cup taken) \ given
         /\ (MayHold(function, p) \cup taken) \ given \subseteq MayHold(function, next)

\* What follows a step: it took something, failed and went on elsewhere, or gave it back.
Follows(function, p) ==
    LET s == Steps(function)[p] IN
    /\ s.op \in {"take", "create"} => Leads(function, p, p + 1, {s.what}, {})
    /\ s.op = "take" => s.else \in Nat \ {0} /\ Leads(function, p, s.else, {}, {})
    /\ s.op = "create" => Leads(function, p, p + 1, {}, {})
    /\ s.op \in {"release", "tidy"} => Leads(function, p, p + 1, {}, {s.what})

\* The two functions give back what they took: by their tables, step by step.
LEMMA TablesLead ==
    ASSUME NEW function \in {"graphics", "resources"}, NEW p \in 1 .. 12
    PROVE  Follows(function, p)
<1> USE DEF Follows, Leads, MayHold, Held, Besides, Steps, Profiles!ConfigureGraphics,
        Profiles!AllocateResources, Profiles!Take, Profiles!Create, Profiles!Release, Profiles!Tidy
<1>1. CASE function = "graphics" /\ p \in 1 .. 4
    BY <1>1
<1>2. CASE function = "graphics" /\ p \in 5 .. 8
    BY <1>2
<1>3. CASE function = "graphics" /\ p \in 9 .. 12
    BY <1>3
<1>4. CASE function = "resources" /\ p \in 1 .. 4
    BY <1>4
<1>5. CASE function = "resources" /\ p \in 5 .. 8
    BY <1>5
<1>6. CASE function = "resources" /\ p \in 9 .. 12
    BY <1>6
<1> HIDE DEF Follows
<1> QED BY <1>1, <1>2, <1>3, <1>4, <1>5, <1>6

\* Going on keeps the invariant, whatever the tables lead to.
LEMMA GotoInv ==
    ASSUME ProfileInv, path # "none", NEW next \in Nat \ {0}, NEW taken, NEW given,
           Leads(path, pc, next, taken, given), held' = (held \cup taken) \ given, Profiles!Goto(next)
    PROVE  ProfileInv'
<1>1. /\ path \in {"graphics", "resources"} /\ pc \in 1 .. 12
      /\ Held[path][pc] \subseteq held /\ held \subseteq MayHold(path, pc)
    BY DEF ProfileInv, MayHold
<1>2. Len(Profiles!ConfigureGraphics) = 12 /\ Len(Profiles!AllocateResources) = 12
    BY DEF Profiles!ConfigureGraphics, Profiles!AllocateResources
<1>3. CASE next > 12
    <2>1. held' = {}
        BY <1>1, <1>3 DEF Leads
    <2>2. pc' = 1 /\ path' \in {"none", "resources"}
        BY <1>1, <1>2, <1>3 DEF Profiles!Goto
    <2>3. Held["resources"][1] = {}
        BY DEF Held
    <2> QED BY <2>1, <2>2, <2>3 DEF ProfileInv
<1>4. CASE next <= 12
    <2>1. pc' = next /\ path' = path
        BY <1>1, <1>2, <1>4 DEF Profiles!Goto
    <2>2. Held[path][next] \subseteq held' /\ held' \subseteq MayHold(path, next)
        BY <1>1, <1>4 DEF Leads
    <2> QED BY <1>1, <1>4, <2>1, <2>2 DEF ProfileInv, MayHold
<1> QED BY <1>3, <1>4

\* A step of a function that applies a profile.
LEMMA StepInv ==
    ASSUME ProfileInv, Profiles!Step
    PROVE  ProfileInv'
<1> DEFINE s == Steps(path)[pc]
<1>1. /\ path # "none"
      /\ \/ s.op \in {"take", "create"} /\ held' = held \cup {s.what} /\ Profiles!Goto(pc + 1)
         \/ s.op = "take" /\ Profiles!Goto(s.else) /\ held' = held
         \/ s.op = "create" /\ Profiles!Goto(pc + 1) /\ held' = held
         \/ s.op \in {"release", "tidy"} /\ held' = held \ {s.what} /\ Profiles!Goto(pc + 1)
    BY DEF Profiles!Step, Steps
<1>2. path \in {"graphics", "resources"} /\ pc \in 1 .. 12 /\ pc + 1 \in Nat \ {0}
    BY <1>1 DEF ProfileInv
<1>3. /\ s.op \in {"take", "create"} => Leads(path, pc, pc + 1, {s.what}, {})
      /\ s.op = "take" => s.else \in Nat \ {0} /\ Leads(path, pc, s.else, {}, {})
      /\ s.op = "create" => Leads(path, pc, pc + 1, {}, {})
      /\ s.op \in {"release", "tidy"} => Leads(path, pc, pc + 1, {}, {s.what})
    BY <1>2, TablesLead DEF Follows
<1> HIDE DEF s
<1>4. CASE s.op \in {"take", "create"} /\ held' = held \cup {s.what} /\ Profiles!Goto(pc + 1)
    <2>1. held' = (held \cup {s.what}) \ {}
        BY <1>4
    <2> QED BY <1>1, <1>2, <1>3, <1>4, <2>1, GotoInv
<1>5. CASE s.op = "take" /\ Profiles!Goto(s.else) /\ held' = held
    <2>1. held' = (held \cup {}) \ {}
        BY <1>5
    <2> QED BY <1>1, <1>2, <1>3, <1>5, <2>1, GotoInv
<1>6. CASE s.op = "create" /\ Profiles!Goto(pc + 1) /\ held' = held
    <2>1. held' = (held \cup {}) \ {}
        BY <1>6
    <2> QED BY <1>1, <1>2, <1>3, <1>6, <2>1, GotoInv
<1>7. CASE s.op \in {"release", "tidy"} /\ held' = held \ {s.what} /\ Profiles!Goto(pc + 1)
    <2>1. held' = (held \cup {}) \ {s.what}
        BY <1>7
    <2> QED BY <1>1, <1>2, <1>3, <1>7, <2>1, GotoInv
<1> QED BY <1>1, <1>4, <1>5, <1>6, <1>7

\* A tick of idle time is one of the kernel's, too.
LEMMA TickInv ==
    ASSUME ReadingInv, NEW kind \in DOMAIN times, Profiles!Tick(kind)
    PROVE  ReadingInv'
<1>1. /\ times' = [k \in DOMAIN times |->
                     IF k = kind \/ (kind = "idle" /\ k = "kernel") THEN times[k] + 1 ELSE times[k]]
      /\ times[IF kind = "idle" THEN "kernel" ELSE kind] < MaxTime
      /\ UNCHANGED <<start, last, since, utilization, share>>
    BY DEF Profiles!Tick
<1>2. DOMAIN times = Kinds /\ kind \in Kinds /\ MaxTime \in Nat
    BY ProfileAssumption DEF ReadingInv
<1>3. \A k \in Kinds : times[k] \in 0 .. MaxTime /\ since[k] \in 0 .. MaxTime /\ since[k] <= times[k]
    BY DEF ReadingInv
<1>4. /\ times'["idle"] = IF kind = "idle" THEN times["idle"] + 1 ELSE times["idle"]
      /\ times'["kernel"] = IF kind = "user" THEN times["kernel"] ELSE times["kernel"] + 1
      /\ times'["user"] = IF kind = "user" THEN times["user"] + 1 ELSE times["user"]
    BY <1>1, <1>2 DEF Kinds
<1>5. times["idle"] - since["idle"] <= times["kernel"] - since["kernel"] /\ times["idle"] <= times["kernel"]
    BY DEF ReadingInv
<1>6. \A k \in Kinds : times'[k] \in 0 .. MaxTime /\ since[k] <= times'[k]
    BY <1>1, <1>2, <1>3, <1>4, <1>5 DEF Kinds
<1>7. times' \in [Kinds -> 0 .. MaxTime]
    <2>1. times' = [k \in Kinds |-> times'[k]]
        BY <1>1, <1>2
    <2> QED BY <1>6, <2>1
<1>8. times'["idle"] - since["idle"] <= times'["kernel"] - since["kernel"]
    BY <1>2, <1>3, <1>4, <1>5 DEF Kinds
<1>9. times'["idle"] <= times'["kernel"]
    BY <1>2, <1>3, <1>4, <1>5 DEF Kinds
<1> QED BY <1>1, <1>6, <1>7, <1>8, <1>9 DEF ReadingInv, Profiles!UtilizationIsShare

\* The difference of two readings of a counter that ran from s to s + a, then to s + b.
Difference(s, a, b) == (((s + b) % 256) + (256 - ((s + a) % 256))) % 256

\* The difference of two readings of a counter that may have wrapped is what passed.
LEMMA WrappedDifference ==
    ASSUME NEW s \in 0 .. 255, NEW a \in Nat, NEW b \in Nat, a <= b, b < 256
    PROVE  Difference(s, a, b) = b - a
<1>1. \A x \in 0 .. 511 : x % 256 = IF x < 256 THEN x ELSE x - 256
    OBVIOUS
<1>2. /\ (s + b) % 256 = IF s + b < 256 THEN s + b ELSE s + b - 256
      /\ (s + a) % 256 = IF s + a < 256 THEN s + a ELSE s + a - 256
    BY <1>1
<1> DEFINE d == ((s + b) % 256) + (256 - ((s + a) % 256))
<1>3. d = b - a \/ d = b - a + 256
    BY <1>2
<1> HIDE DEF d
<1>4. b - a \in 0 .. 255
    OBVIOUS
<1>5. d % 256 = b - a
    BY <1>1, <1>3, <1>4
<1> QED BY <1>5 DEF d, Difference

\* A reading is of the time that passed since the last.
LEMMA ReadInv ==
    ASSUME ReadingInv, Profiles!GetCPUUtilization
    PROVE  ReadingInv'
<1> DEFINE idle   == times["idle"] - since["idle"]
           kernel == times["kernel"] - since["kernel"]
           user   == times["user"] - since["user"]
<1>1. /\ since' = times /\ times' = times /\ start' = start
      /\ last' = [k \in DOMAIN times |-> (start[k] + times[k]) % 256]
      /\ utilization' = [active |-> (((Profiles!Passed("kernel") + Profiles!Passed("user")) % 256)
                                        + (256 - Profiles!Passed("idle"))) % 256,
                         total |-> (Profiles!Passed("kernel") + Profiles!Passed("user")) % 256]
      /\ share' = [active |-> kernel + user - idle, total |-> kernel + user]
    <2>1. since' = times /\ times' = times /\ start' = start
        BY DEF Profiles!GetCPUUtilization
    <2>2. last' = [k \in DOMAIN times |-> (start[k] + times[k]) % 256]
        BY DEF Profiles!GetCPUUtilization, Profiles!Width, Profiles!Counter
    <2>3. utilization' = [active |-> (((Profiles!Passed("kernel") + Profiles!Passed("user")) % 256)
                                        + (256 - Profiles!Passed("idle"))) % 256,
                          total |-> (Profiles!Passed("kernel") + Profiles!Passed("user")) % 256]
        BY DEF Profiles!GetCPUUtilization, Profiles!Width
    <2>4. share' = [active |-> kernel + user - idle, total |-> kernel + user]
        BY DEF Profiles!GetCPUUtilization
    <2> QED BY <2>1, <2>2, <2>3, <2>4
<1>2. ASSUME NEW k \in Kinds
      PROVE  /\ times[k] - since[k] \in 0 .. MaxTime
             /\ Profiles!Passed(k) = times[k] - since[k]
    <2>1. /\ start[k] \in 0 .. 255 /\ times[k] \in Nat /\ since[k] \in Nat /\ since[k] <= times[k]
          /\ times[k] <= MaxTime /\ times[k] < 256 /\ MaxTime \in Nat
          /\ last[k] = (start[k] + since[k]) % 256
        BY ProfileAssumption DEF ReadingInv
    <2>2. (((start[k] + times[k]) % 256) + (256 - ((start[k] + since[k]) % 256))) % 256 = times[k] - since[k]
        <3>1. PICK s \in 0 .. 255, a \in Nat, b \in Nat :
                 s = start[k] /\ a = since[k] /\ b = times[k] /\ a <= b /\ b < 256
            BY <2>1
        <3>2. a <= b /\ b < 256
            BY <3>1
        <3>3. Difference(s, a, b) = b - a
            BY <3>2, WrappedDifference
        <3> QED BY <3>1, <3>3 DEF Difference
    <2>3. Profiles!Passed(k) = (((start[k] + times[k]) % 256) + (256 - last[k])) % 256
        BY DEF Profiles!Passed, Profiles!Width, Profiles!Counter
    <2>4. Profiles!Passed(k) = (((start[k] + times[k]) % 256) + (256 - ((start[k] + since[k]) % 256))) % 256
        BY <2>1, <2>3
    <2>5. times[k] - since[k] \in 0 .. MaxTime
        BY <2>1
    <2> QED BY <2>2, <2>4, <2>5
<1>3. /\ Profiles!Passed("idle") = idle /\ Profiles!Passed("kernel") = kernel
      /\ Profiles!Passed("user") = user
      /\ idle \in 0 .. MaxTime /\ kernel \in 0 .. MaxTime /\ user \in 0 .. MaxTime
    BY <1>2 DEF Kinds
<1>4. idle <= kernel
    BY DEF ReadingInv
<1> HIDE DEF idle, kernel, user
<1>5. \A d \in 0 .. 255 : d % 256 = d /\ (d + 256) % 256 = d
    OBVIOUS
<1>6. kernel + user \in 0 .. 255 /\ (kernel + user) % 256 = kernel + user
    BY <1>3, <1>5, ProfileAssumption
<1>7. (kernel + user + 256 - idle) % 256 = kernel + user - idle
    <2>1. kernel + user - idle \in 0 .. 255 /\ kernel + user + 256 - idle = (kernel + user - idle) + 256
        BY <1>3, <1>4, <1>6, ProfileAssumption
    <2> QED BY <1>5, <2>1
<1>8. utilization' = share'
    BY <1>1, <1>3, <1>6, <1>7
<1>9. utilization'.active <= utilization'.total
    BY <1>1, <1>3, <1>4, <1>8
<1>10. Profiles!UtilizationIsShare'
    BY <1>8, <1>9 DEF Profiles!UtilizationIsShare
<1>11. \A k \in Kinds : since'[k] <= times'[k] /\ last'[k] = (start'[k] + since'[k]) % 256
    BY <1>1, ProfileAssumption DEF ReadingInv
<1>12. times'["idle"] - since'["idle"] <= times'["kernel"] - since'["kernel"]
    BY <1>1 DEF ReadingInv, Kinds
<1> QED BY <1>1, <1>10, <1>11, <1>12 DEF ReadingInv

\* Every step of the profiles and readings keeps both invariants.
LEMMA ProfileSteps == ProfileInv /\ ReadingInv /\ Profiles!Next => ProfileInv' /\ ReadingInv'
<1> SUFFICES ASSUME ProfileInv, ReadingInv, Profiles!Next PROVE ProfileInv' /\ ReadingInv'
    OBVIOUS
<1>1. CASE Profiles!InitializeProfiles \/ Profiles!Destroy
    BY <1>1, ProfileStill DEF Profiles!InitializeProfiles, Profiles!Destroy, Profiles!readingVars
<1>2. CASE Profiles!ApplyProfile
    <2>1. path' = "graphics" /\ pc' = 1 /\ held' = {} /\ UNCHANGED <<start, times, last, since, utilization, share>>
        BY <1>2 DEF Profiles!ApplyProfile, Profiles!readingVars
    <2>2. Held["graphics"][1] = {}
        BY DEF Held
    <2> QED BY <2>1, <2>2, ProfileStill DEF ProfileInv
<1>3. CASE Profiles!Step
    <2>1. UNCHANGED <<start, times, last, since, utilization, share>>
        BY <1>3 DEF Profiles!Step, Profiles!readingVars
    <2> QED BY <1>3, <2>1, StepInv, ProfileStill
<1>4. CASE Profiles!GetCPUUtilization
    <2>1. UNCHANGED <<path, pc, held>>
        BY <1>4 DEF Profiles!GetCPUUtilization
    <2> QED BY <1>4, <2>1, ReadInv, ProfileStill
<1>5. ASSUME NEW kind \in DOMAIN times, Profiles!Tick(kind) PROVE ProfileInv' /\ ReadingInv'
    <2>1. UNCHANGED <<path, pc, held>>
        BY <1>5 DEF Profiles!Tick
    <2> QED BY <1>5, <2>1, TickInv, ProfileStill
<1> QED BY <1>1, <1>2, <1>3, <1>4, <1>5 DEF Profiles!Next
-----------------------------------------------------------------------------
\* The network stack.

\* What lies between the head and the tail of a ring are the bytes in between, and what
\* was taken out are those before.
RingInv(b) ==
    /\ ring[b].head <= ring[b].tail /\ ring[b].tail - ring[b].head <= Capacity
    /\ \A t \in ring[b].head .. ring[b].tail - 1 : slots[b][(t % Capacity) + 1] = t + 1
    /\ Len(consumed[b]) = ring[b].head
    /\ \A k \in 1 .. ring[b].head : consumed[b][k] = k

\* The rings, and what was taken from each.
StreamInv ==
    /\ ring \in [Network!Rings -> [head : Nat, tail : Nat]]
    /\ DOMAIN slots = Network!Rings
    /\ consumed \in [Network!Rings -> Seq(Nat)]
    /\ \A b \in Network!Rings : RingInv(b)

\* The list of routes is the end of all that were added.
RouteInv ==
    /\ routes \in Seq(Destinations) /\ addedRoutes \in Seq(Destinations)
    /\ Len(routes) <= Len(addedRoutes)
    /\ \A k \in 1 .. Len(routes) : routes[k] = addedRoutes[k + Len(addedRoutes) - Len(routes)]

\* The rings and the list start empty.
LEMMA NetworkInit == Network!Init => StreamInv /\ RouteInv
BY NetworkAssumption DEF StreamInv, RingInv, RouteInv, Network!Init, Network!Rings

\* Nothing else disturbs the invariants.
LEMMA NetworkStill ==
    /\ StreamInv /\ UNCHANGED <<ring, slots, consumed>> => StreamInv'
    /\ RouteInv /\ UNCHANGED <<routes, addedRoutes>> => RouteInv'
BY DEF StreamInv, RingInv, RouteInv

\* What the invariant of the rings is for.
LEMMA StreamsFlow == StreamInv => Network!StreamsIntact
<1> SUFFICES ASSUME StreamInv, NEW b \in Network!Rings, NEW k \in DOMAIN consumed[b]
             PROVE  consumed[b][k] = k
    BY DEF Network!StreamsIntact
<1>1. DOMAIN consumed[b] = 1 .. ring[b].head
    BY LenProperties DEF StreamInv, RingInv
<1> QED BY <1>1 DEF StreamInv, RingInv

\* Numbers less than the capacity apart do not share a place of the ring.
LEMMA PlacesApart ==
    ASSUME NEW t \in Nat, NEW u \in Nat, t < u, u - t < Capacity
    PROVE  t % Capacity # u % Capacity
<1> SUFFICES ASSUME t % Capacity = u % Capacity PROVE FALSE
    OBVIOUS
<1> DEFINE p == t \div Capacity
           q == u \div Capacity
<1>1. /\ t = Capacity * p + (t % Capacity) /\ u = Capacity * q + (u % Capacity)
      /\ p \in Nat /\ q \in Nat
    BY NetworkAssumption
<1>2. u - t = Capacity * (q - p)
    BY <1>1, NetworkAssumption
<1>3. q - p \in Int /\ q > p
    BY <1>1, <1>2, NetworkAssumption
<1>4. Capacity * (q - p) >= Capacity
    BY <1>3, NetworkAssumption
<1> QED BY <1>2, <1>4, NetworkAssumption

\* A write that fits lands behind the bytes of the ring, on none of them.
LEMMA PutInv ==
    ASSUME StreamInv, NEW b \in Network!Rings, NEW n \in Nat,
           Capacity - Network!Used(b) >= n, Network!Put(b, n)
    PROVE  StreamInv'
<1> DEFINE head == ring[b].head
           tail == ring[b].tail
           New(i) == {t \in tail .. tail + n - 1 : t % Capacity = i - 1}
<1>1. /\ head \in Nat /\ tail \in Nat /\ head <= tail /\ tail + n - head <= Capacity
      /\ Capacity \in Nat \ {0}
    BY NetworkAssumption DEF StreamInv, RingInv, Network!Used
<1>2. /\ ring' = [ring EXCEPT ![b].tail = tail + n] /\ consumed' = consumed
      /\ slots' = [slots EXCEPT ![b] = [i \in 1 .. Capacity |->
            IF New(i) = {} THEN slots[b][i] ELSE 1 + CHOOSE t \in New(i) : \A u \in New(i) : u <= t]]
    BY DEF Network!Put
<1>3. /\ ring' \in [Network!Rings -> [head : Nat, tail : Nat]]
      /\ ring'[b].head = head /\ ring'[b].tail = tail + n
      /\ \A c \in Network!Rings : c # b => ring'[c] = ring[c]
    BY <1>1, <1>2 DEF StreamInv
<1>4. /\ DOMAIN slots' = Network!Rings
      /\ \A c \in Network!Rings : c # b => slots'[c] = slots[c]
      /\ \A i \in 1 .. Capacity : slots'[b][i] =
            IF New(i) = {} THEN slots[b][i] ELSE 1 + CHOOSE t \in New(i) : \A u \in New(i) : u <= t
    BY <1>2 DEF StreamInv
<1>5. \A c \in Network!Rings : c # b => RingInv(c)'
    BY <1>2, <1>3, <1>4 DEF StreamInv, RingInv
<1>6. ASSUME NEW t \in head .. tail + n - 1 PROVE slots'[b][(t % Capacity) + 1] = t + 1
    <2> DEFINE i == (t % Capacity) + 1
    <2>1. t \in Nat /\ i \in 1 .. Capacity /\ i - 1 = t % Capacity
        BY <1>1
    <2>2. \A u \in New(i) : u \in Nat /\ u >= tail /\ u <= tail + n - 1 /\ u % Capacity = t % Capacity
        BY <1>1, <2>1
    <2>3. CASE t >= tail
        <3>1. t \in New(i)
            BY <1>1, <2>1, <2>3
        <3>2. \A u \in New(i) : u = t
            <4> SUFFICES ASSUME NEW u \in New(i), u # t PROVE FALSE
                OBVIOUS
            <4>1. u \in Nat /\ u >= tail /\ u <= tail + n - 1 /\ u % Capacity = t % Capacity
                BY <2>2
            <4>2. CASE t < u
                <5>1. u - t < Capacity
                    BY <1>1, <2>1, <2>3, <4>1
                <5> QED BY <2>1, <4>1, <4>2, <5>1, PlacesApart
            <4>3. CASE u < t
                <5>1. t - u < Capacity
                    BY <1>1, <2>1, <4>1
                <5> QED BY <2>1, <4>1, <4>3, <5>1, PlacesApart
            <4> QED BY <2>1, <4>1, <4>2, <4>3
        <3>3. New(i) = {t}
            BY <3>1, <3>2
        <3> HIDE DEF New, i
        <3>4. slots'[b][i] = 1 + CHOOSE u \in {t} : \A v \in {t} : v <= u
            BY <1>4, <2>1, <3>3
        <3>5. (CHOOSE u \in {t} : \A v \in {t} : v <= u) = t
            BY <2>1
        <3> QED BY <2>1, <3>4, <3>5 DEF i
    <2>4. CASE t < tail
        <3>1. New(i) = {}
            <4> SUFFICES ASSUME NEW u \in New(i) PROVE FALSE
                OBVIOUS
            <4>1. u \in Nat /\ u >= tail /\ u <= tail + n - 1 /\ u % Capacity = t % Capacity
                BY <2>2
            <4>2. t < u /\ u - t < Capacity
                BY <1>1, <2>1, <2>4, <4>1
            <4> QED BY <2>1, <4>1, <4>2, PlacesApart
        <3>2. slots'[b][i] = slots[b][i]
            BY <1>4, <2>1, <3>1
        <3>3. t \in head .. tail - 1
            BY <1>1, <2>1, <2>4
        <3> QED BY <3>2, <3>3 DEF StreamInv, RingInv
    <2> QED BY <1>1, <2>1, <2>3, <2>4
<1>7. RingInv(b)'
    <2>1. consumed' = consumed
        BY <1>2
    <2> HIDE DEF New
    <2> QED BY <1>1, <1>3, <1>6, <2>1 DEF StreamInv, RingInv
<1> QED BY <1>2, <1>3, <1>4, <1>5, <1>7 DEF StreamInv

\* A read of what is there takes the bytes that follow those that were taken.
LEMMA TakeInv ==
    ASSUME StreamInv, NEW b \in Network!Rings, NEW n \in Nat,
           Network!Used(b) >= n, Network!Take(b, n)
    PROVE  StreamInv'
<1> DEFINE head == ring[b].head
           tail == ring[b].tail
           read == [k \in 1 .. n |-> slots[b][((head + k - 1) % Capacity) + 1]]
<1>1. /\ head \in Nat /\ tail \in Nat /\ head + n <= tail /\ tail - head <= Capacity
      /\ Capacity \in Nat \ {0}
    BY NetworkAssumption DEF StreamInv, RingInv, Network!Used
<1>2. /\ ring' = [ring EXCEPT ![b].head = head + n] /\ slots' = slots
      /\ consumed' = [consumed EXCEPT ![b] = consumed[b] \o read]
    BY DEF Network!Take
<1>3. \A k \in 1 .. n : read[k] = head + k
    <2> TAKE k \in 1 .. n
    <2>1. head + k - 1 \in head .. tail - 1 /\ (head + k - 1) + 1 = head + k
        BY <1>1
    <2>2. slots[b][((head + k - 1) % Capacity) + 1] = (head + k - 1) + 1
        BY <2>1 DEF StreamInv, RingInv
    <2> QED BY <2>1, <2>2
<1>12. read = [k \in 1 .. n |-> read[k]]
    OBVIOUS
<1> HIDE DEF read, head
<1>4. read \in Seq(Nat) /\ Len(read) = n
    <2>1. \A k \in 1 .. n : read[k] \in Nat
        BY <1>1, <1>3
    <2>2. read \in [1 .. n -> Nat]
        BY <1>12, <2>1
    <2> QED BY <2>2
<1> USE DEF head
<1>5. /\ ring' \in [Network!Rings -> [head : Nat, tail : Nat]]
      /\ ring'[b].head = head + n /\ ring'[b].tail = tail
      /\ \A c \in Network!Rings : c # b => ring'[c] = ring[c]
    BY <1>1, <1>2 DEF StreamInv
<1>6. consumed[b] \in Seq(Nat) /\ Len(consumed[b]) = head /\ \A k \in 1 .. head : consumed[b][k] = k
    BY DEF StreamInv, RingInv
<1>7. /\ consumed[b] \o read \in Seq(Nat) /\ Len(consumed[b] \o read) = head + n
      /\ \A k \in 1 .. head + n : (consumed[b] \o read)[k] = IF k <= head THEN consumed[b][k] ELSE read[k - head]
    <2> DEFINE old == consumed[b]
    <2>1. old \in Seq(Nat) /\ Len(old) = head
        BY <1>6
    <2> HIDE DEF head, old
    <2>2. /\ old \o read \in Seq(Nat) /\ Len(old \o read) = Len(old) + Len(read)
          /\ \A k \in 1 .. Len(old) + Len(read) :
                (old \o read)[k] = IF k <= Len(old) THEN old[k] ELSE read[k - Len(old)]
        BY <1>4, <2>1, ConcatProperties
    <2>3. /\ old \o read \in Seq(Nat) /\ Len(old \o read) = head + n
          /\ \A k \in 1 .. head + n : (old \o read)[k] = IF k <= head THEN old[k] ELSE read[k - head]
        BY <1>4, <2>1, <2>2
    <2> QED BY <2>3 DEF old
<1>8. \A k \in 1 .. head + n : (consumed[b] \o read)[k] = k
    <2> TAKE k \in 1 .. head + n
    <2>1. CASE k <= head
        BY <1>1, <1>6, <1>7, <2>1
    <2>2. CASE ~ (k <= head)
        <3>1. k - head \in 1 .. n /\ head + (k - head) = k
            BY <1>1, <2>2
        <3> QED BY <1>3, <1>7, <2>2, <3>1
    <2> QED BY <2>1, <2>2
<1>9. /\ consumed' \in [Network!Rings -> Seq(Nat)] /\ consumed'[b] = consumed[b] \o read
      /\ \A c \in Network!Rings : c # b => consumed'[c] = consumed[c]
    BY <1>2, <1>7 DEF StreamInv
<1>10. RingInv(b)'
    <2>1. \A t \in head + n .. tail - 1 : slots'[b][(t % Capacity) + 1] = t + 1
        <3>1. \A t \in head + n .. tail - 1 : t \in head .. tail - 1
            BY <1>1
        <3> QED BY <1>2, <3>1 DEF StreamInv, RingInv
    <2>2. head + n <= tail /\ tail - (head + n) <= Capacity
        BY <1>1
    <2> QED BY <1>5, <1>7, <1>8, <1>9, <2>1, <2>2 DEF RingInv
<1>11. \A c \in Network!Rings : c # b => RingInv(c)'
    BY <1>2, <1>5, <1>9 DEF StreamInv, RingInv
<1> QED BY <1>2, <1>5, <1>9, <1>10, <1>11 DEF StreamInv
\* The oldest route makes room for the new one.
LEMMA AddEntryInv ==
    ASSUME RouteInv, NEW d \in Destinations, Network!AddEntry(d)
    PROVE  RouteInv'
<1> DEFINE base == IF Len(routes) >= MaxRoutes THEN Tail(routes) ELSE routes
<1>1. routes' = Append(base, d) /\ addedRoutes' = Append(addedRoutes, d)
    BY DEF Network!AddEntry
<1>2. /\ routes \in Seq(Destinations) /\ addedRoutes \in Seq(Destinations)
      /\ Len(routes) \in Nat /\ Len(addedRoutes) \in Nat /\ Len(routes) <= Len(addedRoutes)
      /\ MaxRoutes \in Nat \ {0}
    BY LenProperties, NetworkAssumption DEF RouteInv
<1>3. /\ base \in Seq(Destinations) /\ Len(base) \in Nat /\ Len(base) <= Len(addedRoutes)
      /\ \A k \in 1 .. Len(base) : base[k] = addedRoutes[k + Len(addedRoutes) - Len(base)]
    <2>1. CASE Len(routes) >= MaxRoutes
        <3>1. base = Tail(routes) /\ routes # <<>>
            BY <1>2, <2>1
        <3> HIDE DEF base
        <3>2. /\ base \in Seq(Destinations) /\ Len(base) = Len(routes) - 1
              /\ \A k \in 1 .. Len(base) : base[k] = routes[k + 1]
            BY <1>2, <3>1, HeadTailProperties
        <3>3. Len(base) \in Nat
            BY <3>2, LenProperties
        <3>4. ASSUME NEW k \in 1 .. Len(base)
              PROVE  base[k] = addedRoutes[k + Len(addedRoutes) - Len(base)]
            <4>1. k + 1 \in 1 .. Len(routes)
                BY <1>2, <3>2, <3>3
            <4>2. routes[k + 1] = addedRoutes[(k + 1) + Len(addedRoutes) - Len(routes)]
                BY <4>1 DEF RouteInv
            <4>3. (k + 1) + Len(addedRoutes) - Len(routes) = k + Len(addedRoutes) - Len(base)
                BY <1>2, <3>2, <3>3
            <4> QED BY <3>2, <4>2, <4>3
        <3> QED BY <1>2, <3>2, <3>3, <3>4
    <2>2. CASE ~ (Len(routes) >= MaxRoutes)
        BY <1>2, <2>2 DEF RouteInv
    <2> QED BY <2>1, <2>2
<1> HIDE DEF base
<1>4. /\ routes' \in Seq(Destinations) /\ Len(routes') = Len(base) + 1
      /\ \A k \in 1 .. Len(base) : routes'[k] = base[k]
      /\ routes'[Len(base) + 1] = d
    BY <1>1, <1>3, AppendProperties
<1>5. /\ addedRoutes' \in Seq(Destinations) /\ Len(addedRoutes') = Len(addedRoutes) + 1
      /\ \A k \in 1 .. Len(addedRoutes) : addedRoutes'[k] = addedRoutes[k]
      /\ addedRoutes'[Len(addedRoutes) + 1] = d
    BY <1>1, <1>2, AppendProperties
<1>6. ASSUME NEW k \in 1 .. Len(base) + 1
      PROVE  routes'[k] = addedRoutes'[k + (Len(addedRoutes) + 1) - (Len(base) + 1)]
    <2> DEFINE i == k + Len(addedRoutes) - Len(base)
    <2>1. k + (Len(addedRoutes) + 1) - (Len(base) + 1) = i
        BY <1>2, <1>3
    <2>2. CASE k \in 1 .. Len(base)
        <3>1. i \in 1 .. Len(addedRoutes)
            BY <1>2, <1>3, <2>2
        <3> QED BY <1>3, <1>4, <1>5, <2>1, <2>2, <3>1
    <2>3. CASE k = Len(base) + 1
        <3>1. i = Len(addedRoutes) + 1
            BY <1>2, <1>3, <2>3
        <3> QED BY <1>4, <1>5, <2>1, <2>3, <3>1
    <2> QED BY <1>3, <2>2, <2>3
<1> QED BY <1>2, <1>3, <1>4, <1>5, <1>6 DEF RouteInv

\* What the invariant of the routes is for.
LEMMA RoutesFollow == RouteInv => Network!RoutesAreLatest
<1> SUFFICES ASSUME RouteInv PROVE Network!RoutesAreLatest
    OBVIOUS
<1> DEFINE n == Len(routes)
           m == Len(addedRoutes)
           s == SubSeq(addedRoutes, m - n + 1, m)
<1>1. /\ n \in Nat /\ m \in Nat /\ n <= m
      /\ \A i \in 1 .. m : addedRoutes[i] \in Destinations
      /\ \A i \in 1 .. n : routes[i] = addedRoutes[i + m - n]
    BY LenProperties, ElementOfSeq DEF RouteInv
<1> HIDE DEF n, m
<1> DEFINE from == m - n + 1
<1>2. from \in 1 .. m + 1 /\ m - from + 1 = n
    BY <1>1
<1>3. /\ s \in Seq(Destinations)
      /\ Len(s) = IF from <= m THEN m - from + 1 ELSE 0
      /\ \A i \in 1 .. m - from + 1 : s[i] = addedRoutes[from + i - 1]
    <2>1. from \in Int /\ m \in Int /\ \A i \in from .. m : addedRoutes[i] \in Destinations
        BY <1>1, <1>2
    <2> HIDE DEF from
    <2>2. /\ SubSeq(addedRoutes, from, m) \in Seq(Destinations)
          /\ Len(SubSeq(addedRoutes, from, m)) = IF from <= m THEN m - from + 1 ELSE 0
          /\ \A i \in 1 .. m - from + 1 : SubSeq(addedRoutes, from, m)[i] = addedRoutes[from + i - 1]
        BY <2>1, SubSeqProperties
    <2> QED BY <2>2 DEF from
<1>4. Len(s) = n /\ \A i \in 1 .. n : s[i] = routes[i]
    <2>1. Len(s) = n
        BY <1>1, <1>2, <1>3
    <2>2. \A i \in 1 .. n : i \in 1 .. m - from + 1 /\ from + i - 1 = i + m - n
        BY <1>1, <1>2
    <2> HIDE DEF s, from
    <2>3. \A i \in 1 .. n : s[i] = addedRoutes[i + m - n]
        BY <1>3, <2>2
    <2> QED BY <1>1, <2>1, <2>3
<1> HIDE DEF s
<1>5. routes = s
    BY <1>3, <1>4, SeqEqual DEF RouteInv, n
<1> QED BY <1>1, <1>2, <1>5 DEF n, m, s, Network!RoutesAreLatest

\* Every step of the network stack keeps both invariants.
LEMMA NetworkSteps == StreamInv /\ RouteInv /\ Network!Next => StreamInv' /\ RouteInv'
<1> SUFFICES ASSUME StreamInv, RouteInv, Network!Next PROVE StreamInv' /\ RouteInv'
    OBVIOUS
<1>1. ASSUME NEW n \in ChunkSizes,
             \/ Network!WriteToTxBuffer(n) \/ Network!ReadFromRxBuffer(n)
             \/ Network!DriverSend(n) \/ Network!DriverReceive(n)
      PROVE  StreamInv' /\ RouteInv'
    <2>1. n \in Nat /\ "rx" \in Network!Rings /\ "tx" \in Network!Rings
        BY NetworkAssumption DEF Network!Rings
    <2>2. RouteInv'
        BY <1>1, NetworkStill DEF Network!WriteToTxBuffer, Network!ReadFromRxBuffer, Network!DriverSend,
           Network!DriverReceive, Network!routeVars
    <2>3. CASE Network!WriteToTxBuffer(n)
        <3>1. \/ UNCHANGED <<ring, slots, consumed>>
              \/ ~ (Capacity - Network!Used("tx") < n) /\ Network!Put("tx", n)
            BY <2>3 DEF Network!WriteToTxBuffer
        <3>2. Network!Used("tx") \in Int /\ Capacity \in Nat
            BY <2>1, NetworkAssumption DEF StreamInv, Network!Used
        <3>3. ~ (Capacity - Network!Used("tx") < n) => Capacity - Network!Used("tx") >= n
            BY <2>1, <3>2
        <3> QED BY <2>1, <2>2, <3>1, <3>3, PutInv, NetworkStill
    <2>4. CASE Network!ReadFromRxBuffer(n) \/ Network!DriverSend(n)
        BY <2>1, <2>2, <2>4, TakeInv DEF Network!ReadFromRxBuffer, Network!DriverSend
    <2>5. CASE Network!DriverReceive(n)
        BY <2>1, <2>2, <2>5, PutInv DEF Network!DriverReceive
    <2> QED BY <1>1, <2>3, <2>4, <2>5
<1>2. ASSUME NEW d \in Destinations, Network!AddEntry(d) PROVE StreamInv' /\ RouteInv'
    <2>1. UNCHANGED <<ring, slots, consumed>>
        BY <1>2 DEF Network!AddEntry, Network!bufferVars
    <2> QED BY <1>2, <2>1, AddEntryInv, NetworkStill
<1>3. CASE Network!ProcessPacket \/ \E fits \in BOOLEAN : Network!DriverPush(fits)
    BY <1>3, NetworkStill DEF Network!ProcessPacket, Network!DriverPush, Network!bufferVars, Network!routeVars
<1> QED BY <1>1, <1>2, <1>3 DEF Network!Next
-----------------------------------------------------------------------------
\* The system calls.

\* The steps behind which a handler has something in its hands.
Holding == {"file_register", "process_load", "process_initialize", "memory_register"}

\* Whatever is incomplete is in the hands of one caller, at one of these steps, or is in
\* nobody's hands because its handler was thrown out of.
SyscallInv ==
    /\ DOMAIN at = Callers /\ object \in [Callers -> Objects \cup {Nothing}]
    /\ DOMAIN objects = Objects /\ DOMAIN answer = Callers
    /\ \A n \in DOMAIN syscallTable : syscallTable[n] \in Syscalls!Handlers
    /\ \A c \in Callers : IF at[c] \in Holding
                            THEN object[c] \in Objects /\ objects[object[c]] \in Syscalls!Incomplete
                            ELSE object[c] = Nothing
    /\ \A c, d \in Callers : object[c] \in Objects /\ object[c] = object[d] => c = d
    /\ \A o \in Objects : objects[o] \in Syscalls!Incomplete =>
          o \in abandoned \/ \E c \in Callers : object[c] = o
    /\ abandoned \subseteq Objects
    /\ \A o \in abandoned : objects[o] \in Syscalls!Incomplete /\ \A c \in Callers : object[c] # o
    /\ \A c \in Callers : answer[c] \in Objects => objects[answer[c]] \in Syscalls!Complete

\* No handler runs and nothing is made.
LEMMA SyscallInit == Syscalls!Init => SyscallInv
<1> SUFFICES ASSUME Syscalls!Init PROVE SyscallInv
    OBVIOUS
<1>1. \A n \in DOMAIN syscallTable : syscallTable[n] \in Syscalls!Handlers
    BY DEF Syscalls!Init, Syscalls!Handlers
<1> QED BY <1>1, SyscallAssumption DEF Syscalls!Init, SyscallInv, Holding, Syscalls!Incomplete

\* Nothing else disturbs the invariant.
LEMMA SyscallStill ==
    SyscallInv /\ UNCHANGED <<syscallTable, at, object, objects, answer, abandoned>> => SyscallInv'
BY DEF SyscallInv

\* What the invariant is for.
LEMMA NothingLeftBehind == SyscallInv => Syscalls!OrphansWereThrown
<1> SUFFICES ASSUME SyscallInv, NEW o \in Objects, objects[o] \in Syscalls!Incomplete
             PROVE  \/ o \notin abandoned /\ \E c \in Callers : {d \in Callers : object[d] = o /\ at[d] # "idle"} = {c}
                    \/ o \in abandoned /\ \A d \in Callers : object[d] # o
    BY DEF SyscallInv, Syscalls!OrphansWereThrown
<1>1. CASE o \in abandoned
    BY <1>1 DEF SyscallInv
<1>2. CASE o \notin abandoned
    <2>1. PICK c \in Callers : object[c] = o
        BY <1>2 DEF SyscallInv
    <2>2. at[c] \in Holding
        BY <2>1, SyscallAssumption DEF SyscallInv
    <2>3. {d \in Callers : object[d] = o /\ at[d] # "idle"} = {c}
        BY <2>1, <2>2 DEF SyscallInv, Holding
    <2> QED BY <1>2, <2>3
<1> QED BY <1>1, <1>2

\* A handler that holds nothing goes on, or returns without an object.
LEMMA MoveInv ==
    ASSUME SyscallInv, NEW c \in Callers, NEW next, at[c] \notin Holding, next \notin Holding,
           UNCHANGED <<syscallTable, objects, abandoned>>, at' = [at EXCEPT ![c] = next],
           \/ UNCHANGED <<object, answer>>
           \/ \E what \in {"error", "done"} : /\ object' = [object EXCEPT ![c] = Nothing]
                                              /\ answer' = [answer EXCEPT ![c] = what]
    PROVE  SyscallInv'
<1>1. object' = object /\ DOMAIN at' = Callers
    BY DEF SyscallInv
<1>2. /\ DOMAIN answer' = Callers
      /\ \A d \in Callers : answer'[d] \in Objects => answer'[d] = answer[d]
    BY SyscallAssumption DEF SyscallInv
<1>3. \A d \in Callers : at'[d] \in Holding <=> at[d] \in Holding
    BY DEF SyscallInv
<1> QED BY <1>1, <1>2, <1>3 DEF SyscallInv

\* What is made goes into the hands of the caller, who held nothing.
LEMMA MakeInv ==
    ASSUME SyscallInv, NEW c \in Callers, at[c] \notin Holding, UNCHANGED <<syscallTable, abandoned>>,
           NEW state \in Syscalls!Incomplete, NEW next \in Holding, Syscalls!Make(c, state, next)
    PROVE  SyscallInv'
<1>1. PICK o \in Objects : /\ objects[o] = "none" /\ objects' = [objects EXCEPT ![o] = state]
                           /\ object' = [object EXCEPT ![c] = o]
    BY DEF Syscalls!Make
<1>2. at' = [at EXCEPT ![c] = next] /\ answer' = answer
    BY DEF Syscalls!Make, Syscalls!Goto
<1>3. (\A d \in Callers : object[d] # o /\ answer[d] # o) /\ o \notin abandoned
    BY <1>1, SyscallAssumption DEF SyscallInv, Syscalls!Incomplete, Syscalls!Complete
<1>4. \A p \in abandoned : objects'[p] \in Syscalls!Incomplete /\ \A d \in Callers : object'[d] # p
    BY <1>1, <1>3 DEF SyscallInv
<1>5. /\ DOMAIN at' = Callers /\ object' \in [Callers -> Objects \cup {Nothing}]
      /\ DOMAIN objects' = Objects
    BY <1>1, <1>2 DEF SyscallInv
<1>6. \A d \in Callers : IF at'[d] \in Holding
                           THEN object'[d] \in Objects /\ objects'[object'[d]] \in Syscalls!Incomplete
                           ELSE object'[d] = Nothing
    BY <1>1, <1>2, <1>3 DEF SyscallInv
<1>7. \A d, e \in Callers : object'[d] \in Objects /\ object'[d] = object'[e] => d = e
    BY <1>1, <1>3 DEF SyscallInv
<1>8. \A p \in Objects : objects'[p] \in Syscalls!Incomplete => p \in abandoned \/ \E d \in Callers : object'[d] = p
    <2> SUFFICES ASSUME NEW p \in Objects, objects'[p] \in Syscalls!Incomplete, p \notin abandoned
                 PROVE  \E d \in Callers : object'[d] = p
        OBVIOUS
    <2>1. CASE p = o
        BY <1>1, <2>1 DEF SyscallInv
    <2>2. CASE p # o
        <3>1. PICK d \in Callers : object[d] = p
            BY <1>1, <2>2 DEF SyscallInv
        <3>2. d # c
            BY <3>1, SyscallAssumption DEF SyscallInv
        <3> QED BY <1>1, <3>1, <3>2
    <2> QED BY <2>1, <2>2
<1>9. \A d \in Callers : answer'[d] \in Objects => objects'[answer'[d]] \in Syscalls!Complete
    BY <1>1, <1>2, <1>3 DEF SyscallInv
<1> QED BY <1>2, <1>4, <1>5, <1>6, <1>7, <1>8, <1>9 DEF SyscallInv

\* The caller's object moves on in its hands.
LEMMA BecomesInv ==
    ASSUME SyscallInv, NEW c \in Callers, at[c] \in Holding, UNCHANGED <<syscallTable, abandoned>>,
           NEW state \in Syscalls!Incomplete, NEW next \in Holding, Syscalls!Becomes(c, state, next)
    PROVE  SyscallInv'
<1>1. /\ objects' = [objects EXCEPT ![object[c]] = state] /\ at' = [at EXCEPT ![c] = next]
      /\ UNCHANGED <<object, answer>>
    BY DEF Syscalls!Becomes, Syscalls!Goto
<1>2. object[c] \in Objects /\ objects[object[c]] \in Syscalls!Incomplete
    BY DEF SyscallInv
<1>3. DOMAIN at' = Callers /\ DOMAIN objects' = Objects
    BY <1>1, <1>2 DEF SyscallInv
<1>4. \A d \in Callers : IF at'[d] \in Holding
                           THEN object[d] \in Objects /\ objects'[object[d]] \in Syscalls!Incomplete
                           ELSE object[d] = Nothing
    BY <1>1, <1>2 DEF SyscallInv
<1>5. \A d \in Callers : answer[d] \in Objects => answer[d] # object[c]
    BY <1>2 DEF SyscallInv, Syscalls!Incomplete, Syscalls!Complete
<1>6. \A d \in Callers : answer[d] \in Objects => objects'[answer[d]] \in Syscalls!Complete
    BY <1>1, <1>5 DEF SyscallInv
<1>7. \A p \in Objects : objects'[p] \in Syscalls!Incomplete => p \in abandoned \/ \E d \in Callers : object[d] = p
    BY <1>1 DEF SyscallInv
<1>8. \A p \in abandoned : objects'[p] \in Syscalls!Incomplete
    BY <1>1 DEF SyscallInv
<1> QED BY <1>1, <1>3, <1>4, <1>6, <1>7, <1>8 DEF SyscallInv

\* The object leaves the caller's hands: it is given back, or complete.
LEMMA LeaveInv ==
    ASSUME SyscallInv, NEW c \in Callers, at[c] \in Holding, UNCHANGED <<syscallTable, abandoned>>,
           NEW state, NEW what, objects' = [objects EXCEPT ![object[c]] = state],
           Syscalls!Return(c, what),
           \/ state = "none" /\ what = "error"
           \/ state \in Syscalls!Complete /\ what = object[c]
    PROVE  SyscallInv'
<1>1. /\ at' = [at EXCEPT ![c] = "idle"] /\ object' = [object EXCEPT ![c] = Nothing]
      /\ answer' = [answer EXCEPT ![c] = what]
    BY DEF Syscalls!Return
<1>2. /\ object[c] \in Objects /\ objects[object[c]] \in Syscalls!Incomplete
      /\ state \notin Syscalls!Incomplete
    BY DEF SyscallInv, Syscalls!Complete, Syscalls!Incomplete
<1>3. /\ DOMAIN at' = Callers /\ object' \in [Callers -> Objects \cup {Nothing}]
      /\ DOMAIN objects' = Objects /\ DOMAIN answer' = Callers
    BY <1>1 DEF SyscallInv
<1>4. \A d \in Callers : d # c => object[d] # object[c]
    BY <1>2 DEF SyscallInv
<1>5. \A d \in Callers : IF at'[d] \in Holding
                           THEN object'[d] \in Objects /\ objects'[object'[d]] \in Syscalls!Incomplete
                           ELSE object'[d] = Nothing
    <2> TAKE d \in Callers
    <2>1. CASE d = c
        BY <1>1, <2>1 DEF SyscallInv, Holding
    <2>2. CASE d # c
        BY <1>1, <1>4, <2>2 DEF SyscallInv
    <2> QED BY <2>1, <2>2
<1>6. \A d, e \in Callers : object'[d] \in Objects /\ object'[d] = object'[e] => d = e
    BY <1>1, SyscallAssumption DEF SyscallInv
<1>7. \A p \in Objects : objects'[p] \in Syscalls!Incomplete => p \in abandoned \/ \E d \in Callers : object'[d] = p
    <2> SUFFICES ASSUME NEW p \in Objects, objects'[p] \in Syscalls!Incomplete, p \notin abandoned
                 PROVE  \E d \in Callers : object'[d] = p
        OBVIOUS
    <2>1. p # object[c] /\ objects[p] \in Syscalls!Incomplete
        BY <1>2 DEF SyscallInv
    <2>2. PICK d \in Callers : object[d] = p
        BY <2>1 DEF SyscallInv
    <2> QED BY <1>1, <2>1, <2>2 DEF SyscallInv
<1>8. \A d \in Callers : answer[d] \in Objects => answer[d] # object[c]
    BY <1>2 DEF SyscallInv, Syscalls!Incomplete, Syscalls!Complete
<1>9. \A d \in Callers : answer'[d] \in Objects => objects'[answer'[d]] \in Syscalls!Complete
    <2> TAKE d \in Callers
    <2>1. CASE d = c
        BY <1>1, <1>2, <2>1, SyscallAssumption DEF SyscallInv
    <2>2. CASE d # c
        BY <1>1, <1>8, <2>2 DEF SyscallInv
    <2> QED BY <2>1, <2>2
<1>10. \A p \in abandoned : objects'[p] \in Syscalls!Incomplete /\ \A d \in Callers : object'[d] # p
    BY <1>1, <1>2, SyscallAssumption DEF SyscallInv
<1> QED BY <1>3, <1>5, <1>6, <1>7, <1>9, <1>10 DEF SyscallInv

\* Who is thrown out of a handler leaves what it holds as it is, in nobody's hands.
LEMMA ThrowInv ==
    ASSUME SyscallInv, NEW c \in Callers, Syscalls!Throw(c)
    PROVE  SyscallInv'
<1>1. /\ at' = [at EXCEPT ![c] = "idle"] /\ object' = [object EXCEPT ![c] = Nothing]
      /\ answer' = [answer EXCEPT ![c] = "error"]
      /\ abandoned' = abandoned \cup ({object[c]} \ {Nothing})
      /\ UNCHANGED <<objects, syscallTable>>
    BY DEF Syscalls!Throw, Syscalls!Fail, Syscalls!Return
<1>2. "idle" \notin Holding
    BY DEF Holding
<1>3. object[c] # Nothing => object[c] \in Objects /\ objects[object[c]] \in Syscalls!Incomplete
    BY DEF SyscallInv
<1>4. /\ DOMAIN at' = Callers /\ object' \in [Callers -> Objects \cup {Nothing}]
      /\ DOMAIN answer' = Callers /\ abandoned' \subseteq Objects
    BY <1>1, <1>3 DEF SyscallInv
<1>5. \A d \in Callers : d # c => at'[d] = at[d] /\ object'[d] = object[d] /\ answer'[d] = answer[d]
    BY <1>1 DEF SyscallInv
<1>6. at'[c] = "idle" /\ object'[c] = Nothing /\ answer'[c] = "error"
    BY <1>1 DEF SyscallInv
<1>7. \A d \in Callers : IF at'[d] \in Holding
                           THEN object'[d] \in Objects /\ objects'[object'[d]] \in Syscalls!Incomplete
                           ELSE object'[d] = Nothing
    BY <1>1, <1>2, <1>5, <1>6 DEF SyscallInv
<1>8. \A d, e \in Callers : object'[d] \in Objects /\ object'[d] = object'[e] => d = e
    BY <1>5, <1>6, SyscallAssumption DEF SyscallInv
<1>9. \A o \in Objects : objects'[o] \in Syscalls!Incomplete =>
         o \in abandoned' \/ \E d \in Callers : object'[d] = o
    <2> SUFFICES ASSUME NEW o \in Objects, objects'[o] \in Syscalls!Incomplete, o \notin abandoned'
                 PROVE  \E d \in Callers : object'[d] = o
        OBVIOUS
    <2>1. PICK d \in Callers : object[d] = o
        BY <1>1 DEF SyscallInv
    <2>2. d # c
        BY <1>1, <2>1, SyscallAssumption
    <2> QED BY <1>5, <2>1, <2>2
<1>10. \A o \in abandoned' : objects'[o] \in Syscalls!Incomplete /\ \A d \in Callers : object'[d] # o
    <2> TAKE o \in abandoned'
    <2>1. objects'[o] \in Syscalls!Incomplete /\ o \in Objects
        BY <1>1, <1>3, <1>4 DEF SyscallInv
    <2>2. \A d \in Callers : d # c => object[d] # o
        BY <1>1, <1>3 DEF SyscallInv
    <2> QED BY <1>5, <1>6, <2>1, <2>2, SyscallAssumption
<1>11. \A d \in Callers : answer'[d] \in Objects => objects'[answer'[d]] \in Syscalls!Complete
    BY <1>1, <1>5, <1>6, SyscallAssumption DEF SyscallInv
<1> QED BY <1>1, <1>4, <1>7, <1>8, <1>9, <1>10, <1>11 DEF SyscallInv

\* The outcomes of a handler's steps.
LEMMA FailInv ==
    ASSUME SyscallInv, NEW c \in Callers, at[c] \notin Holding, UNCHANGED <<syscallTable, abandoned>>,
           \/ Syscalls!Fail(c)
           \/ Syscalls!Return(c, "done") /\ UNCHANGED objects
           \/ \E next : next \notin Holding /\ Syscalls!Goto(c, next) /\ UNCHANGED <<object, objects, answer>>
    PROVE  SyscallInv'
<1>1. CASE \E next : next \notin Holding /\ Syscalls!Goto(c, next) /\ UNCHANGED <<object, objects, answer>>
    <2>1. PICK next : /\ next \notin Holding /\ at' = [at EXCEPT ![c] = next]
                      /\ UNCHANGED <<object, objects, answer>>
        BY <1>1 DEF Syscalls!Goto
    <2> QED BY <2>1, MoveInv
<1>2. CASE Syscalls!Fail(c) \/ (Syscalls!Return(c, "done") /\ UNCHANGED objects)
    <2>1. /\ "idle" \notin Holding /\ at' = [at EXCEPT ![c] = "idle"] /\ objects' = objects
          /\ \E what \in {"error", "done"} : /\ object' = [object EXCEPT ![c] = Nothing]
                                             /\ answer' = [answer EXCEPT ![c] = what]
        BY <1>2 DEF Syscalls!Fail, Syscalls!Return, Holding
    <2> QED BY <2>1, MoveInv
<1> QED BY <1>1, <1>2

\* The object is given back, or done.
LEMMA EndInv ==
    ASSUME SyscallInv, NEW c \in Callers, at[c] \in Holding, UNCHANGED <<syscallTable, abandoned>>,
           Syscalls!Undo(c) \/ \E state \in Syscalls!Complete : Syscalls!Finish(c, state)
    PROVE  SyscallInv'
<1>1. CASE Syscalls!Undo(c)
    BY <1>1, LeaveInv DEF Syscalls!Undo
<1>2. ASSUME NEW state \in Syscalls!Complete, Syscalls!Finish(c, state) PROVE SyscallInv'
    BY <1>2, LeaveInv DEF Syscalls!Finish
<1> QED BY <1>1, <1>2

\* Every step of the handlers keeps the invariant.
LEMMA SyscallSteps == SyscallInv /\ Syscalls!Next => SyscallInv'
<1> SUFFICES ASSUME SyscallInv, Syscalls!Next PROVE SyscallInv'
    OBVIOUS
<1>1. /\ "opened" \in Syscalls!Incomplete /\ "created" \in Syscalls!Incomplete
      /\ "executable" \in Syscalls!Incomplete /\ "allocated" \in Syscalls!Incomplete
      /\ "registered" \in Syscalls!Complete /\ "initialized" \in Syscalls!Complete
      /\ "owned" \in Syscalls!Complete
      /\ "file_register" \in Holding /\ "process_load" \in Holding
      /\ "process_initialize" \in Holding /\ "memory_register" \in Holding
    BY DEF Syscalls!Incomplete, Syscalls!Complete, Holding
<1>2. /\ "file" \notin Holding /\ "file_open" \notin Holding /\ "process" \notin Holding
      /\ "process_create" \notin Holding /\ "memory" \notin Holding
      /\ "memory_allocate" \notin Holding /\ "network" \notin Holding /\ "idle" \notin Holding
    BY DEF Holding
<1>3. ASSUME NEW c \in Callers, UNCHANGED <<syscallTable, abandoned>>, Syscalls!HandleFileOpen(c) PROVE SyscallInv'
    BY <1>1, <1>2, <1>3, FailInv, MakeInv, EndInv DEF Syscalls!HandleFileOpen
<1>4. ASSUME NEW c \in Callers, UNCHANGED <<syscallTable, abandoned>>, Syscalls!HandleProcessCreate(c) PROVE SyscallInv'
    BY <1>1, <1>2, <1>4, FailInv, MakeInv, BecomesInv, EndInv DEF Syscalls!HandleProcessCreate
<1>5. ASSUME NEW c \in Callers, UNCHANGED <<syscallTable, abandoned>>, Syscalls!HandleMemoryAlloc(c) PROVE SyscallInv'
    BY <1>1, <1>2, <1>5, FailInv, MakeInv, EndInv DEF Syscalls!HandleMemoryAlloc
<1>6. ASSUME NEW c \in Callers, UNCHANGED <<syscallTable, abandoned>>, Syscalls!HandleNetworkIO(c) PROVE SyscallInv'
    BY <1>2, <1>6, FailInv DEF Syscalls!HandleNetworkIO
<1>7. ASSUME NEW c \in Callers, Syscalls!Handle(c) PROVE SyscallInv'
    BY <1>3, <1>4, <1>5, <1>6, <1>7 DEF Syscalls!Handle
<1>8. ASSUME NEW c \in Callers, NEW n \in Numbers, Syscalls!HandleSyscall(c, n) PROVE SyscallInv'
    <2>1. at[c] \notin Holding /\ UNCHANGED <<syscallTable, abandoned>>
        BY <1>2, <1>8 DEF Syscalls!HandleSyscall
    <2>2. n \in DOMAIN syscallTable => syscallTable[n] \notin Holding
        BY DEF SyscallInv, Syscalls!Handlers, Holding
    <2>3. \/ Syscalls!Fail(c)
          \/ \E next : next \notin Holding /\ Syscalls!Goto(c, next) /\ UNCHANGED <<object, objects, answer>>
        BY <1>8, <2>2 DEF Syscalls!HandleSyscall
    <2> QED BY <2>1, <2>3, FailInv
<1>9. ASSUME NEW n \in Numbers, NEW h \in Syscalls!Handlers, Syscalls!RegisterSyscall(n, h)
      PROVE  SyscallInv'
    <2>1. /\ UNCHANGED <<at, object, objects, answer, abandoned>>
          /\ syscallTable' = [m \in DOMAIN syscallTable \cup {n} |-> IF n = m THEN h ELSE syscallTable[m]]
        BY <1>9 DEF Syscalls!RegisterSyscall
    <2>2. \A m \in DOMAIN syscallTable' : syscallTable'[m] \in Syscalls!Handlers
        BY <2>1 DEF SyscallInv
    <2> QED BY <2>1, <2>2 DEF SyscallInv
<1> QED BY <1>7, <1>8, <1>9, ThrowInv DEF Syscalls!Next
-----------------------------------------------------------------------------
\* The services together.

\* What each service sees of a step of the system.
PartSteps ==
    /\ Booting!Next        \/ UNCHANGED bootVars
    /\ Sched!Next          \/ UNCHANGED schedulerVars
    /\ Schedulers!TaskNext \/ UNCHANGED taskVars
    /\ Schedulers!GameNext \/ UNCHANGED gameVars
    /\ ProcMgr!Next        \/ UNCHANGED processVars
    /\ Syscalls!Next       \/ UNCHANGED syscallVars
    /\ Security!Next       \/ UNCHANGED securityVars
    /\ Network!Next        \/ UNCHANGED networkVars
    /\ Metrics!Next        \/ UNCHANGED metricsVars
    /\ Profiles!Next       \/ UNCHANGED profileVars
    /\ Power!Next          \/ UNCHANGED powerVars
    /\ Audio!Next          \/ UNCHANGED audioVars
    /\ Irqs!Next           \/ UNCHANGED interruptVars

\* A step is one of the service in focus, and leaves the others alone.
LEMMA StepsOfParts == [Next]_vars => PartSteps
<1> SUFFICES ASSUME [Next]_vars PROVE PartSteps
    OBVIOUS
<1>1. CASE UNCHANGED vars
    BY <1>1 DEF vars, PartSteps
<1>2. CASE BootStep
    BY <1>2 DEF BootStep, OthersStill, PartSteps
<1>3. CASE SchedulerStep
    BY <1>3 DEF SchedulerStep, OthersStill, PartSteps
<1>4. CASE TaskStep
    BY <1>4 DEF TaskStep, OthersStill, PartSteps
<1>5. CASE ProcessStep
    BY <1>5 DEF ProcessStep, OthersStill, PartSteps
<1>6. CASE GameStep
    BY <1>6 DEF GameStep, OthersStill, PartSteps
<1>7. CASE SyscallStep
    BY <1>7 DEF SyscallStep, OthersStill, PartSteps
<1>8. CASE SecurityStep
    BY <1>8 DEF SecurityStep, OthersStill, PartSteps
<1>9. CASE NetworkStep
    BY <1>9 DEF NetworkStep, OthersStill, PartSteps
<1>10. CASE MetricsStep
    BY <1>10 DEF MetricsStep, OthersStill, PartSteps
<1>11. CASE ProfileStep
    BY <1>11 DEF ProfileStep, OthersStill, PartSteps
<1>12. CASE PowerStep
    BY <1>12 DEF PowerStep, OthersStill, PartSteps
<1>13. CASE AudioStep
    BY <1>13 DEF AudioStep, OthersStill, PartSteps
<1>14. CASE InterruptStep
    BY <1>14 DEF InterruptStep, OthersStill, PartSteps
<1> QED BY <1>1, <1>2, <1>3, <1>4, <1>5, <1>6, <1>7, <1>8, <1>9, <1>10, <1>11, <1>12, <1>13,
           <1>14 DEF Next

\* The inductive invariant: that of each service.
IndInv ==
    /\ BootInv /\ SchedulerInv /\ TaskInv /\ GameInv /\ ProcMgr!VisibleIsSetUp
    /\ SyscallInv /\ SecurityInv /\ StreamInv /\ RouteInv /\ MetricsInv
    /\ ProfileInv /\ ReadingInv /\ PowerInv /\ AudioInv /\ InterruptInv

\* Every service starts in its invariant.
LEMMA InitIndInv == Init => IndInv
<1> SUFFICES ASSUME Init PROVE IndInv
    OBVIOUS
<1>1. /\ Booting!Init /\ Sched!Init /\ Schedulers!TaskInit /\ Schedulers!GameInit
      /\ ProcMgr!Init
      /\ Syscalls!Init /\ Security!Init /\ Network!Init /\ Metrics!Init /\ Profiles!Init
      /\ Power!Init /\ Audio!Init /\ Irqs!Init
    BY DEF Init, Schedulers!Init
<1> QED BY <1>1, BootInit, SchedulerInit, TaskInit, GameInitInv, ProcessInit, SyscallInit, SecurityInit,
           NetworkInit, MetricsInit, ProfileInit, PowerInit, AudioInit, InterruptInit DEF IndInv

\* Every service keeps its invariant, in its own steps and in those of the others.
LEMMA NextIndInv == IndInv /\ [Next]_vars => IndInv'
<1> SUFFICES ASSUME IndInv, [Next]_vars PROVE IndInv'
    OBVIOUS
<1>0. PartSteps
    BY StepsOfParts
<1>1. BootInv'
    <2>1. UNCHANGED bootVars => BootInv'
        BY DEF IndInv, BootInv, Booting!BootOrder, Booting!BootSequence, bootVars
    <2> QED BY <1>0, <2>1, BootSteps DEF IndInv, PartSteps
<1>2. SchedulerInv'
    <2>1. UNCHANGED schedulerVars =>
              UNCHANGED <<processes, threads, call, created, terminated, overrun>>
        BY DEF schedulerVars
    <2> QED BY <1>0, <2>1, SchedulerSteps, SchedulerStill DEF IndInv, PartSteps
<1>3. TaskInv'
    BY <1>0, TaskSteps, TaskStill DEF IndInv, PartSteps
<1>4. ProcMgr!VisibleIsSetUp'
    BY <1>0, ProcessSteps, ProcessStill DEF IndInv, PartSteps
<1>5. SyscallInv'
    <2>1. UNCHANGED syscallVars => UNCHANGED <<syscallTable, at, object, objects, answer, abandoned>>
        BY DEF syscallVars
    <2> QED BY <1>0, <2>1, SyscallSteps, SyscallStill DEF IndInv, PartSteps
<1>6. SecurityInv'
    <2>1. UNCHANGED securityVars => UNCHANGED <<acls, policies, setting, epoch, lastSet>>
        BY DEF securityVars
    <2> QED BY <1>0, <2>1, SecuritySteps, SecurityStill DEF IndInv, PartSteps
<1>7. StreamInv' /\ RouteInv'
    <2>1. UNCHANGED networkVars =>
              UNCHANGED <<ring, slots, consumed>> /\ UNCHANGED <<routes, addedRoutes>>
        BY DEF networkVars
    <2> QED BY <1>0, <2>1, NetworkSteps, NetworkStill DEF IndInv, PartSteps
<1>8. MetricsInv'
    BY <1>0, MetricsSteps, MetricsStill DEF IndInv, PartSteps, metricsVars
<1>9. ProfileInv' /\ ReadingInv'
    <2>1. UNCHANGED profileVars =>
              UNCHANGED <<path, pc, held>> /\ UNCHANGED <<start, times, last, since, utilization, share>>
        BY DEF profileVars
    <2> QED BY <1>0, <2>1, ProfileSteps, ProfileStill DEF IndInv, PartSteps
<1>10. PowerInv'
    <2>1. UNCHANGED powerVars => UNCHANGED <<currentState, changes, mode, settings, outermost>>
        BY DEF powerVars
    <2> QED BY <1>0, <2>1, PowerSteps, PowerStill DEF IndInv, PartSteps
<1>11. AudioInv'
    BY <1>0, AudioSteps, AudioStill DEF IndInv, PartSteps
<1>12. InterruptInv'
    BY <1>0, InterruptSteps, InterruptStill DEF IndInv, PartSteps
<1>13. GameInv'
    <2>1. UNCHANGED gameVars => UNCHANGED <<activeGames, handles, alive, walk>>
        BY DEF gameVars
    <2>2. UNCHANGED gameVars => GameInv'
        BY <2>1 DEF IndInv, GameInv
    <2> QED BY <1>0, <2>2, GameSteps DEF IndInv, PartSteps
<1> QED BY <1>1, <1>2, <1>3, <1>4, <1>5, <1>6, <1>7, <1>8, <1>9, <1>10, <1>11, <1>12, <1>13 DEF IndInv

\* The invariants of the services hold throughout.
LEMMA Invariance == Spec => []IndInv
BY InitIndInv, NextIndInv, PTL DEF Spec

\* Interrupts come on only when there is something to take them, an interrupt is lost
\* only while interrupts come on, and what was stopped is at rest.
THEOREM OrderKept == Spec => []SwitchedInOrder
<1>1. IndInv => SwitchedInOrder
    BY DEF IndInv, BootInv, InterruptInv, AudioInv, SwitchedInOrder
<1> QED BY <1>1, Invariance, PTL

\* Though the timer cuts calls off at any point, system calls fail or are thrown out of
\* half way and profiles give up in the middle, whatever is made is complete or accounted
\* for; a system call leaves an object half made only when it is thrown out of.
THEOREM MadeIsAlwaysAccounted == Spec => []MadeIsAccounted
<1>1. IndInv => MadeIsAccounted
    <2>1. SchedulerInv => Sched!PidsUnique
        <3> SUFFICES ASSUME SchedulerInv, NEW j \in DOMAIN processes, NEW k \in DOMAIN processes
                     PROVE  /\ processes[j].pid = processes[k].pid => j = k
                            /\ \E i \in DOMAIN threads : threads[i].owner = processes[j].id
            BY DEF Sched!PidsUnique
        <3>1. processes[j].pid = j /\ processes[k].pid = k
            BY DEF SchedulerInv, CallInv
        <3>2. \E i \in DOMAIN threads : threads[i].owner = processes[j].id
            BY DEF SchedulerInv, SlotsInv, Ids
        <3> QED BY <3>1, <3>2
    <2> QED BY <2>1, NothingLeftBehind, ReferencesHeld
            DEF IndInv, TaskInv, InterruptInv, AudioInv, MadeIsAccounted
<1> QED BY <1>1, Invariance, PTL

\* Policies and samples were stored in the present life of their service, and of each
\* thread at most one was tested for in an earlier life; permissions are those last set,
\* shares of time those of the time that passed though the counters wrap, settings those
\* of the outermost change, bytes and routes the latest.
THEOREM AnswersAlwaysOfThisLife == Spec => []AnswersAreOfThisLife
<1>1. IndInv => AnswersAreOfThisLife
    BY EntryDecides, SettingsFollow, StreamsFlow, RoutesFollow
    DEF IndInv, SecurityInv, PolicyInv, MetricsInv, ReadingInv, AnswersAreOfThisLife
<1> QED BY <1>1, Invariance, PTL

\* Every handle opened for a game is recorded in an entry, whatever scans and
\* optimizations repeat, and the statistics of a metric lie between its samples.
THEOREM CountsAlwaysAgree == Spec => []CountsAgree
<1>1. IndInv => CountsAgree
    BY HandlesFollow, StatsFollow DEF IndInv, MetricsInv, CountsAgree
<1> QED BY <1>1, Invariance, PTL

\* A process whose terminateProcess returned has no active thread left, so the timer
\* has nothing of it to choose.
THEOREM TerminatedNeverLoaded == Spec => []TerminatedStaysDown
<1>1. IndInv => TerminatedStaysDown
    BY DEF IndInv, SchedulerInv, SlotsInv, TerminatedStaysDown, Sched!TerminatedStaysDown, Sched!NextThread
<1> QED BY <1>1, Invariance, PTL

-----------------------------------------------------------------------------
\* The types of boot.

\* Memory is added by the boot stub's entry first and by main's at most once more, and
\* the kernel's sequence runs while one step of the stub's is done.
BootTypes ==
    /\ Booting!TypeOK
    /\ entry = "none" /\ "kernel" \notin done => kernelStep = 0 /\ \A r \in Regions : added[r] = 0
    /\ entry = "init" => /\ step <= 3 => \A r \in Regions : added[r] = 0
                         /\ step <= 7 => kernelStep <= 12
    /\ entry \in {"none", "init"} \/ (entry = "main" /\ step \in {0, 1})
           => \A r \in Regions : added[r] <= 1

\* The kernel has 13 steps, the boot stub 9.
LEMMA SequenceLengths ==
    /\ Len(Booting!KernelSequence) = 13
    /\ \A k \in 0 .. 8 : /\ Booting!BootSequence[k + 1] = "memory" <=> k = 3
                         /\ Booting!BootSequence[k + 1] = "kernel" <=> k = 7
                         /\ Booting!BootSequence[k + 1] = "sti" <=> k = 8
<1>1. Len(Booting!KernelSequence) = 13
    BY DEF Booting!KernelSequence
<1>2. ASSUME NEW k \in 0 .. 8
      PROVE  /\ Booting!BootSequence[k + 1] = "memory" <=> k = 3
             /\ Booting!BootSequence[k + 1] = "kernel" <=> k = 7
             /\ Booting!BootSequence[k + 1] = "sti" <=> k = 8
    <2>1. k \in {0, 1, 2, 3, 4, 5, 6, 7, 8}
        OBVIOUS
    <2> QED BY <2>1 DEF Booting!BootSequence
<1> QED BY <1>1, <1>2

\* No memory is known at the start.
LEMMA BootTypesInit == Booting!Init => BootTypes
BY SequenceLengths, BootAssumption, BoundsAssumption DEF BootTypes, Booting!Init, Booting!TypeOK

\* Memory is added once by each of the two that detect it, and the counters of the bus
\* and of the sequences stay within theirs.
LEMMA BootTypesStep == BootInv /\ BootTypes /\ Booting!Next => BootTypes'
<1> SUFFICES ASSUME BootInv, BootTypes, Booting!Next PROVE BootTypes'
    OBVIOUS
<1> USE DEF BootTypes, Booting!TypeOK, Booting!hardwareVars
<1>1. /\ BusLimit \in Nat /\ Buses \in Nat \ {0} /\ Buses <= BusLimit /\ MaxDevices \in Nat
      /\ Len(Booting!KernelSequence) = 13
    BY BootAssumption, BoundsAssumption, SequenceLengths
<1>2. CASE Booting!EnterInit
    BY <1>2 DEF Booting!EnterInit
<1>3. CASE Booting!BootStep
    <2> DEFINE s == Booting!BootSequence[step + 1]
    <2>1. /\ entry = "init" /\ s # "kernel" /\ step' = step + 1 /\ step \in 0 .. 8
          /\ IF s = "memory" THEN Booting!BootMemory ELSE done' = done \cup {s} /\ UNCHANGED added
          /\ entry' = IF s = "sti" THEN "none" ELSE entry
          /\ UNCHANGED <<kernelStep, currentStage, bus, devices>>
        BY <1>3 DEF Booting!BootStep, BootInv
    <2>2. (s = "memory" <=> step = 3) /\ step # 7 /\ (s = "sti" <=> step = 8)
        BY <2>1, SequenceLengths
    <2>3. /\ added' \in [Regions -> 0 .. 2]
          /\ step' <= 3 => \A r \in Regions : added'[r] = 0
          /\ \A r \in Regions : added'[r] <= 1
        <3>1. CASE step = 3
            <4>1. added' = added \/ \E listed \in {{}, Regions} : added' = Booting!Counted(listed)
                BY <2>1, <2>2, <3>1 DEF Booting!BootMemory
            <4>2. \A r \in Regions : added[r] = 0
                BY <2>1, <3>1
            <4>3. added' \in [Regions -> 0 .. 2] /\ \A r \in Regions : added'[r] <= 1
                BY <4>1, <4>2 DEF Booting!Counted
            <4> QED BY <2>1, <3>1, <4>3
        <3>2. CASE step # 3
            BY <2>1, <2>2, <3>2
        <3> QED BY <3>1, <3>2
    <2>4. step = 8 => "kernel" \in done'
        <3> SUFFICES ASSUME step = 8 PROVE "kernel" \in done'
            OBVIOUS
        <3>1. Booting!BootSequence[8] \in done
            BY <2>1 DEF BootInv
        <3>2. Booting!BootSequence[8] = "kernel"
            BY DEF Booting!BootSequence
        <3>3. done' = done \cup {s}
            BY <2>1, <2>2
        <3> QED BY <3>1, <3>2, <3>3
    <2>5. step' <= 7 => kernelStep' <= 12
        BY <2>1
    <2> HIDE DEF s
    <2> QED BY <2>1, <2>2, <2>3, <2>4, <2>5
<1>4. CASE Booting!KernelStep
    <2>1. /\ entry = "init" /\ step = 7 /\ kernelStep' = kernelStep + 1
          /\ step' = IF kernelStep' = 13 THEN step + 1 ELSE step
          /\ UNCHANGED <<entry, added, currentStage, bus, devices>>
        BY <1>1, <1>4, SequenceLengths DEF Booting!KernelStep, BootInv
    <2> QED BY <1>1, <2>1
<1>5. CASE Booting!EnterMain
    BY <1>1, <1>5 DEF Booting!EnterMain, Booting!BootScreenThrows, Booting!Initialize
<1>6. CASE Booting!DetectCPU
    BY <1>1, <1>6 DEF Booting!DetectCPU
<1>7. CASE Booting!DetectMemoryCapacity
    <2>1. /\ entry = "main" /\ step = 1 /\ step' = 2 /\ entry' \in {"main", "crashed"}
          /\ added' = added \/ \E listed \in {{}, Regions} : added' = Booting!Counted(listed)
          /\ UNCHANGED <<done, kernelStep, currentStage, bus, devices>>
        BY <1>7 DEF Booting!DetectMemoryCapacity
    <2>2. added' \in [Regions -> 0 .. 2]
        BY <2>1 DEF Booting!Counted
    <2> QED BY <1>1, <2>1, <2>2
<1>8. CASE Booting!ProbeBus
    <2>1. /\ entry = "main" /\ step = 2 /\ entry' \in {"main", "failed"}
          /\ devices' \in {devices, devices + 1} /\ (devices' = devices + 1 => devices # MaxDevices)
          /\ bus' \in {bus, (bus + 1) % Buses}
          /\ UNCHANGED <<step, done, added, kernelStep, currentStage>>
        BY <1>1, <1>8 DEF Booting!ProbeBus, Booting!NextBus
    <2>2. (bus + 1) % Buses \in 0 .. BusLimit
        BY <1>1
    <2> QED BY <1>1, <2>1, <2>2
<1> QED BY <1>2, <1>3, <1>4, <1>5, <1>6, <1>7, <1>8 DEF Booting!Next

-----------------------------------------------------------------------------
\* The types of the scheduler: a process is made when the table has room for it, and nothing else makes one before it
\* is in the table.
SchedulerBounds ==
    /\ Sched!TypeOK
    /\ call.op = "create" => Len(processes) < MaxProcesses

\* There is no process and no slot.
LEMMA SchedulerBoundsInit == Sched!Init => SchedulerBounds
BY BoundsAssumption DEF SchedulerBounds, Sched!Init, Sched!TypeOK, Sched!NoCall

\* The tables grow only while there is room, and what is loaded or terminated was created.
LEMMA SchedulerBoundsStep == SchedulerInv /\ SchedulerBounds /\ Sched!Next => SchedulerBounds'
<1> SUFFICES ASSUME SchedulerInv, SchedulerBounds, Sched!Next PROVE SchedulerBounds'
    OBVIOUS
<1> USE DEF SchedulerBounds, Sched!TypeOK
<1>1. /\ Len(processes) \in Nat /\ Len(threads) \in Nat /\ created \in Nat /\ ~ overrun
      /\ DOMAIN processes = 1 .. Len(processes) /\ DOMAIN threads = 1 .. Len(threads)
      /\ MaxProcesses \in Nat /\ MaxThreads \in Nat
      /\ processes \in Seq(Processes) /\ threads \in Seq(Slots) /\ call \in Calls
    BY Tables, BoundsAssumption DEF SchedulerInv, SchedulerTypes, Sched!Next
<1>2. \A id \in Ids : id \in 1 .. created
    BY Tables DEF SchedulerInv, SchedulerTypes, CallInv, Ids
<1>3. CASE \/ Sched!InitializeInterrupts \/ Sched!ShutdownInterrupts \/ Sched!UnregisterHandler
           \/ \E masked \in BOOLEAN : Sched!MaskIRQ(masked)
           \/ Sched!Initialize \/ Sched!Start \/ Sched!Stop
    BY <1>3 DEF Sched!InitializeInterrupts, Sched!ShutdownInterrupts, Sched!UnregisterHandler,
       Sched!MaskIRQ, Sched!Initialize, Sched!Start, Sched!Stop, Sched!Switch, Sched!historyVars
<1>4. ASSUME NEW priority \in Priorities, Sched!CreateCall(priority) PROVE SchedulerBounds'
    <2> DEFINE slot == [owner |-> 0, isActive |-> FALSE, priority |-> 0]
    <2>1. /\ Len(processes) < MaxProcesses /\ created' = created + 1 /\ processes' = processes
          /\ overrun' = (Len(threads) = MaxThreads)
          /\ threads' = IF overrun' THEN threads ELSE Append(threads, slot)
          /\ UNCHANGED <<schedulerState, tableSize, loaded, terminated>>
        BY <1>4 DEF Sched!CreateCall, Sched!interruptVars
    <2>2. slot.owner = 0 /\ slot \in Slots
        BY DEF Slots
    <2> HIDE DEF slot
    <2>3. /\ Len(threads') <= MaxThreads
          /\ \A i \in DOMAIN threads' : threads'[i].owner \in 0 .. created
        <3>1. CASE overrun'
            BY <2>1, <3>1
        <3>2. CASE ~ overrun'
            <4>0. threads' = Append(threads, slot) /\ Len(threads) # MaxThreads
                BY <2>1, <3>2
            <4>1. threads' = Append(threads, slot) /\ Len(threads) < MaxThreads
                <5>1. Len(threads) <= MaxThreads
                    OBVIOUS
                <5> QED BY <1>1, <4>0, <5>1
            <4>2. /\ Len(threads') = Len(threads) + 1 /\ DOMAIN threads' = 1 .. Len(threads) + 1
                  /\ \A i \in 1 .. Len(threads) : threads'[i] = threads[i]
                  /\ threads'[Len(threads) + 1] = slot
                BY <1>1, <2>2, <4>1, AppendProperties, LenProperties
            <4>3. \A i \in DOMAIN threads' : i \in DOMAIN threads \/ i = Len(threads) + 1
                BY <1>1, <4>2
            <4> QED BY <1>1, <2>2, <4>1, <4>2, <4>3
        <3> QED BY <3>1, <3>2
    <2>4. \A x \in 0 .. created : x \in 0 .. created + 1
        BY <1>1
    <2>5. \A x \in 1 .. created : x \in 1 .. created + 1
        BY <1>1
    <2> QED BY <1>1, <2>1, <2>3, <2>4, <2>5
<1>5. CASE Sched!CreateThread
    <2>1. /\ call.op = "create" /\ UNCHANGED <<processes, schedulerState, tableSize, loaded, terminated, created, call>>
          /\ threads' = [threads EXCEPT ![call.step] =
                     [owner |-> call.id, isActive |-> TRUE, priority |-> call.priority]]
        BY <1>5 DEF Sched!CreateThread, Sched!historyVars, Sched!interruptVars
    <2>2. call.id = created /\ call.step \in DOMAIN threads
        BY <1>1, <2>1 DEF SchedulerInv, CallInv
    <2>3. \A i \in DOMAIN threads' : threads'[i].owner \in 0 .. created
        BY <1>1, <2>1, <2>2
    <2>4. Len(threads') = Len(threads)
        <3>1. [owner |-> call.id, isActive |-> TRUE, priority |-> call.priority] \in Slots
            BY <1>1 DEF Slots, Calls
        <3>2. call.step \in 1 .. Len(threads)
            BY <1>1, <2>2
        <3> QED BY <1>1, <2>1, <3>1, <3>2, ExceptSeq
    <2> QED BY <2>1, <2>3, <2>4
<1>6. CASE Sched!CreateReturn
    <2>1. /\ call.op = "create" /\ UNCHANGED <<threads, schedulerState, tableSize, loaded, terminated, created>>
          /\ processes' = Append(processes, [id |-> call.id, pid |-> call.pid, state |-> "READY"])
          /\ call' = Sched!NoCall
        BY <1>6 DEF Sched!CreateReturn, Sched!historyVars, Sched!interruptVars
    <2>2. [id |-> call.id, pid |-> call.pid, state |-> "READY"] \in Processes
        BY <1>1, <2>1 DEF Processes, Calls, SchedulerInv, CallInv
    <2>3. Len(processes') = Len(processes) + 1
        BY <1>1, <2>1, <2>2, AppendProperties
    <2> QED BY <1>1, <2>1, <2>3 DEF Sched!NoCall
<1>7. ASSUME NEW pid, Sched!TerminateCall(pid) PROVE SchedulerBounds'
    <2>1. PICK j \in DOMAIN processes : processes' = [processes EXCEPT ![j].state = "TERMINATED"]
        BY <1>7 DEF Sched!TerminateCall
    <2>2. /\ UNCHANGED <<threads, schedulerState, tableSize, loaded, terminated, created>>
          /\ call'.op = "terminate"
        BY <1>7 DEF Sched!TerminateCall, Sched!historyVars, Sched!interruptVars, Sched!NoCall
    <2>3. [processes[j] EXCEPT !.state = "TERMINATED"] \in Processes /\ j \in 1 .. Len(processes)
        BY <1>1, Tables DEF Processes, SchedulerInv
    <2>4. Len(processes') = Len(processes)
        <3>1. processes' = [processes EXCEPT ![j] = [processes[j] EXCEPT !.state = "TERMINATED"]]
            BY <2>1
        <3> QED BY <1>1, <2>3, <3>1, ExceptSeq
    <2> QED BY <2>2, <2>4
<1>8. CASE Sched!TerminateReturn
    <2>1. /\ call.op = "terminate" /\ call' = Sched!NoCall /\ terminated' = terminated \cup {call.id}
          /\ threads' = [i \in DOMAIN threads |->
                IF threads[i].owner = call.id THEN [threads[i] EXCEPT !.isActive = FALSE] ELSE threads[i]]
          /\ UNCHANGED <<processes, schedulerState, tableSize, loaded, created>>
        BY <1>8 DEF Sched!TerminateReturn, Sched!interruptVars
    <2>2. call.id \in Ids
        BY <2>1 DEF SchedulerInv, CallInv
    <2>3. \A i \in DOMAIN threads : threads'[i].owner = threads[i].owner
        BY <1>1, <2>1, Tables DEF SchedulerInv, Slots
    <2>4. DOMAIN threads' = 1 .. Len(threads) /\ threads' \in Seq(Slots)
        <3>1. \A i \in DOMAIN threads : threads'[i] \in Slots
            BY <2>1, Tables DEF SchedulerInv, Slots
        <3> QED BY <1>1, <2>1, <3>1
    <2>5. Len(threads') = Len(threads)
        BY <1>1, <2>4, LenProperties
    <2> QED BY <1>1, <1>2, <2>1, <2>2, <2>3, <2>4, <2>5 DEF Sched!NoCall
<1>9. CASE Sched!Timer
    <2>1. /\ \E j \in DOMAIN processes : loaded' = processes[j].id
          /\ call' = Sched!NoCall
          /\ UNCHANGED <<processes, threads, schedulerState, tableSize, created, terminated>>
        BY <1>9 DEF Sched!Timer, Sched!LoadProcess, Sched!interruptVars
    <2>2. loaded' \in 1 .. created
        BY <1>2, <2>1 DEF Ids
    <2> QED BY <2>1, <2>2 DEF Sched!NoCall
<1> QED BY <1>3, <1>4, <1>5, <1>6, <1>7, <1>8, <1>9 DEF Sched!Next

-----------------------------------------------------------------------------
\* The types of the task scheduler: the queue is a bag of what may be queued.
TaskTypes ==
    /\ readyQueue \in [DOMAIN readyQueue -> Nat \ {0}] /\ DOMAIN readyQueue \subseteq Pids \cup Tasks
    /\ running \in BOOLEAN /\ dropped \subseteq Tasks
    /\ currentProcess \in {NoProcess} \cup Pids \cup Tasks

\* Nothing is queued at the start.
LEMMA TaskTypesInit == Schedulers!TaskInit => TaskTypes
BY DEF TaskTypes, Schedulers!TaskInit, Schedulers!EmptyBag, Schedulers!SetToBag

\* What is pushed is queued once more; what is taken out is queued once less, or not at all.
LEMMA TaskTypesStep == TaskInv /\ TaskTypes /\ Schedulers!TaskNext => TaskTypes'
<1> SUFFICES ASSUME TaskInv, TaskTypes, Schedulers!TaskNext PROVE TaskTypes'
    OBVIOUS
<1>1. ASSUME NEW element \in Pids \cup Tasks, Schedulers!Push(element)
      PROVE  /\ readyQueue' \in [DOMAIN readyQueue' -> Nat \ {0}]
             /\ DOMAIN readyQueue' \subseteq Pids \cup Tasks
    BY <1>1 DEF TaskTypes, Schedulers!Push, Schedulers!BagAdd
<1>2. ASSUME NEW task \in Tasks, Schedulers!ScheduleTask(task) PROVE TaskTypes'
    BY <1>1, <1>2 DEF TaskTypes, Schedulers!ScheduleTask
<1>3. ASSUME NEW pid \in Pids, Schedulers!AddProcess(pid) PROVE TaskTypes'
    BY <1>1, <1>3 DEF TaskTypes, Schedulers!AddProcess
<1>4. ASSUME NEW pid \in Pids, Schedulers!RemoveProcess(pid) PROVE TaskTypes'
    <2>1. /\ readyQueue' = [p \in procs \ {pid} |-> 1] /\ procs \subseteq Pids
          /\ dropped' = dropped \cup (DOMAIN readyQueue \cap Tasks)
          /\ UNCHANGED <<currentProcess, running>>
        BY <1>4 DEF TaskInv, Schedulers!RemoveProcess, Schedulers!Rebuilt
    <2> QED BY <2>1 DEF TaskTypes
<1>5. CASE \E on \in BOOLEAN : Schedulers!SetRunning(on)
    BY <1>5 DEF TaskTypes, Schedulers!SetRunning
<1>6. CASE Schedulers!Yield
    <2>1. currentProcess \in Pids \cup Tasks /\ Schedulers!Push(currentProcess)
          /\ UNCHANGED <<currentProcess, running, dropped>>
        BY <1>6 DEF TaskTypes, Schedulers!Yield
    <2> QED BY <1>1, <2>1 DEF TaskTypes
<1>7. CASE Schedulers!SwitchContext
    <2>1. PICK top \in DOMAIN readyQueue :
            readyQueue' = Schedulers!BagRemove(readyQueue, top) /\ currentProcess' = top
        BY <1>7 DEF Schedulers!SwitchContext
    <2>2. UNCHANGED <<running, dropped>>
        BY <1>7 DEF Schedulers!SwitchContext
    <2>3. /\ readyQueue' \in [DOMAIN readyQueue' -> Nat \ {0}]
          /\ DOMAIN readyQueue' \subseteq DOMAIN readyQueue
        <3>1. CASE readyQueue[top] = 1
            BY <2>1, <3>1 DEF TaskTypes, Schedulers!BagRemove
        <3>2. CASE readyQueue[top] # 1
            BY <2>1, <3>2 DEF TaskTypes, Schedulers!BagRemove
        <3> QED BY <3>1, <3>2
    <2> QED BY <2>1, <2>2, <2>3 DEF TaskTypes
<1> QED BY <1>2, <1>3, <1>4, <1>5, <1>6, <1>7 DEF Schedulers!TaskNext

-----------------------------------------------------------------------------
\* The types of the game scheduler.
GameTypes ==
    /\ boosted \subseteq Opened /\ class \in [Opened -> Schedulers!Classes]
    /\ \A p \in Opened : handles[p] <= MaxHandles
    /\ Len(activeGames) <= MaxEntries

\* At first every process is of the normal class.
LEMMA GameTypesInit == Schedulers!GameInit => GameTypes
<1> SUFFICES ASSUME Schedulers!GameInit PROVE GameTypes
    OBVIOUS
<1>1. /\ class = [p \in Opened |-> "NORMAL"] /\ boosted = {} /\ activeGames = <<>>
      /\ handles = [p \in Opened |-> 0]
    BY DEF Schedulers!GameInit, Opened
<1>2. MaxHandles \in Nat /\ MaxEntries \in Nat
    BY BoundsAssumption
<1> QED BY <1>1, <1>2 DEF GameTypes, Schedulers!Classes

\* Handles are opened only while there is room for them, an entry at a time.
LEMMA GameTypesStep == GameInv /\ GameTypes /\ Schedulers!GameNext => GameTypes'
<1> SUFFICES ASSUME GameInv, GameTypes, Schedulers!GameNext PROVE GameTypes'
    OBVIOUS
<1>0. /\ MaxHandles \in Nat /\ MaxEntries \in Nat /\ Len(activeGames) \in Nat
      /\ DOMAIN activeGames = 1 .. Len(activeGames) /\ handles \in [Opened -> Nat]
      /\ \A k \in 1 .. Len(activeGames) : activeGames[k] \in GameEntry
      /\ alive \subseteq Opened /\ Opened = Games \cup Others
    BY BoundsAssumption, EntriesCounted DEF GameInv, Opened, Schedulers!AllProcesses
<1>1. CASE Schedulers!ScanForGames
    <2> DEFINE order == Schedulers!SetToSeq(alive \cap Games)
    <2>1. PICK opened \in SUBSET Games :
        /\ Len(activeGames) + Len(order) <= MaxEntries
        /\ \A p \in Games : handles[p] < MaxHandles
        /\ activeGames' = activeGames \o [k \in DOMAIN order |->
              [game |-> order[k], open |-> order[k] \in opened, priority |-> "NORMAL", threads |-> <<>>]]
        /\ handles' = [p \in Opened |->
              IF p \in alive \cap Games \cap opened THEN handles[p] + 1 ELSE handles[p]]
        BY <1>1 DEF Schedulers!ScanForGames, Opened
    <2>2. UNCHANGED <<class, boosted>>
        BY <1>1 DEF Schedulers!ScanForGames
    <2>3. \A p \in Opened : handles'[p] <= MaxHandles
        BY <1>0, <2>1 DEF GameTypes
    <2>4. Len(activeGames') <= MaxEntries
        <3> DEFINE A == alive \cap Games
        <3>1. IsFiniteSet(A)
            <4>1. A \subseteq Games \cup Others
                BY <1>0
            <4> HIDE DEF A
            <4> QED BY <4>1, GamesAssumption, FS_Subset
        <3>2. order \in Seq(A) /\ Len(order) \in Nat
            <4> HIDE DEF A
            <4>1. Schedulers!SetToSeq(A) \in Seq(A) /\ Len(Schedulers!SetToSeq(A)) \in Nat
                BY <3>1, ListOfSet, FS_CardinalityType DEF Lists
            <4> QED BY <4>1 DEF A
        <3> DEFINE new == [k \in DOMAIN order |->
              [game |-> order[k], open |-> order[k] \in opened, priority |-> "NORMAL", threads |-> <<>>]]
        <3> HIDE DEF order
        <3>3. DOMAIN order = 1 .. Len(order) /\ \A k \in 1 .. Len(order) : order[k] \in Games
            BY <3>2, ElementOfSeq, LenProperties
        <3>4. new \in [1 .. Len(order) -> GameEntry]
            <4>1. "NORMAL" \in Schedulers!Classes /\ <<>> \in Seq(Opened)
                BY EmptySeq DEF Schedulers!Classes
            <4> QED BY <3>3, <4>1 DEF GameEntry
        <3> HIDE DEF new
        <3>5. new \in Seq(GameEntry) /\ Len(new) = Len(order)
            BY <3>2, <3>4, SeqDef, LenProperties
        <3>6. Len(activeGames \o new) = Len(activeGames) + Len(order)
            <4>1. activeGames \in Seq(GameEntry)
                BY DEF GameInv
            <4>2. Len(activeGames \o new) = Len(activeGames) + Len(new)
                BY <3>5, <4>1, ConcatProperties
            <4> QED BY <3>5, <4>2
        <3>7. activeGames' = activeGames \o new
            BY <2>1 DEF new
        <3> QED BY <1>0, <2>1, <3>2, <3>6, <3>7
    <2> QED BY <2>2, <2>3, <2>4 DEF GameTypes
<1>2. CASE Schedulers!OptimizeForGaming
    <2> DEFINE n == Len(activeGames)
    <2>0. PICK opened \in [DOMAIN activeGames -> SUBSET alive] :
          /\ activeGames' = [k \in DOMAIN activeGames |->
                [activeGames[k] EXCEPT !.priority = "HIGH",
                                       !.threads = @ \o Schedulers!ThreadsKept(activeGames[k], opened[k])]]
          /\ boosted' = boosted \cup UNION {opened[k] : k \in DOMAIN activeGames}
          /\ handles' = [p \in Schedulers!AllProcesses |->
                handles[p] + Schedulers!Cardinality({k \in DOMAIN activeGames : p \in opened[k]})]
        BY <1>2 DEF Schedulers!OptimizeForGaming
    <2>1. /\ opened \in [1 .. n -> SUBSET alive] /\ DOMAIN activeGames' = 1 .. n
          /\ boosted' = boosted \cup UNION {opened[k] : k \in 1 .. n}
          /\ handles' = [p \in Opened |-> handles[p] + Schedulers!Cardinality({k \in 1 .. n : p \in opened[k]})]
        BY <1>0, <2>0 DEF Opened
    <2>2. /\ \A p \in Opened : handles[p] + n <= MaxHandles
          /\ class' = [p \in Opened |->
                IF \E k \in DOMAIN activeGames : activeGames[k].game = p /\ activeGames[k].open
                  THEN "HIGH" ELSE class[p]]
        BY <1>2 DEF Schedulers!OptimizeForGaming, Opened
    <2>3. ASSUME NEW p \in Opened PROVE handles'[p] <= MaxHandles
        <3> DEFINE K == {k \in 1 .. n : p \in opened[k]}
        <3>1. \A S : Schedulers!Cardinality(S) = Cardinality(S)
            BY DEF Schedulers!Cardinality, Cardinality
        <3>2. handles'[p] = handles[p] + Schedulers!Cardinality(K)
            BY <2>1
        <3>3. Cardinality(K) \in Nat /\ Cardinality(K) <= n
            <4>0. n \in Nat
                BY <1>0
            <4> HIDE DEF n
            <4>1. IsFiniteSet(1 .. n) /\ Cardinality(1 .. n) = n
                BY <4>0, FS_Interval
            <4> QED BY <4>0, <4>1, FS_Subset, FS_CardinalityType
        <3> HIDE DEF K, n
        <3> QED BY <1>0, <2>2, <3>1, <3>2, <3>3 DEF n
    <2>4. class' \in [Opened -> Schedulers!Classes]
        BY <2>2 DEF GameTypes, Schedulers!Classes
    <2>5. Len(activeGames') = Len(activeGames)
        <3>1. GameInv'
            BY <1>2, OptimizeInv
        <3> QED BY <1>0, <2>1, <3>1, LenProperties DEF GameInv
    <2>6. boosted' \subseteq boosted \cup Opened
        BY <1>0, <2>1
    <2> QED BY <1>0, <2>3, <2>4, <2>5, <2>6 DEF GameTypes
<1>3. CASE Schedulers!MonitorEntry
    <2>1. walk \in 1 .. Len(activeGames) /\ activeGames[walk] \in GameEntry
        BY <1>0, <1>3 DEF GameInv, Schedulers!MonitorEntry
    <2>2. PICK byTime \in {activeGames[walk].priority, "HIGH", "ABOVE_NORMAL"} :
            /\ activeGames' = [activeGames EXCEPT ![walk].priority = byTime]
            /\ \/ class' = [class EXCEPT ![activeGames[walk].game] = "HIGH_BACKGROUND"]
               \/ class' = [class EXCEPT ![activeGames[walk].game] = byTime]
               \/ class' = class
        BY <1>3 DEF Schedulers!MonitorEntry
    <2>3. UNCHANGED <<boosted, handles>>
        BY <1>3 DEF Schedulers!MonitorEntry
    <2>4. byTime \in Schedulers!Classes /\ "HIGH_BACKGROUND" \in Schedulers!Classes
        BY <2>1, <2>2 DEF GameEntry, Schedulers!Classes
    <2>5. class' \in [Opened -> Schedulers!Classes]
        BY <2>2, <2>4 DEF GameTypes
    <2>6. Len(activeGames') = Len(activeGames)
        <3>1. GameInv'
            BY <1>3, MonitorInv
        <3>2. DOMAIN activeGames' = 1 .. Len(activeGames)
            BY <1>0, <2>2
        <3> QED BY <1>0, <3>1, <3>2, LenProperties DEF GameInv
    <2> QED BY <1>0, <2>3, <2>5, <2>6 DEF GameTypes
<1>4. CASE Schedulers!MonitorBegin \/ Schedulers!OptimizeForGame \/ Schedulers!GetGameThreads
           \/ \E p \in Schedulers!AllProcesses : Schedulers!Exit(p)
    BY <1>4 DEF GameTypes, Schedulers!MonitorBegin, Schedulers!OptimizeForGame,
       Schedulers!GetGameThreads, Schedulers!Exit
<1> QED BY <1>1, <1>2, <1>3, <1>4 DEF Schedulers!GameNext

-----------------------------------------------------------------------------
\* The types of the process manager.
ProcessTypes == ProcMgr!TypeOK /\ baseNext \in Nat

\* No process is made.
LEMMA ProcessTypesInit == ProcMgr!Init => ProcessTypes
BY BoundsAssumption DEF ProcessTypes, ProcMgr!Init, ProcMgr!TypeOK

\* Pids are given out while there are some left.
LEMMA ProcessTypesStep == ProcessTypes /\ ProcMgr!Next => ProcessTypes'
<1> SUFFICES ASSUME ProcessTypes, ProcMgr!Next PROVE ProcessTypes'
    OBVIOUS
<1> USE DEF ProcessTypes, ProcMgr!TypeOK, ProcMgr!derivedVars, ProcMgr!baseVars
<1>0. MaxPid \in Nat
    BY BoundsAssumption
<1>1. ASSUME NEW c \in Creators, ProcMgr!CreateCall(c) PROVE ProcessTypes'
    <2>1. /\ nextPID \in 1 .. MaxPid /\ processMutex' = c /\ nextPID' = nextPID + 1
          /\ creating' = [creating EXCEPT ![c] = nextPID]
          /\ UNCHANGED <<setUp, visible, metrics, basePIDs, baseNext, poolJobs>>
        BY <1>0, <1>1 DEF ProcMgr!CreateCall
    <2>2. creating' \in [Creators -> 0 .. MaxPid]
        BY <1>0, <2>1
    <2> QED BY <1>0, <2>1, <2>2
<1>2. ASSUME NEW c \in Creators, NEW section \in ProcMgr!Sections, ProcMgr!SetUpSection(c, section)
      PROVE  ProcessTypes'
    BY <1>0, <1>2 DEF ProcMgr!SetUpSection
<1>3. ASSUME NEW c \in Creators, ProcMgr!Emplace(c) PROVE ProcessTypes'
    BY <1>0, <1>3 DEF ProcMgr!Emplace
<1>4. ASSUME NEW c \in Creators, ProcMgr!CreateReturn(c) PROVE ProcessTypes'
    <2>1. /\ creating[c] \in visible /\ metrics' = metrics \cup {creating[c]}
          /\ creating' = [creating EXCEPT ![c] = 0] /\ processMutex' = "free"
          /\ UNCHANGED <<nextPID, setUp, visible, basePIDs, baseNext, poolJobs>>
        BY <1>4 DEF ProcMgr!CreateReturn
    <2>2. creating' \in [Creators -> 0 .. MaxPid]
        BY <1>0, <2>1
    <2> QED BY <1>0, <2>1, <2>2
<1>5. CASE ProcMgr!BaseCreate
    BY <1>0, <1>5 DEF ProcMgr!BaseCreate
<1>6. ASSUME NEW pid \in 0 .. MaxPid,
             ProcMgr!BaseTerminate(pid) \/ ProcMgr!Schedule(pid) \/ ProcMgr!ExecuteProcess(pid)
      PROVE  ProcessTypes'
    BY <1>0, <1>6 DEF ProcMgr!BaseTerminate, ProcMgr!Schedule, ProcMgr!ExecuteProcess
<1> QED BY <1>1, <1>2, <1>3, <1>4, <1>5, <1>6 DEF ProcMgr!Next

-----------------------------------------------------------------------------
\* The types of system calls.
SyscallTypes == Syscalls!TypeOK

\* At first nothing is made and every caller is done.
LEMMA SyscallTypesInit == Syscalls!Init => SyscallTypes
<1> SUFFICES ASSUME Syscalls!Init PROVE SyscallTypes
    OBVIOUS
<1>1. /\ syscallTable = <<"file", "process", "memory", "network">>
      /\ object = [c \in Callers |-> Nothing]
      /\ objects = [o \in Objects |-> "none"] /\ answer = [c \in Callers |-> "done"]
      /\ abandoned = {}
    BY DEF Syscalls!Init
<1>2. /\ DOMAIN syscallTable = 1 .. 4
      /\ \A n \in DOMAIN syscallTable : syscallTable[n] \in Syscalls!Handlers
    BY <1>1 DEF Syscalls!Handlers
<1> QED BY <1>1, <1>2 DEF SyscallTypes, Syscalls!TypeOK

\* What a caller answers with is an error, nothing, or the object in its hands.
LEMMA AnswerTypes ==
    ASSUME SyscallTypes, NEW c \in Callers, NEW what \in Objects \cup {"error", "done"},
           Syscalls!Return(c, what)
    PROVE  /\ object' \in [Callers -> Objects \cup {Nothing}]
           /\ answer' \in [Callers -> Objects \cup {"error", "done"}]
BY DEF SyscallTypes, Syscalls!TypeOK, Syscalls!Return

\* Whatever a handler does, its object is in one of the states it passes through.
LEMMA HandlerTypes ==
    ASSUME SyscallTypes, SyscallInv, NEW c \in Callers,
           UNCHANGED <<syscallTable, abandoned>>,
           \/ \E next : Syscalls!Goto(c, next) /\ UNCHANGED <<object, objects, answer>>
           \/ Syscalls!Fail(c)
           \/ \E state \in Syscalls!Incomplete : \E next : Syscalls!Make(c, state, next)
           \/ \E state \in Syscalls!Incomplete : \E next : Syscalls!Becomes(c, state, next)
           \/ at[c] \in Holding /\ \E state \in Syscalls!Complete : Syscalls!Finish(c, state)
           \/ Syscalls!Undo(c)
           \/ Syscalls!Return(c, "done") /\ UNCHANGED objects
    PROVE  SyscallTypes'
<1> DEFINE States3 == {"none"} \cup Syscalls!Incomplete \cup Syscalls!Complete
<1> HIDE DEF States3
<1>0. /\ objects \in [Objects -> States3]
      /\ DOMAIN syscallTable \subseteq Numbers \cup 1 .. 4
      /\ \A n \in DOMAIN syscallTable : syscallTable[n] \in Syscalls!Handlers
      /\ object \in [Callers -> Objects \cup {Nothing}]
      /\ answer \in [Callers -> Objects \cup {"error", "done"}] /\ abandoned \subseteq Objects
      /\ "none" \in States3 /\ Syscalls!Incomplete \subseteq States3 /\ Syscalls!Complete \subseteq States3
    BY DEF SyscallTypes, Syscalls!TypeOK, States3
<1>1. /\ objects' \in [Objects -> States3]
      /\ object' \in [Callers -> Objects \cup {Nothing}]
      /\ answer' \in [Callers -> Objects \cup {"error", "done"}]
      => SyscallTypes'
    BY <1>0 DEF SyscallTypes, Syscalls!TypeOK, States3
<1>2. CASE \E next : Syscalls!Goto(c, next) /\ UNCHANGED <<object, objects, answer>>
    BY <1>0, <1>1, <1>2
<1>3. CASE Syscalls!Fail(c)
    BY <1>0, <1>1, <1>3, AnswerTypes DEF Syscalls!Fail
<1>4. CASE \E state \in Syscalls!Incomplete : \E next : Syscalls!Make(c, state, next)
    BY <1>0, <1>1, <1>4 DEF Syscalls!Make
<1>5. CASE \E state \in Syscalls!Incomplete : \E next : Syscalls!Becomes(c, state, next)
    BY <1>0, <1>1, <1>5 DEF Syscalls!Becomes
<1>6. CASE at[c] \in Holding /\ \E state \in Syscalls!Complete : Syscalls!Finish(c, state)
    <2>1. object[c] \in Objects
        BY <1>6 DEF SyscallInv
    <2> QED BY <1>0, <1>1, <1>6, <2>1, AnswerTypes DEF Syscalls!Finish
<1>7. CASE Syscalls!Undo(c)
    BY <1>0, <1>1, <1>7, AnswerTypes DEF Syscalls!Undo
<1>8. CASE Syscalls!Return(c, "done") /\ UNCHANGED objects
    BY <1>0, <1>1, <1>8, AnswerTypes
<1> QED BY <1>2, <1>3, <1>4, <1>5, <1>6, <1>7, <1>8

\* Handlers are of the table, and the table is given handlers only.
LEMMA SyscallTypesStep == SyscallInv /\ SyscallTypes /\ Syscalls!Next => SyscallTypes'
<1> SUFFICES ASSUME SyscallInv, SyscallTypes, Syscalls!Next PROVE SyscallTypes'
    OBVIOUS
<1>0. /\ {"opened", "created", "executable", "allocated"} = Syscalls!Incomplete
      /\ {"registered", "initialized", "owned"} = Syscalls!Complete
      /\ {"file_register", "process_load", "process_initialize", "memory_register"} = Holding
    BY DEF Syscalls!Incomplete, Syscalls!Complete, Holding
<1>1. ASSUME NEW c \in Callers, Syscalls!Handle(c) PROVE SyscallTypes'
    <2>0. UNCHANGED <<syscallTable, abandoned>>
        BY <1>1 DEF Syscalls!Handle
    <2>1. CASE Syscalls!HandleFileOpen(c)
        BY <1>0, <2>0, <2>1, HandlerTypes DEF Syscalls!HandleFileOpen
    <2>2. CASE Syscalls!HandleProcessCreate(c)
        BY <1>0, <2>0, <2>2, HandlerTypes DEF Syscalls!HandleProcessCreate
    <2>3. CASE Syscalls!HandleMemoryAlloc(c)
        BY <1>0, <2>0, <2>3, HandlerTypes DEF Syscalls!HandleMemoryAlloc
    <2>4. CASE Syscalls!HandleNetworkIO(c)
        BY <2>0, <2>4, HandlerTypes DEF Syscalls!HandleNetworkIO
    <2> QED BY <1>1, <2>1, <2>2, <2>3, <2>4 DEF Syscalls!Handle
<1>2. ASSUME NEW c \in Callers, NEW n \in Numbers, Syscalls!HandleSyscall(c, n) PROVE SyscallTypes'
    BY <1>2, HandlerTypes DEF Syscalls!HandleSyscall
<1>3. ASSUME NEW n \in Numbers, NEW h \in Syscalls!Handlers, Syscalls!RegisterSyscall(n, h)
      PROVE  SyscallTypes'
    BY <1>3 DEF SyscallTypes, Syscalls!TypeOK, Syscalls!RegisterSyscall
<1>4. ASSUME NEW c \in Callers, Syscalls!Throw(c) PROVE SyscallTypes'
    <2>1. Syscalls!Return(c, "error") /\ UNCHANGED <<objects, syscallTable>>
        BY <1>4 DEF Syscalls!Throw, Syscalls!Fail
    <2>2. object[c] \in Objects \cup {Nothing} /\ abandoned' \subseteq abandoned \cup ({object[c]} \ {Nothing})
        BY <1>4 DEF SyscallTypes, Syscalls!TypeOK, Syscalls!Throw
    <2> QED BY <2>1, <2>2, AnswerTypes DEF SyscallTypes, Syscalls!TypeOK
<1> QED BY <1>1, <1>2, <1>3, <1>4 DEF Syscalls!Next

-----------------------------------------------------------------------------
\* A record of the audit trail.
Records == [user : Users \cup {Wildcard}, success : BOOLEAN]

\* The types of the security manager.
SecurityTypes == Security!TypeOK /\ securityLog \in Nat /\ auditTrail \in Seq(Records)

\* Policies and settings of a manager with so many lives.
PoliciesOfLives == [tested : 0 .. MaxEpochs, stored : 0 .. MaxEpochs, by : Setters \cup {Wildcard}]
SettingsOfLives == {<<>>} \cup (ProcessIds \X (0 .. MaxEpochs))

\* The absence of a policy is typed as one.
LEMMA NoPolicyOfLife == Security!NoPolicy \in PoliciesOfLives
BY BoundsAssumption DEF Security!NoPolicy, PoliciesOfLives

\* Nothing is set and nothing logged.
LEMMA SecurityTypesInit == Security!Init => SecurityTypes
<1> SUFFICES ASSUME Security!Init PROVE SecurityTypes
    OBVIOUS
<1>1. /\ initialized = FALSE /\ auditTrail = <<>> /\ policies = [p \in ProcessIds |-> Security!NoPolicy]
      /\ securityLog = 0 /\ setting = [s \in Setters |-> <<>>] /\ epoch = 0
    BY DEF Security!Init, Security!NoPolicies
<1>2. MaxEpochs \in Nat /\ MaxAudit \in Nat
    BY BoundsAssumption
<1>3. auditTrail \in Seq(Records) /\ Len(auditTrail) = 0
    BY <1>1, EmptySeq
<1>4. initialized \in BOOLEAN
    BY <1>1
<1>5. /\ policies \in [ProcessIds -> PoliciesOfLives] /\ setting \in [Setters -> SettingsOfLives]
      /\ epoch \in 0 .. MaxEpochs /\ securityLog \in Nat /\ securityLog <= MaxAudit
    BY <1>1, <1>2, NoPolicyOfLife DEF SettingsOfLives
<1>6. Len(auditTrail) <= MaxAudit
    BY <1>2, <1>3
<1> QED BY <1>3, <1>4, <1>5, <1>6 DEF SecurityTypes, Security!TypeOK, PoliciesOfLives, SettingsOfLives

\* A record is added while there is room for it.
LEMMA RecordAdded ==
    ASSUME SecurityTypes, NEW user \in Users \cup {Wildcard}, NEW success \in BOOLEAN,
           Security!LogAuditEvent(user, success)
    PROVE  auditTrail' \in Seq(Records) /\ Len(auditTrail') <= MaxAudit
<1> DEFINE record == [user |-> user, success |-> success]
<1>1. record \in Records
    BY DEF Records
<1>2. Len(auditTrail) < MaxAudit /\ auditTrail' = Append(auditTrail, record)
    BY DEF Security!LogAuditEvent
<1> HIDE DEF record
<1>3. auditTrail' \in Seq(Records) /\ Len(auditTrail') = Len(auditTrail) + 1
    BY <1>1, <1>2, AppendProperties DEF SecurityTypes
<1>4. MaxAudit \in Nat /\ Len(auditTrail) \in Nat
    BY BoundsAssumption, LenProperties DEF SecurityTypes
<1> QED BY <1>2, <1>3, <1>4

\* Policies are stored with the epoch, of which there are so many.
LEMMA SecurityTypesStep == SecurityTypes /\ Security!Next => SecurityTypes'
<1> SUFFICES ASSUME SecurityTypes, Security!Next PROVE SecurityTypes'
    OBVIOUS
<1>0. MaxEpochs \in Nat /\ MaxAudit \in Nat
    BY BoundsAssumption
<1>1. CASE Security!Initialize \/ Security!Shutdown
    <2>1. initialized' \in BOOLEAN
        BY <1>1 DEF Security!Initialize, Security!Shutdown
    <2>2. /\ policies' = [p \in ProcessIds |-> Security!NoPolicy] /\ securityLog' = 0
          /\ \/ epoch < MaxEpochs /\ epoch' = epoch + 1
             \/ epoch' = epoch
          /\ UNCHANGED <<auditTrail, setting>>
        BY <1>1 DEF Security!Initialize, Security!Shutdown, Security!NoPolicies
    <2>3. epoch \in 0 .. MaxEpochs
        BY DEF SecurityTypes, Security!TypeOK
    <2>4. epoch' \in 0 .. MaxEpochs
        BY <1>0, <2>2, <2>3
    <2>5. policies' \in [ProcessIds -> PoliciesOfLives] /\ securityLog' \in Nat /\ securityLog' <= MaxAudit
        BY <1>0, <2>2, NoPolicyOfLife
    <2> QED BY <2>1, <2>2, <2>4, <2>5 DEF SecurityTypes, Security!TypeOK, PoliciesOfLives
<1>2. ASSUME NEW r \in Resources, NEW w \in Security!Whos, NEW p \in SUBSET Permissions,
             Security!SetPermissions(r, w, p)
      PROVE  SecurityTypes'
    <2>1. Security!LogAuditEvent(w[1], TRUE) /\ UNCHANGED <<initialized, policies, securityLog, setting, epoch>>
        BY <1>2 DEF Security!SetPermissions
    <2>2. auditTrail' \in Seq(Records) /\ Len(auditTrail') <= MaxAudit
        BY <2>1, RecordAdded DEF Security!Whos
    <2> QED BY <2>1, <2>2 DEF SecurityTypes, Security!TypeOK
<1>3. ASSUME NEW r \in Resources, NEW w \in Users \X Groups, NEW q \in Requests, Security!CheckAccess(r, w, q)
      PROVE  SecurityTypes'
    <2>1. /\ Security!LogAuditEvent(w[1], Security!Granted(r, w, q)) \/ UNCHANGED auditTrail
          /\ UNCHANGED <<initialized, policies, securityLog, setting, epoch>>
        BY <1>3 DEF Security!CheckAccess
    <2>2. Security!Granted(r, w, q) \in BOOLEAN /\ w[1] \in Users \cup {Wildcard}
        BY DEF Security!Granted
    <2>3. auditTrail' \in Seq(Records) /\ Len(auditTrail') <= MaxAudit
        BY <2>1, <2>2, RecordAdded DEF SecurityTypes, Security!TypeOK
    <2> QED BY <2>1, <2>3 DEF SecurityTypes, Security!TypeOK
<1>4. ASSUME NEW s \in Setters, setting' = [setting EXCEPT ![s] = <<>>] PROVE setting' \in [Setters -> SettingsOfLives]
    BY <1>4 DEF SecurityTypes, Security!TypeOK, SettingsOfLives
<1>5. ASSUME NEW s \in Setters, Security!SetPolicyStore(s) PROVE SecurityTypes'
    <2> DEFINE new == [tested |-> setting[s][2], stored |-> epoch, by |-> s]
    <2>1. /\ setting[s] # <<>> /\ policies' = [policies EXCEPT ![setting[s][1]] = new]
          /\ securityLog' = securityLog + 1 /\ securityLog < MaxAudit
          /\ setting' = [setting EXCEPT ![s] = <<>>]
          /\ UNCHANGED <<initialized, auditTrail, epoch>>
        BY <1>5 DEF Security!SetPolicyStore
    <2>2. setting[s] \in ProcessIds \X (0 .. MaxEpochs) /\ epoch \in 0 .. MaxEpochs
        BY <2>1 DEF SecurityTypes, Security!TypeOK
    <2>3. new \in PoliciesOfLives
        BY <2>2 DEF PoliciesOfLives
    <2> HIDE DEF new
    <2>4. policies' \in [ProcessIds -> PoliciesOfLives]
        BY <2>1, <2>3 DEF SecurityTypes, Security!TypeOK, PoliciesOfLives
    <2>5. setting' \in [Setters -> SettingsOfLives]
        BY <1>4, <2>1
    <2> QED BY <1>0, <2>1, <2>4, <2>5 DEF SecurityTypes, Security!TypeOK, PoliciesOfLives, SettingsOfLives
<1>6. ASSUME NEW s \in Setters, Security!SetPolicyRefused(s) PROVE SecurityTypes'
    BY <1>4, <1>6 DEF SecurityTypes, Security!TypeOK, SettingsOfLives, Security!SetPolicyRefused
<1>7. ASSUME NEW s \in Setters, NEW p \in ProcessIds, Security!SetPolicyTest(s, p) PROVE SecurityTypes'
    BY <1>0, <1>7 DEF SecurityTypes, Security!TypeOK, Security!SetPolicyTest
<1> QED BY <1>1, <1>2, <1>3, <1>5, <1>6, <1>7 DEF Security!Next

-----------------------------------------------------------------------------
\* A packet of the queue.
Packets == [id : Nat, fits : BOOLEAN]

\* The types of the network stack: the bytes through both rings are bounded together, and
\* a packet that was received is in the queue, was handled or was dropped.
NetworkTypes ==
    /\ ring["rx"].tail + ring["tx"].tail <= MaxBytes
    /\ txOverflows \in {0, 1} /\ Len(routes) <= MaxRoutes
    /\ received \in Nat /\ received <= MaxPackets
    /\ rxQueue \in Seq(Packets) /\ handled \in Seq(Nat)
    /\ Len(rxQueue) + Len(handled) <= received

\* Everything is empty.
LEMMA NetworkTypesInit == Network!Init => NetworkTypes
<1> SUFFICES ASSUME Network!Init PROVE NetworkTypes
    OBVIOUS
<1>1. /\ ring = [b \in {"rx", "tx"} |-> [head |-> 0, tail |-> 0]] /\ txOverflows = 0
      /\ routes = <<>> /\ rxQueue = <<>> /\ received = 0 /\ handled = <<>>
    BY DEF Network!Init, Network!Rings
<1>2. MaxBytes \in Nat /\ MaxPackets \in Nat /\ MaxRoutes \in Nat
    BY BoundsAssumption, NetworkAssumption
<1>3. rxQueue \in Seq(Packets) /\ handled \in Seq(Nat) /\ Len(<<>>) = 0
    BY <1>1, EmptySeq
<1> QED BY <1>1, <1>2, <1>3 DEF NetworkTypes

\* A byte goes in while there is room, an old route goes before a new one comes, and a
\* packet leaves the queue when it is handled.
LEMMA NetworkTypesStep == StreamInv /\ RouteInv /\ NetworkTypes /\ Network!Next => NetworkTypes'
<1> SUFFICES ASSUME StreamInv, RouteInv, NetworkTypes, Network!Next PROVE NetworkTypes'
    OBVIOUS
<1> USE DEF Network!bufferVars, Network!routeVars, Network!packetVars
<1>0. /\ MaxBytes \in Nat /\ MaxPackets \in Nat /\ MaxRoutes \in Nat \ {0} /\ ChunkSizes \subseteq Nat
      /\ ring \in [{"rx", "tx"} -> [head : Nat, tail : Nat]]
      /\ Len(rxQueue) \in Nat /\ Len(handled) \in Nat /\ Len(routes) \in Nat
    BY BoundsAssumption, NetworkAssumption, LenProperties
       DEF StreamInv, RouteInv, Network!Rings, NetworkTypes
<1>1. ASSUME NEW n \in ChunkSizes, NEW b \in {"rx", "tx"}, Network!Room(n), Network!Put(b, n)
      PROVE  ring'["rx"].tail + ring'["tx"].tail <= MaxBytes
    <2>1. /\ ring' = [ring EXCEPT ![b] = [ring[b] EXCEPT !.tail = @ + n]]
          /\ ring["rx"].tail + ring["tx"].tail + n <= MaxBytes
        BY <1>1 DEF Network!Put, Network!Room
    <2> QED BY <1>0, <2>1
<1>2. ASSUME NEW n, NEW b \in {"rx", "tx"}, Network!Take(b, n)
      PROVE  ring'["rx"].tail + ring'["tx"].tail <= MaxBytes
    <2>1. ring' = [ring EXCEPT ![b] = [ring[b] EXCEPT !.head = @ + n]]
        BY <1>2 DEF Network!Take
    <2>2. ring'["rx"].tail = ring["rx"].tail /\ ring'["tx"].tail = ring["tx"].tail
        BY <1>0, <2>1
    <2> QED BY <2>2 DEF NetworkTypes
<1>3. ASSUME NEW n \in ChunkSizes,
             \/ Network!WriteToTxBuffer(n) \/ Network!ReadFromRxBuffer(n)
             \/ Network!DriverSend(n) \/ Network!DriverReceive(n)
      PROVE  NetworkTypes'
    <2>1. UNCHANGED <<routes, rxQueue, received, handled>> /\ txOverflows' \in {1, txOverflows}
        BY <1>3 DEF Network!WriteToTxBuffer, Network!ReadFromRxBuffer, Network!DriverSend,
           Network!DriverReceive
    <2>2. ring'["rx"].tail + ring'["tx"].tail <= MaxBytes
        BY <1>1, <1>2, <1>3 DEF NetworkTypes, Network!WriteToTxBuffer, Network!ReadFromRxBuffer,
           Network!DriverSend, Network!DriverReceive
    <2> QED BY <2>1, <2>2 DEF NetworkTypes
<1>4. ASSUME NEW d \in Destinations, Network!AddEntry(d) PROVE NetworkTypes'
    <2> DEFINE kept == IF Len(routes) >= MaxRoutes THEN Tail(routes) ELSE routes
    <2>1. /\ routes' = Append(kept, d)
          /\ UNCHANGED <<ring, txOverflows, rxQueue, received, handled>>
        BY <1>4 DEF Network!AddEntry
    <2>2. kept \in Seq(Destinations) /\ Len(kept) < MaxRoutes
        <3>1. CASE Len(routes) >= MaxRoutes
            <4>1. routes # <<>>
                BY <1>0, <3>1, EmptySeq
            <4>2. Tail(routes) \in Seq(Destinations) /\ Len(Tail(routes)) = Len(routes) - 1
                BY <4>1, HeadTailProperties DEF RouteInv
            <4> QED BY <1>0, <3>1, <4>2 DEF NetworkTypes
        <3>2. CASE ~ (Len(routes) >= MaxRoutes)
            BY <1>0, <3>2 DEF RouteInv
        <3> QED BY <3>1, <3>2
    <2> HIDE DEF kept
    <2>3. Len(routes') = Len(kept) + 1 /\ Len(kept) \in Nat
        BY <2>1, <2>2, AppendProperties, LenProperties
    <2>4. Len(routes') <= MaxRoutes
        BY <1>0, <2>2, <2>3
    <2> QED BY <2>1, <2>4 DEF NetworkTypes
<1>5. ASSUME NEW fits \in BOOLEAN, Network!DriverPush(fits) PROVE NetworkTypes'
    <2> DEFINE packet == [id |-> received + 1, fits |-> fits]
    <2>1. /\ received < MaxPackets /\ received' = received + 1 /\ rxQueue' = Append(rxQueue, packet)
          /\ UNCHANGED <<handled, ring, txOverflows, routes>>
        BY <1>5 DEF Network!DriverPush
    <2>2. packet \in Packets
        BY DEF Packets, NetworkTypes
    <2> HIDE DEF packet
    <2>3. rxQueue' \in Seq(Packets) /\ Len(rxQueue') = Len(rxQueue) + 1
        BY <2>1, <2>2, AppendProperties DEF NetworkTypes
    <2> QED BY <1>0, <2>1, <2>3 DEF NetworkTypes
<1>6. CASE Network!ProcessPacket
    <2>1. /\ rxQueue # <<>> /\ rxQueue' = Tail(rxQueue)
          /\ handled' = IF Head(rxQueue).fits THEN Append(handled, Head(rxQueue).id) ELSE handled
          /\ UNCHANGED <<received, ring, txOverflows, routes>>
        BY <1>6 DEF Network!ProcessPacket
    <2>2. /\ Head(rxQueue) \in Packets /\ Tail(rxQueue) \in Seq(Packets)
          /\ Len(Tail(rxQueue)) = Len(rxQueue) - 1
        BY <2>1, HeadTailProperties DEF NetworkTypes
    <2>3. Head(rxQueue).id \in Nat
        BY <2>2 DEF Packets
    <2>4. handled' \in Seq(Nat) /\ Len(handled') \in {Len(handled), Len(handled) + 1}
        BY <2>1, <2>3, AppendProperties DEF NetworkTypes
    <2> QED BY <1>0, <2>1, <2>2, <2>4 DEF NetworkTypes
<1> QED BY <1>3, <1>4, <1>5, <1>6 DEF Network!Next

\* What the types say of each ring.
LEMMA NetworkTypesFollow == StreamInv /\ NetworkTypes => Network!TypeOK
<1> SUFFICES ASSUME StreamInv, NetworkTypes PROVE Network!TypeOK
    OBVIOUS
<1>0. /\ MaxBytes \in Nat /\ ring \in [{"rx", "tx"} -> [head : Nat, tail : Nat]]
      /\ Len(rxQueue) \in Nat /\ Len(handled) \in Nat
      /\ \A b \in {"rx", "tx"} : ring[b].head <= ring[b].tail
    BY BoundsAssumption, LenProperties DEF StreamInv, RingInv, Network!Rings, NetworkTypes
<1>1. ASSUME NEW b \in {"rx", "tx"} PROVE ring[b].head \in 0 .. MaxBytes /\ ring[b].tail \in 0 .. MaxBytes
    <2>1. /\ ring["rx"].tail \in Nat /\ ring["tx"].tail \in Nat /\ ring[b].head \in Nat
          /\ ring["rx"].tail + ring["tx"].tail <= MaxBytes
        BY <1>0 DEF NetworkTypes
    <2>2. ring[b].tail <= MaxBytes /\ ring[b].tail \in Nat
        BY <1>0, <2>1
    <2> QED BY <1>0, <2>1, <2>2
<1>2. Len(handled) <= received
    BY <1>0 DEF NetworkTypes
<1> QED BY <1>1, <1>2 DEF NetworkTypes, Network!TypeOK, Network!Rings

-----------------------------------------------------------------------------
\* The types of the metrics.
MetricsTypes == Metrics!TypeOK

\* Nothing is measured.
LEMMA MetricsTypesInit == Metrics!Init => MetricsTypes
<1> SUFFICES ASSUME Metrics!Init PROVE MetricsTypes
    OBVIOUS
<1>1. /\ metricsInitialized = FALSE /\ mutex = Nobody
      /\ samples = [n \in Names |-> <<>>] /\ timers = {} /\ thresholds = [n \in {} |-> 0]
      /\ metricsEpoch = 0 /\ alerts = {}
    BY DEF Metrics!Init
<1>2. MaxEpochs \in Nat /\ MaxSamples \in Nat
    BY BoundsAssumption
<1>3. metricsInitialized \in BOOLEAN
    BY <1>1
<1>4. \A n \in Names : Len(samples[n]) <= MaxSamples
    BY <1>1, <1>2, EmptySeq
<1>5. timers \subseteq Names /\ DOMAIN thresholds \subseteq Names /\ alerts \subseteq Names
    BY <1>1
<1>6. metricsEpoch \in 0 .. MaxEpochs /\ mutex \in Recorders \cup {Nobody}
    BY <1>1, <1>2
<1> QED BY <1>3, <1>4, <1>5, <1>6 DEF MetricsTypes, Metrics!TypeOK

\* What is recorded or timed has a name, and a metric keeps so many samples.
LEMMA MetricsTypesStep == MetricsInv /\ MetricsTypes /\ Metrics!Next => MetricsTypes'
<1> SUFFICES ASSUME MetricsInv, MetricsTypes, Metrics!Next PROVE MetricsTypes'
    OBVIOUS
<1> USE DEF MetricsTypes, Metrics!TypeOK
<1>0. MaxEpochs \in Nat /\ MaxSamples \in Nat
    BY BoundsAssumption
<1>1. CASE Metrics!Initialize \/ Metrics!Shutdown
    <2>1. metricsInitialized' \in BOOLEAN
        BY <1>1 DEF Metrics!Initialize, Metrics!Shutdown
    <2>2. /\ samples' = [n \in Names |-> <<>>] /\ timers' = {} /\ thresholds' = [n \in {} |-> 0]
          /\ alerts' = {} /\ mutex' = mutex
        BY <1>1 DEF Metrics!Initialize, Metrics!Shutdown, Metrics!Clear
    <2>3. \A n \in Names : Len(samples'[n]) <= MaxSamples
        BY <1>0, <2>2, EmptySeq
    <2>4. metricsEpoch' \in 0 .. MaxEpochs
        <3>1. \/ metricsEpoch < MaxEpochs /\ metricsEpoch' = metricsEpoch + 1
              \/ metricsEpoch' = metricsEpoch
            BY <1>1 DEF Metrics!Initialize, Metrics!Shutdown
        <3>2. metricsEpoch \in 0 .. MaxEpochs
            OBVIOUS
        <3> QED BY <1>0, <3>1, <3>2
    <2>5. timers' \subseteq Names /\ DOMAIN thresholds' \subseteq Names /\ alerts' \subseteq Names
        BY <2>2
    <2>6. mutex' \in Recorders \cup {Nobody}
        BY <2>2
    <2> QED BY <2>1, <2>3, <2>4, <2>5, <2>6
<1>2. ASSUME NEW t \in Recorders, NEW what, Metrics!Enter(t, what) PROVE MetricsTypes'
    BY <1>2 DEF Metrics!Enter
<1>3. ASSUME NEW t \in Recorders, recording[t] # <<>>
      PROVE  /\ recording[t][2] \in Names
             /\ recording[t][1] = "record" => recording[t][3] \in Values
    <2>1. recording[t] \in Recordings
        BY <1>3 DEF MetricsInv
    <2> QED BY <2>1 DEF Recordings
<1>4. ASSUME NEW t \in Recorders, Metrics!RecordMetric(t) PROVE MetricsTypes'
    <2> DEFINE name == recording[t][2]
               more == Append(samples[name], [value |-> recording[t][3], tested |-> recording[t][4],
                                              stored |-> metricsEpoch, by |-> t])
    <2>1. /\ recording[t] # <<>> /\ Len(more) <= MaxSamples /\ samples' = [samples EXCEPT ![name] = more]
          /\ alerts' \in {alerts \cup {name}, alerts \ {name}}
          /\ UNCHANGED <<metricsInitialized, mutex, timers, thresholds, metricsEpoch>>
        BY <1>4 DEF Metrics!RecordMetric
    <2>2. name \in Names
        BY <1>3, <2>1
    <2> HIDE DEF more, name
    <2>3. \A n \in Names : Len(samples'[n]) <= MaxSamples
        BY <2>1 DEF MetricsInv
    <2> QED BY <2>1, <2>2, <2>3
<1>5. ASSUME NEW t \in Recorders, Metrics!StartTimer(t) PROVE MetricsTypes'
    BY <1>3, <1>5 DEF Metrics!StartTimer
<1>6. ASSUME NEW t \in Recorders, Metrics!StopTimer(t) PROVE MetricsTypes'
    BY <1>6 DEF Metrics!StopTimer
<1>7. ASSUME NEW n \in Names, NEW v \in Values, Metrics!SetThreshold(n, v) PROVE MetricsTypes'
    BY <1>7 DEF Metrics!SetThreshold
<1> QED BY <1>1, <1>2, <1>4, <1>5, <1>6, <1>7 DEF Metrics!Next

-----------------------------------------------------------------------------
\* The types of the game profiles; where each function stands is in their invariant.
ProfileTypes ==
    /\ priorityClass \in {"normal", "high"} /\ thread \in {"running", "terminated"}
    /\ applied \in Nat /\ applied <= MaxApplied

\* No profile was applied.
LEMMA ProfileTypesInit == Profiles!Init => ProfileTypes
BY BoundsAssumption DEF ProfileTypes, Profiles!Init

\* A profile is applied while the bound allows it.
LEMMA ProfileTypesStep == ProfileTypes /\ Profiles!Next => ProfileTypes'
<1> SUFFICES ASSUME ProfileTypes, Profiles!Next PROVE ProfileTypes'
    OBVIOUS
<1>0. MaxApplied \in Nat
    BY BoundsAssumption
<1>1. CASE Profiles!ApplyProfile
    BY <1>0, <1>1 DEF ProfileTypes, Profiles!ApplyProfile
<1>2. CASE Profiles!Step
    <2>1. \E next : Profiles!Goto(next)
        BY <1>2 DEF Profiles!Step
    <2>2. priorityClass' \in {"high", priorityClass}
        BY <2>1 DEF Profiles!Goto
    <2>3. UNCHANGED <<thread, applied>>
        BY <1>2 DEF Profiles!Step
    <2> QED BY <2>2, <2>3 DEF ProfileTypes
<1>3. CASE Profiles!Destroy
    BY <1>3 DEF ProfileTypes, Profiles!Destroy
<1>4. CASE \/ Profiles!InitializeProfiles \/ Profiles!GetCPUUtilization
           \/ \E kind \in DOMAIN times : Profiles!Tick(kind)
    BY <1>4 DEF ProfileTypes, Profiles!InitializeProfiles, Profiles!GetCPUUtilization, Profiles!Tick
<1> QED BY <1>1, <1>2, <1>3, <1>4 DEF Profiles!Next

-----------------------------------------------------------------------------
\* The types of the power manager.
PowerTypes ==
    /\ {mode, settings} \subseteq States \cup {Power!Normal}
    /\ observers \in Seq(Observers) /\ Len(changes) <= MaxNesting

\* All is normal, and nobody is told of anything.
LEMMA PowerTypesInit == Power!Init => PowerTypes
<1> SUFFICES ASSUME Power!Init PROVE PowerTypes
    OBVIOUS
<1>1. mode = Power!Normal /\ settings = Power!Normal /\ observers = <<>> /\ changes = <<>>
    BY DEF Power!Init
<1> QED BY <1>1, BoundsAssumption, EmptySeq DEF PowerTypes

\* Mode and settings are those of a change, and changes begin while the bound allows it.
LEMMA PowerTypesStep == PowerInv /\ PowerTypes /\ Power!Next => PowerTypes'
<1> SUFFICES ASSUME PowerInv, PowerTypes, Power!Next PROVE PowerTypes'
    OBVIOUS
<1>0. /\ MaxNesting \in Nat /\ Len(changes) \in Nat /\ DOMAIN changes = 1 .. Len(changes)
      /\ \A i \in 1 .. Len(changes) : changes[i] \in Changes
      /\ changes # <<>> => Len(changes) # 0
    BY BoundsAssumption, LenProperties, ElementOfSeq, EmptySeq DEF PowerInv
<1>1. ASSUME NEW state \in States, Power!HandlePowerStateChange(state) PROVE PowerTypes'
    <2> DEFINE new == [previous |-> currentState, new |-> state, next |-> 1]
    <2>1. /\ Len(changes) < MaxNesting /\ changes' = Append(changes, new)
          /\ UNCHANGED <<observers, mode, settings>>
        BY <1>1 DEF Power!HandlePowerStateChange
    <2>2. new \in Changes
        BY DEF PowerInv, Changes
    <2> HIDE DEF new
    <2>3. Len(changes') = Len(changes) + 1
        BY <2>1, <2>2, AppendProperties DEF PowerInv
    <2> QED BY <1>0, <2>1, <2>3 DEF PowerTypes
<1>2. CASE Power!Notify
    <2> DEFINE n    == Len(changes)
               told == [changes[n] EXCEPT !.next = @ + 1]
    <2>1. /\ changes # <<>> /\ changes' = [changes EXCEPT ![n] = told]
          /\ UNCHANGED <<observers, mode, settings>>
        BY <1>2 DEF Power!Notify, Power!Last
    <2>2. n \in 1 .. n /\ told \in Changes
        BY <1>0, <2>1 DEF Changes
    <2> HIDE DEF told
    <2>3. Len(changes') = n
        BY <2>1, <2>2, ExceptSeq DEF PowerInv
    <2> QED BY <2>1, <2>3 DEF PowerTypes
<1>3. CASE Power!Finish
    <2>1. /\ changes # <<>> /\ changes' = SubSeq(changes, 1, Len(changes) - 1)
          /\ mode' = changes[Len(changes)].new /\ settings' = changes[Len(changes)].new
          /\ UNCHANGED observers
        BY <1>3 DEF Power!Finish, Power!Last, Power!Front
    <2>2. changes[Len(changes)].new \in States \cup {Power!Normal}
        BY <1>0, <2>1 DEF Changes
    <2>3. Len(changes') <= MaxNesting
        <3>1. Len(changes') = Len(changes) - 1
            BY <1>0, <2>1, SubSeqProperties DEF PowerInv
        <3> QED BY <1>0, <3>1 DEF PowerTypes
    <2> QED BY <2>1, <2>2, <2>3 DEF PowerTypes
<1>4. ASSUME NEW o \in Observers, Power!Register(o) PROVE PowerTypes'
    <2>1. observers' = Append(observers, o) /\ UNCHANGED <<changes, mode, settings>>
        BY <1>4 DEF Power!Register
    <2>2. observers' \in Seq(Observers)
        BY <2>1, AppendProperties DEF PowerTypes
    <2> QED BY <2>1, <2>2 DEF PowerTypes
<1>5. ASSUME NEW o \in Observers, Power!Unregister(o) PROVE PowerTypes'
    <2> DEFINE kept == {k \in DOMAIN observers : observers[k] # o}
               n    == Cardinality(kept)
    <2>1. PICK f \in [1 .. n -> kept] : observers' = [k \in DOMAIN f |-> observers[f[k]]]
        <3>1. PICK f \in [1 .. Power!Cardinality(kept) -> kept] :
                 /\ \A i, j \in DOMAIN f : i < j => f[i] < f[j]
                 /\ observers' = [k \in DOMAIN f |-> observers[f[k]]]
            BY <1>5 DEF Power!Unregister
        <3>2. Power!Cardinality(kept) = n
            BY DEF Power!Cardinality, Cardinality
        <3> QED BY <3>1, <3>2
    <2>2. UNCHANGED <<changes, mode, settings>>
        BY <1>5 DEF Power!Unregister
    <2>3. /\ Len(observers) \in Nat /\ DOMAIN observers = 1 .. Len(observers)
          /\ \A i \in DOMAIN observers : observers[i] \in Observers
        BY LenProperties, ElementOfSeq DEF PowerTypes
    <2>4. n \in Nat
        <3>1. IsFiniteSet(DOMAIN observers)
            BY <2>3, FS_Interval
        <3>2. IsFiniteSet(kept)
            BY <3>1, FS_Subset
        <3> QED BY <3>2, FS_CardinalityType
    <2> HIDE DEF n
    <2>5. observers' \in [1 .. n -> Observers]
        BY <2>1, <2>3
    <2>6. observers' \in Seq(Observers)
        BY <2>4, <2>5, SeqDef
    <2> QED BY <2>2, <2>6 DEF PowerTypes
<1> QED BY <1>1, <1>2, <1>3, <1>4, <1>5 DEF Power!Next

\* What the types say of the power manager.
LEMMA PowerTypesFollow == PowerInv /\ PowerTypes => Power!TypeOK
<1> SUFFICES ASSUME PowerInv, PowerTypes PROVE Power!TypeOK
    OBVIOUS
<1>1. \A k \in DOMAIN observers : observers[k] \in Observers
    BY LenProperties, ElementOfSeq DEF PowerTypes
<1>2. Power!ToSet(observers) \subseteq Observers
    BY <1>1 DEF Power!ToSet
<1> QED BY <1>2 DEF PowerInv, PowerTypes, Power!TypeOK

-----------------------------------------------------------------------------
\* The types of audio and COM; the apartments are in their invariant.
AudioTypes ==
    /\ audioRunning \in BOOLEAN /\ audioThread \in {"none", "waiting", "processing", "ended"}
    /\ ready \subseteq Buffers /\ block \subseteq Buffers
    /\ buffersProcessed = Cardinality(ready)

\* Nothing was processed.
LEMMA AudioTypesInit == Audio!Init => AudioTypes
<1> SUFFICES ASSUME Audio!Init PROVE AudioTypes
    OBVIOUS
<1>1. audioRunning \in BOOLEAN
    BY DEF Audio!Init
<1>2. audioThread = "none" /\ ready = {} /\ block = {} /\ buffersProcessed = 0
    BY DEF Audio!Init
<1> QED BY <1>1, <1>2, FS_EmptySet DEF AudioTypes

\* A buffer is counted when it becomes ready, and stays ready.
LEMMA AudioTypesStep == AudioTypes /\ Audio!Next => AudioTypes'
<1> SUFFICES ASSUME AudioTypes, Audio!Next PROVE AudioTypes'
    OBVIOUS
<1> USE DEF Audio!comVars, Audio!audioVars
<1>1. CASE Audio!StartProcessing \/ Audio!StopProcessing
    <2>1. audioRunning' \in BOOLEAN
        BY <1>1 DEF Audio!StartProcessing, Audio!StopProcessing
    <2>2. audioThread' \in {audioThread, "waiting"} /\ UNCHANGED <<ready, block, buffersProcessed>>
        BY <1>1 DEF Audio!StartProcessing, Audio!StopProcessing
    <2> QED BY <2>1, <2>2 DEF AudioTypes
<1>2. CASE Audio!Joined \/ Audio!Loop \/ Audio!BlockDone
    <2>1. /\ audioThread' \in {"none", "processing", "ended", "waiting"}
          /\ block' \in {block, Buffers, {}} /\ UNCHANGED <<audioRunning, ready, buffersProcessed>>
        BY <1>2 DEF Audio!Joined, Audio!Loop, Audio!BlockDone
    <2> QED BY <2>1 DEF AudioTypes
<1>3. ASSUME NEW b \in Buffers, Audio!ProcessBuffer(b) PROVE AudioTypes'
    <2>1. /\ block' = block \ {b} /\ ready' = ready \cup {b}
          /\ buffersProcessed' = IF b \in ready THEN buffersProcessed ELSE buffersProcessed + 1
          /\ UNCHANGED <<audioRunning, audioThread>>
        BY <1>3 DEF Audio!ProcessBuffer
    <2>2. IsFiniteSet(ready)
        BY BoundsAssumption, FS_Subset DEF AudioTypes
    <2>3. Cardinality(ready \cup {b}) = IF b \in ready THEN Cardinality(ready) ELSE Cardinality(ready) + 1
        BY <2>2, FS_AddElement
    <2>4. buffersProcessed' = Cardinality(ready')
        BY <2>1, <2>3 DEF AudioTypes
    <2> QED BY <2>1, <2>4 DEF AudioTypes
<1>4. ASSUME NEW t \in Threads, Audio!ComInitialize(t) \/ Audio!ComUninitialize(t) PROVE AudioTypes'
    BY <1>4 DEF AudioTypes, Audio!ComInitialize, Audio!ComUninitialize
<1> QED BY <1>1, <1>2, <1>3, <1>4 DEF Audio!Next

\* What the types say of audio and COM.
LEMMA AudioTypesFollow == AudioInv /\ AudioTypes => Audio!TypeOK
<1>1. \A S : Audio!Cardinality(S) = Cardinality(S)
    BY DEF Audio!Cardinality, Cardinality
<1>2. {0, 1} = 0 .. 1
    OBVIOUS
<1> QED BY <1>1, <1>2 DEF AudioInv, AudioTypes, Audio!TypeOK

-----------------------------------------------------------------------------
\* The types of interrupts and drivers.
InterruptTypes == Irqs!TypeOK /\ made \in Nat

\* No interrupt has a handler and no driver is made.
LEMMA InterruptTypesInit == Irqs!Init => InterruptTypes
BY BoundsAssumption DEF InterruptTypes, Irqs!Init, Irqs!TypeOK

\* A driver object is numbered when it is made, and names lead to objects that were made.
LEMMA InterruptTypesStep == InterruptTypes /\ Irqs!Next => InterruptTypes'
<1> SUFFICES ASSUME InterruptTypes, Irqs!Next PROVE InterruptTypes'
    OBVIOUS
<1> USE DEF InterruptTypes, Irqs!TypeOK, Irqs!driverVars, Irqs!interruptVars
<1>0. MaxDrivers \in Nat
    BY BoundsAssumption
<1>1. CASE \/ Irqs!Initialize \/ Irqs!EnableInterrupts \/ Irqs!DisableInterrupts \/ Irqs!Switched
           \/ \E v \in Vectors : Irqs!Interrupt(v)
    BY <1>1 DEF Irqs!Initialize, Irqs!EnableInterrupts, Irqs!DisableInterrupts, Irqs!Switched,
       Irqs!Interrupt
<1>2. ASSUME NEW v \in Vectors, Irqs!RegisterInterruptHandler(v) PROVE InterruptTypes'
    BY <1>2 DEF Irqs!RegisterInterruptHandler
<1>3. ASSUME NEW n \in DriverNames, Irqs!RegisterDriver(n) PROVE InterruptTypes'
    <2>1. /\ made < MaxDrivers /\ made' = made + 1
          /\ UNCHANGED <<idt, isrTable, switching>>
          /\ \/ UNCHANGED <<drivers, up, replaced>>
             \/ /\ drivers' = [drivers EXCEPT ![n] = made']
                /\ up' = up \cup {made'}
                /\ replaced' = replaced \cup ({drivers[n]} \ {0})
        BY <1>3 DEF Irqs!RegisterDriver
    <2>2. made' \in 1 .. MaxDrivers
        BY <1>0, <2>1
    <2>3. {drivers[n]} \ {0} \subseteq 1 .. MaxDrivers
        BY <1>0
    <2> QED BY <1>0, <2>1, <2>2, <2>3
<1>4. ASSUME NEW n \in DriverNames, Irqs!UnregisterDriver(n) PROVE InterruptTypes'
    BY <1>0, <1>4 DEF Irqs!UnregisterDriver
<1>5. CASE Irqs!ShutdownDrivers
    BY <1>0, <1>5 DEF Irqs!ShutdownDrivers
<1> QED BY <1>1, <1>2, <1>3, <1>4, <1>5 DEF Irqs!Next

-----------------------------------------------------------------------------
\* The types of the services together.

\* What is kept beside the invariants for the types.
TypesInv ==
    /\ BootTypes /\ SchedulerBounds /\ TaskTypes /\ GameTypes /\ ProcessTypes /\ SyscallTypes
    /\ SecurityTypes /\ NetworkTypes /\ MetricsTypes /\ ProfileTypes /\ PowerTypes /\ AudioTypes
    /\ InterruptTypes

\* Every service starts in its types.
LEMMA InitTypesInv == Init => TypesInv
<1> SUFFICES ASSUME Init PROVE TypesInv
    OBVIOUS
<1>1. /\ Booting!Init /\ Sched!Init /\ Schedulers!TaskInit /\ Schedulers!GameInit
      /\ ProcMgr!Init
      /\ Syscalls!Init /\ Security!Init /\ Network!Init /\ Metrics!Init /\ Profiles!Init
      /\ Power!Init /\ Audio!Init /\ Irqs!Init
    BY DEF Init, Schedulers!Init
<1> QED BY <1>1, BootTypesInit, SchedulerBoundsInit, TaskTypesInit, GameTypesInit, ProcessTypesInit,
           SyscallTypesInit, SecurityTypesInit, NetworkTypesInit, MetricsTypesInit,
           ProfileTypesInit, PowerTypesInit, AudioTypesInit, InterruptTypesInit DEF TypesInv

\* Every service keeps its types, in its own steps and in those of the others.
LEMMA NextTypesInv == IndInv /\ TypesInv /\ [Next]_vars => TypesInv'
<1> SUFFICES ASSUME IndInv, TypesInv, [Next]_vars PROVE TypesInv'
    OBVIOUS
<1>0. PartSteps
    BY StepsOfParts
<1>1. BootTypes'
    <2>1. UNCHANGED bootVars => BootTypes'
        BY DEF TypesInv, BootTypes, Booting!TypeOK, bootVars
    <2> QED BY <1>0, <2>1, BootTypesStep DEF IndInv, TypesInv, PartSteps
<1>2. SchedulerBounds'
    <2>1. UNCHANGED schedulerVars => SchedulerBounds'
        BY DEF TypesInv, SchedulerBounds, Sched!TypeOK, schedulerVars
    <2> QED BY <1>0, <2>1, SchedulerBoundsStep DEF IndInv, TypesInv, PartSteps
<1>3. TaskTypes'
    <2>1. UNCHANGED taskVars => TaskTypes'
        BY DEF TypesInv, TaskTypes, taskVars
    <2> QED BY <1>0, <2>1, TaskTypesStep DEF IndInv, TypesInv, PartSteps
<1>4. GameTypes'
    <2>1. UNCHANGED gameVars => GameTypes'
        BY DEF TypesInv, GameTypes, gameVars
    <2> QED BY <1>0, <2>1, GameTypesStep DEF IndInv, TypesInv, PartSteps
<1>5. ProcessTypes'
    <2>1. UNCHANGED processVars => ProcessTypes'
        BY DEF TypesInv, ProcessTypes, ProcMgr!TypeOK, processVars
    <2> QED BY <1>0, <2>1, ProcessTypesStep DEF TypesInv, PartSteps
<1>6. SyscallTypes'
    <2>1. UNCHANGED syscallVars => SyscallTypes'
        BY DEF TypesInv, SyscallTypes, Syscalls!TypeOK, syscallVars
    <2> QED BY <1>0, <2>1, SyscallTypesStep DEF IndInv, TypesInv, PartSteps
<1>7. SecurityTypes'
    <2>1. UNCHANGED securityVars => SecurityTypes'
        BY DEF TypesInv, SecurityTypes, Security!TypeOK, securityVars
    <2> QED BY <1>0, <2>1, SecurityTypesStep DEF TypesInv, PartSteps
<1>8. NetworkTypes'
    <2>1. UNCHANGED networkVars => NetworkTypes'
        BY DEF TypesInv, NetworkTypes, networkVars
    <2> QED BY <1>0, <2>1, NetworkTypesStep DEF IndInv, TypesInv, PartSteps
<1>9. MetricsTypes'
    <2>1. UNCHANGED metricsVars => MetricsTypes'
        BY DEF TypesInv, MetricsTypes, Metrics!TypeOK, metricsVars
    <2> QED BY <1>0, <2>1, MetricsTypesStep DEF IndInv, TypesInv, PartSteps
<1>10. ProfileTypes'
    <2>1. UNCHANGED profileVars => ProfileTypes'
        BY DEF TypesInv, ProfileTypes, profileVars
    <2> QED BY <1>0, <2>1, ProfileTypesStep DEF TypesInv, PartSteps
<1>11. PowerTypes'
    <2>1. UNCHANGED powerVars => PowerTypes'
        BY DEF TypesInv, PowerTypes, powerVars
    <2> QED BY <1>0, <2>1, PowerTypesStep DEF IndInv, TypesInv, PartSteps
<1>12. AudioTypes'
    <2>1. UNCHANGED audioVars => AudioTypes'
        BY DEF TypesInv, AudioTypes, audioVars
    <2> QED BY <1>0, <2>1, AudioTypesStep DEF TypesInv, PartSteps
<1>13. InterruptTypes'
    <2>1. UNCHANGED interruptVars => InterruptTypes'
        BY DEF TypesInv, InterruptTypes, Irqs!TypeOK, interruptVars
    <2> QED BY <1>0, <2>1, InterruptTypesStep DEF TypesInv, PartSteps
<1> QED BY <1>1, <1>2, <1>3, <1>4, <1>5, <1>6, <1>7, <1>8, <1>9, <1>10, <1>11, <1>12, <1>13
        DEF TypesInv

\* What the types say of the two schedulers of games.
LEMMA SchedulersTypesFollow == GameInv /\ TaskInv /\ TaskTypes /\ GameTypes => Schedulers!TypeOK
<1> SUFFICES ASSUME GameInv, TaskInv, TaskTypes, GameTypes PROVE Schedulers!TypeOK
    OBVIOUS
<1>1. Schedulers!IsABag(readyQueue)
    <2>1. Nat \ {0} = {n \in Nat : n > 0}
        OBVIOUS
    <2> QED BY <2>1 DEF TaskTypes, Schedulers!IsABag
<1>2. Schedulers!TaskTypeOK
    BY <1>1 DEF TaskInv, TaskTypes, Schedulers!TaskTypeOK
<1>3. /\ Len(activeGames) \in Nat /\ walk \in 0 .. Len(activeGames) /\ Len(activeGames) <= MaxEntries
      /\ MaxEntries \in Nat /\ MaxHandles \in Nat
      /\ handles \in [Opened -> Nat] /\ \A p \in Opened : handles[p] <= MaxHandles
    BY BoundsAssumption, LenProperties DEF GameInv, GameTypes
<1>4. handles \in [Opened -> 0 .. MaxHandles] /\ walk \in 0 .. MaxEntries
    BY <1>3
<1>5. Schedulers!GameTypeOK
    BY <1>3, <1>4 DEF GameInv, GameTypes, Opened, Schedulers!GameTypeOK
<1> QED BY <1>2, <1>5 DEF Schedulers!TypeOK

\* The type invariants of the thirteen services hold throughout: no table, queue, ring or
\* counter leaves its bounds, and what refers to a process, a driver or an object refers
\* to one there is.
THEOREM TypesCorrect == Spec => []TypeOK
<1>1. IndInv /\ TypesInv => TypeOK
    <2> SUFFICES ASSUME IndInv, TypesInv PROVE TypeOK
        OBVIOUS
    <2>1. Booting!TypeOK /\ Sched!TypeOK /\ ProcMgr!TypeOK
        BY DEF TypesInv, BootTypes, SchedulerBounds, ProcessTypes
    <2>2. Schedulers!TypeOK
        BY SchedulersTypesFollow DEF IndInv, TypesInv
    <2>3. Syscalls!TypeOK /\ Security!TypeOK /\ Metrics!TypeOK /\ Irqs!TypeOK
        BY DEF TypesInv, SyscallTypes, SecurityTypes, MetricsTypes, InterruptTypes
    <2>4. Network!TypeOK /\ Power!TypeOK /\ Audio!TypeOK
        BY NetworkTypesFollow, PowerTypesFollow, AudioTypesFollow DEF IndInv, TypesInv
    <2>5. Profiles!TypeOK
        BY DEF IndInv, ProfileInv, TypesInv, ProfileTypes, Profiles!TypeOK
    <2> QED BY <2>1, <2>2, <2>3, <2>4, <2>5 DEF TypeOK
<1> QED BY <1>1, InitIndInv, NextIndInv, InitTypesInv, NextTypesInv, PTL DEF Spec
=============================================================================
