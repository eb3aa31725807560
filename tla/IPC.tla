-------------------------------- MODULE IPC --------------------------------
(***************************************************************************)
(* ipc/ipc_manager.hpp: messages, shared memory and signal handlers, behind *)
(* one IPCManager.  An operation on the message queue or on the segments    *)
(* runs under the mutex of that object from start to end, so it is a step.  *)
(* A signal handler runs under handlerMutex, and may itself call any of the *)
(* operations: a signal is delivered in several steps.                      *)
(***************************************************************************)
EXTENDS Naturals, FiniteSets, Functions

CONSTANTS
    Process,       \* ProcessId; each has one thread
    Name,          \* names of shared segments
    Signal,
    Priority,      \* of messages, a set of numbers
    Address,       \* where mmap may put a segment
    NoProcess,     \* nobody holds the mutex
    MaxMessages,   \* bound: messages ever sent
    MaxHandles     \* bound: uses of shared segments at one time

ASSUME IPCAssumption == /\ Priority \subseteq Nat
                          /\ MaxMessages \in Nat /\ MaxHandles \in Nat
ASSUME ProcessAssumption == NoProcess \notin Process

VARIABLES
    messages,      \* the priority queue, a set of messages
    segments,      \* names -> [address, refCount]
    mapped,        \* addresses that are mapped
    handlers,      \* the signals with a handler
    handlerMutex,  \* the thread that holds it, or NoProcess
    place, signal,    \* each thread's place, and the signal it is at
    sent,          \* history: how many messages were sent
    inbox,         \* history: what each process received
    handles        \* history: the uses of segments processes still have, each with a number

queueVars   == <<messages, sent, inbox>>
segmentVars == <<segments, mapped, handles>>
signalVars  == <<handlers, handlerMutex, place, signal>>
ipcVars == <<queueVars, segmentVars, signalVars>>

Message == [id : 1 .. MaxMessages, receiver : Process, priority : Priority]

IPCInit ==
    /\ messages = {} /\ segments = << >> /\ mapped = {} /\ handlers = {}
    /\ handlerMutex = NoProcess
    /\ place = [p \in Process |-> "idle"]
    /\ signal \in [Process -> Signal]
    /\ sent = 0
    /\ inbox = [p \in Process |-> {}]
    /\ handles = {}

\* A thread makes calls of its own, or out of the signal handler it runs.
Running(p) == place[p] \in {"idle", "handler"}

-----------------------------------------------------------------------------
\* MessageQueue

\* Any process sends to any other.  optimizedSend does not use its dest.
Send(p) ==
    /\ Running(p) /\ sent < MaxMessages
    /\ sent' = sent + 1
    /\ \E to \in Process, priority \in Priority :
           messages' = messages \cup
               {[id |-> sent + 1, receiver |-> to, priority |-> priority]}
    /\ UNCHANGED <<inbox, segmentVars, signalVars>>

\* messages.top(): the highest priority; among equals the heap's choice.
Tops == {m \in messages : \A n \in messages : n.priority <= m.priority}

\* Mutant: whoever asks is given the first message.
ReceiveAny(p) ==
    /\ Running(p)
    /\ \E m \in Tops :
           /\ messages' = messages \ {m}
           /\ inbox' = [inbox EXCEPT ![p] = @ \cup {m}]
    /\ UNCHANGED <<sent, segmentVars, signalVars>>

\* Mutant: the first message is taken off the queue before its receiver is looked at.
ReceivePopped(p) ==
    /\ Running(p)
    /\ \E m \in Tops :
           /\ messages' = messages \ {m}
           /\ IF m.receiver = p
                THEN inbox' = [inbox EXCEPT ![p] = @ \cup {m}]
                ELSE inbox' = inbox
    /\ UNCHANGED <<sent, segmentVars, signalVars>>

\* receive looks at the first message only.
Receive(p) ==
    /\ Running(p)
    /\ \E m \in Tops :
           /\ m.receiver = p
           /\ messages' = messages \ {m}
           /\ inbox' = [inbox EXCEPT ![p] = @ \cup {m}]
    /\ UNCHANGED <<sent, segmentVars, signalVars>>

\* An empty message is the answer, also when one for the caller is behind another's.
ReceiveEmpty(p) ==
    /\ Running(p)
    /\ \/ messages = {}
       \/ \E m \in Tops : m.receiver # p
    /\ UNCHANGED ipcVars

-----------------------------------------------------------------------------
\* SharedMemoryManager.  A process takes back only uses it has.

\* A use that begins gets a number no other has; MaxHandles is how many there are.
FreeIds == (1 .. MaxHandles) \ {h.id : h \in handles}

Use(p, n, a) == [id |-> CHOOSE i \in FreeIds : TRUE, process |-> p, name |-> n, address |-> a]

\* allocate, when there is a segment of that name (whatever its size).
AttachSegment(p) ==
    /\ Running(p) /\ FreeIds # {}
    /\ \E n \in DOMAIN segments :
           /\ segments' = [segments EXCEPT ![n].refCount = @ + 1]
           /\ handles' = handles \cup {Use(p, n, segments[n].address)}
    /\ UNCHANGED <<mapped, queueVars, signalVars>>

\* allocate of a new name.  When mmap fails nothing changes.
CreateSegment(p) ==
    /\ Running(p) /\ FreeIds # {}
    /\ \E n \in Name \ DOMAIN segments, a \in Address \ mapped :
           /\ mapped' = mapped \cup {a}
           /\ segments' = [k \in DOMAIN segments \cup {n} |->
                  IF k = n THEN [address |-> a, refCount |-> 1] ELSE segments[k]]
           /\ handles' = handles \cup {Use(p, n, a)}
    /\ UNCHANGED <<queueVars, signalVars>>

\* Mutant: a segment without uses stays.
DetachedLate(n) ==
    IF segments[n].refCount - 1 < 0
      THEN /\ mapped' = mapped \ {segments[n].address}
           /\ segments' = Restrict(segments, DOMAIN segments \ {n})
      ELSE /\ segments' = [segments EXCEPT ![n].refCount = @ - 1]
           /\ mapped' = mapped

\* Mutant: the segment goes with the first use that ends.
DetachedAtOnce(n) ==
    /\ mapped' = mapped \ {segments[n].address}
    /\ segments' = Restrict(segments, DOMAIN segments \ {n})

\* One use less; the last one unmaps the segment and takes its name away.
Detached(n) ==
    IF segments[n].refCount - 1 <= 0
      THEN /\ mapped' = mapped \ {segments[n].address}
           /\ segments' = Restrict(segments, DOMAIN segments \ {n})
      ELSE /\ segments' = [segments EXCEPT ![n].refCount = @ - 1]
           /\ mapped' = mapped

Deallocate(p) ==
    /\ Running(p)
    /\ \E h \in handles :
           /\ h.process = p
           /\ handles' = handles \ {h}
           /\ IF h.name \in DOMAIN segments THEN Detached(h.name)
                                            ELSE UNCHANGED <<segments, mapped>>
    /\ UNCHANGED <<queueVars, signalVars>>

-----------------------------------------------------------------------------
\* SignalHandler.  Nothing keeps a handler from registering a handler or raising a
\* signal itself; its thread then waits for the mutex it holds, and never goes on.

CallRegister(p) ==
    /\ Running(p)
    /\ place' = [place EXCEPT ![p] = "register"]
    /\ \E s \in Signal : signal' = [signal EXCEPT ![p] = s]
    /\ UNCHANGED <<handlers, handlerMutex, queueVars, segmentVars>>

RegisterHandler(p) ==
    /\ place[p] = "register" /\ handlerMutex = NoProcess
    /\ handlers' = handlers \cup {signal[p]}
    /\ place' = [place EXCEPT ![p] = "idle"]
    /\ UNCHANGED <<signal, handlerMutex, queueVars, segmentVars>>

CallProcess(p) ==
    /\ Running(p)
    /\ place' = [place EXCEPT ![p] = "process"]
    /\ \E s \in Signal : signal' = [signal EXCEPT ![p] = s]
    /\ UNCHANGED <<handlers, handlerMutex, queueVars, segmentVars>>

\* The mutex is taken, the handler found and entered; or there is none.
ProcessSignal(p) ==
    /\ place[p] = "process" /\ handlerMutex = NoProcess
    /\ IF signal[p] \in handlers
         THEN /\ handlerMutex' = p
              /\ place' = [place EXCEPT ![p] = "handler"]
         ELSE /\ handlerMutex' = handlerMutex
              /\ place' = [place EXCEPT ![p] = "idle"]
    /\ UNCHANGED <<signal, handlers, queueVars, segmentVars>>

\* The handler, done with whatever calls it made, returns, and process with it.
HandlerReturns(p) ==
    /\ place[p] = "handler"
    /\ handlerMutex' = NoProcess
    /\ place' = [place EXCEPT ![p] = "idle"]
    /\ UNCHANGED <<signal, handlers, queueVars, segmentVars>>

-----------------------------------------------------------------------------

IPCNext == \E p \in Process :
    \/ Send(p) \/ Receive(p) \/ ReceiveEmpty(p)
    \/ AttachSegment(p) \/ CreateSegment(p) \/ Deallocate(p)
    \/ CallRegister(p) \/ RegisterHandler(p)
    \/ CallProcess(p) \/ ProcessSignal(p) \/ HandlerReturns(p)

IPCSpec == IPCInit /\ [][IPCNext]_ipcVars

-----------------------------------------------------------------------------
\* Properties

IPCTypeOK ==
    /\ messages \subseteq Message
    /\ DOMAIN segments \subseteq Name
    /\ \A n \in DOMAIN segments :
           segments[n] \in [address : Address, refCount : 1 .. MaxHandles]
    /\ mapped \subseteq Address
    /\ handlers \subseteq Signal
    /\ handlerMutex \in Process \cup {NoProcess}
    /\ place \in [Process -> {"idle", "register", "process", "handler"}]
    /\ signal \in [Process -> Signal]
    /\ sent \in 0 .. MaxMessages
    /\ inbox \in [Process -> SUBSET Message]

\* Every message that was sent is in the queue or was received, by the process it
\* was sent to and once, whoever asked the queue in between (32-51).
ReceivedOnceByReceiver ==
    LET received == UNION {inbox[p] : p \in Process} IN
    /\ \A p \in Process : \A m \in inbox[p] : m.receiver = p
    /\ messages \cap received = {}
    /\ {m.id : m \in messages \cup received} = 1 .. sent
    /\ Cardinality(messages \cup received) = sent

\* A segment is there, mapped, at the address its users were given, exactly as long
\* as it has users, whoever created it and in whatever order they let go (91-123).
SegmentsServeHandles ==
    /\ \A h \in handles :
           /\ h.name \in DOMAIN segments
           /\ segments[h.name].address = h.address
    /\ \A n \in DOMAIN segments :
           segments[n].refCount = Cardinality({h \in handles : h.name = n})
    /\ mapped = {segments[n].address : n \in DOMAIN segments}
    /\ Cardinality(mapped) = Cardinality(DOMAIN segments)

\* While every process comes back to asking, a message is received unless another one
\* gets ahead of it: the head of the queue holds up those behind it only until its
\* receiver asks, and a stream of messages of higher priority for ever (32-51).
HeadReceived ==
    (\A p \in Process : []<>Running(p) /\ SF_ipcVars(Receive(p))) =>
        \A i \in 1 .. MaxMessages :
            (\E m \in messages : m.id = i)
                ~> \/ \E p \in Process : \E m \in inbox[p] : m.id = i /\ m.receiver = p
                   \/ \E m, n \in messages : m.id = i /\ n.id # i /\ n.priority >= m.priority
=============================================================================
