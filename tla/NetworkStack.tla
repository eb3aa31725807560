---------------------------- MODULE NetworkStack ----------------------------
(***************************************************************************)
(* network/network_stack.cpp: two ring buffers whose head and tail only    *)
(* count up and are reduced when they index, the list of routes and the    *)
(* queue of packets.  Nothing in the class moves txBuffer.head or          *)
(* rxBuffer.tail, or pushes to rxQueue: that is left to the driver.        *)
(***************************************************************************)
EXTENDS Naturals, Sequences

CONSTANTS
    Capacity,        \* of a ring
    ChunkSizes,      \* bytes in one write or read
    MaxBytes,        \* bound: bytes through the rings
    Destinations, MaxRoutes, MaxAdded,
    MaxPackets       \* bound: packets received

VARIABLES
    ring,            \* [Rings -> [head, tail]]
    slots,           \* [Rings -> Seq of the number of the byte that lies there, 0 for none]
    consumed,        \* [Rings -> Seq of the bytes taken out]
    txOverflows,
    routes, addedRoutes,   \* RouteCache::cache; history: every entry
    rxQueue,         \* Seq of [id, fits]
    received,        \* history: packets the driver put in
    handled          \* history: packets given to their handler

vars == <<ring, slots, consumed, txOverflows, routes, addedRoutes, rxQueue, received, handled>>

Rings      == {"rx", "tx"}
bufferVars == <<ring, slots, consumed, txOverflows>>
routeVars  == <<routes, addedRoutes>>
packetVars == <<rxQueue, received, handled>>

Init ==
    /\ ring = [b \in Rings |-> [head |-> 0, tail |-> 0]]
    /\ slots = [b \in Rings |-> [i \in 1 .. Capacity |-> 0]]
    /\ consumed = [b \in Rings |-> <<>>] /\ txOverflows = 0
    /\ routes = <<>> /\ addedRoutes = <<>>
    /\ rxQueue = <<>> /\ received = 0 /\ handled = <<>>

Room(n) == ring["rx"].tail + ring["tx"].tail + n <= MaxBytes

Used(b) == ring[b].tail - ring[b].head

\* Bytes are numbered by the tail they were written at.
Put(b, n) ==
    /\ slots' = [slots EXCEPT ![b] = [i \in 1 .. Capacity |->
          LET new == {t \in ring[b].tail .. ring[b].tail + n - 1 : t % Capacity = i - 1}
          IN  IF new = {} THEN slots[b][i] ELSE 1 + CHOOSE t \in new : \A u \in new : u <= t]]
    /\ ring' = [ring EXCEPT ![b].tail = @ + n]
    /\ UNCHANGED consumed

Take(b, n) ==
    /\ consumed' = [consumed EXCEPT ![b] =
          @ \o [k \in 1 .. n |-> slots[b][((ring[b].head + k - 1) % Capacity) + 1]]]
    /\ ring' = [ring EXCEPT ![b].head = @ + n]
    /\ UNCHANGED slots

\* Mutant: room is taken for granted.
WriteToTxBufferUnchecked(n) ==
    /\ Room(n)
    /\ Put("tx", n)
    /\ UNCHANGED <<txOverflows, routeVars, packetVars>>

WriteToTxBuffer(n) ==
    /\ Room(n)
    /\ IF Capacity - Used("tx") < n
         THEN txOverflows' = 1 /\ UNCHANGED <<ring, slots, consumed>>    \* counted up
         ELSE Put("tx", n) /\ UNCHANGED txOverflows
    /\ UNCHANGED <<routeVars, packetVars>>

ReadFromRxBuffer(n) ==
    /\ Used("rx") >= n
    /\ Take("rx", n)
    /\ UNCHANGED <<txOverflows, routeVars, packetVars>>

\* The driver's side: it sends what is in the ring, and receives while there is room.
DriverSend(n) ==
    /\ Used("tx") >= n /\ Take("tx", n)
    /\ UNCHANGED <<txOverflows, routeVars, packetVars>>

DriverReceive(n) ==
    /\ Capacity - Used("rx") >= n /\ Room(n)
    /\ Put("rx", n)
    /\ UNCHANGED <<txOverflows, routeVars, packetVars>>

\* Mutant: the list grows one past its limit.
AddEntryLate(destination) ==
    /\ Len(addedRoutes) < MaxAdded
    /\ routes' = Append(IF Len(routes) > MaxRoutes THEN Tail(routes) ELSE routes, destination)
    /\ addedRoutes' = Append(addedRoutes, destination)
    /\ UNCHANGED <<bufferVars, packetVars>>

\* RouteCache::addEntry: the oldest entry goes, whatever it is for.
AddEntry(destination) ==
    /\ Len(addedRoutes) < MaxAdded
    /\ routes' = Append(IF Len(routes) >= MaxRoutes THEN Tail(routes) ELSE routes, destination)
    /\ addedRoutes' = Append(addedRoutes, destination)
    /\ UNCHANGED <<bufferVars, packetVars>>

DriverPush(fits) ==
    /\ received < MaxPackets /\ received' = received + 1
    /\ rxQueue' = Append(rxQueue, [id |-> received + 1, fits |-> fits])
    /\ UNCHANGED <<handled, bufferVars, routeVars>>

\* One turn of processPackets' loop; a packet longer than MTU is dropped.
ProcessPacket ==
    /\ rxQueue # <<>>
    /\ handled' = IF Head(rxQueue).fits THEN Append(handled, Head(rxQueue).id) ELSE handled
    /\ rxQueue' = Tail(rxQueue)
    /\ UNCHANGED <<received, bufferVars, routeVars>>

Next ==
    \/ \E n \in ChunkSizes :
          WriteToTxBuffer(n) \/ ReadFromRxBuffer(n) \/ DriverSend(n) \/ DriverReceive(n)
    \/ \E d \in Destinations : AddEntry(d)
    \/ \E fits \in BOOLEAN : DriverPush(fits)
    \/ ProcessPacket

TypeOK ==
    /\ \A b \in Rings : ring[b].head \in 0 .. MaxBytes /\ ring[b].tail \in 0 .. MaxBytes
    /\ txOverflows \in {0, 1} /\ Len(routes) <= MaxRoutes
    /\ Len(handled) <= received /\ received <= MaxPackets

\* What comes out of a ring is what went in, byte for byte and in order, though the
\* indices wrap and a write may be refused (42-68).
StreamsIntact == \A b \in Rings : \A k \in DOMAIN consumed[b] : consumed[b][k] = k

\* The route list holds the latest entries, and its latest for a destination is the
\* latest that was added for it (81-87).
RoutesAreLatest ==
    LET later == Len(addedRoutes) - Len(routes) + 1 IN
    later > 0 /\ routes = SubSeq(addedRoutes, later, Len(addedRoutes))
=============================================================================
