------------------------------ MODULE IPCProofs ------------------------------
(***************************************************************************)
(* Proofs about IPC, for any processes, segments, addresses, signals and   *)
(* priorities and any number of messages and uses: messages are received   *)
(* once, by their receivers, and a segment lives as long as its uses.      *)
(***************************************************************************)
EXTENDS IPC, FiniteSetTheorems, TLAPS

Received == UNION {inbox[p] : p \in Process}

Users(n) == {h \in handles : h.name = n}

\* Messages and uses can be counted.
MessagesInv == IsFiniteSet(messages \cup Received)

\* Each use has a number of its own, so there are no more of them than numbers.
HandlesInv ==
    /\ handles \subseteq [id : 1 .. MaxHandles, process : Process, name : Name, address : Address]
    /\ \A g, h \in handles : g.id = h.id => g = h

\* Two segments are never at one address: unmapping one leaves the others mapped.
SegmentsInv ==
    /\ IsFiniteSet(DOMAIN segments) /\ IsFiniteSet(mapped)
    /\ \A m, n \in DOMAIN segments : segments[m].address = segments[n].address => m = n

\* The inductive invariant.  refCount, which decides when a segment goes, is the number
\* of its users; that is what keeps the segments of the remaining users in place.
IndInv ==
    /\ IPCTypeOK /\ MessagesInv /\ ReceivedOnceByReceiver
    /\ HandlesInv /\ SegmentsInv /\ SegmentsServeHandles

-----------------------------------------------------------------------------
\* Counting.

\* Uses with numbers of their own can be counted, and there are no more than numbers.
LEMMA UsesCounted ==
    ASSUME NEW H, NEW n, \A h \in H : h.id \in 1 .. MaxHandles,
           \A g, h \in H : g.id = h.id => g = h
    PROVE  /\ IsFiniteSet({h \in H : h.name = n})
           /\ Cardinality({h \in H : h.name = n}) \in 0 .. MaxHandles
<1> DEFINE U == {h \in H : h.name = n}
           f == [h \in U |-> h.id]
<1>1. IsFiniteSet(1 .. MaxHandles) /\ Cardinality(1 .. MaxHandles) = MaxHandles
    BY FS_Interval, IPCAssumption
<1>2. f \in Injection(U, 1 .. MaxHandles)
    BY DEF Injection, IsInjective
<1> HIDE DEF f, U
<1>3. IsFiniteSet(U) /\ Cardinality(U) <= MaxHandles
    BY <1>1, <1>2, FS_Injection
<1>4. Cardinality(U) \in 0 .. MaxHandles
    BY <1>3, FS_CardinalityType, IPCAssumption
<1> QED BY <1>3, <1>4 DEF U

\* The uses of one name can be counted.
LEMMA UsersFinite ==
    ASSUME HandlesInv, NEW n
    PROVE  /\ IsFiniteSet(Users(n))
           /\ Cardinality(Users(n)) \in 0 .. MaxHandles
<1>1. /\ \A h \in handles : h.id \in 1 .. MaxHandles
      /\ \A g, h \in handles : g.id = h.id => g = h
    BY DEF HandlesInv
<1>2. /\ IsFiniteSet({h \in handles : h.name = n})
      /\ Cardinality({h \in handles : h.name = n}) \in 0 .. MaxHandles
    BY <1>1, UsesCounted
<1> QED BY <1>2 DEF Users

\* ... in the next state as well.
LEMMA UsersFiniteNext ==
    ASSUME HandlesInv', NEW n
    PROVE  Cardinality(Users(n)') \in 0 .. MaxHandles
<1>1. /\ \A h \in handles' : h.id \in 1 .. MaxHandles
      /\ \A g, h \in handles' : g.id = h.id => g = h
    BY DEF HandlesInv
<1>2. Cardinality({h \in handles' : h.name = n}) \in 0 .. MaxHandles
    BY <1>1, UsesCounted
<1> QED BY <1>2 DEF Users

\* A use that begins gets a number that is free.
LEMMA FreshUse ==
    ASSUME HandlesInv, FreeIds # {}, NEW p \in Process, NEW n \in Name, NEW a \in Address,
           handles' = handles \cup {Use(p, n, a)}
    PROVE  /\ HandlesInv' /\ Use(p, n, a) \notin handles
           /\ Users(n)' = Users(n) \cup {Use(p, n, a)}
           /\ Cardinality(Users(n)') = Cardinality(Users(n)) + 1
           /\ Cardinality(Users(n)') \in 0 .. MaxHandles
           /\ \A m : m # n => Users(m)' = Users(m)
<1> DEFINE i == CHOOSE i \in FreeIds : TRUE
<1>1. i \in 1 .. MaxHandles /\ \A h \in handles : h.id # i
    BY DEF FreeIds
<1>2. Use(p, n, a) = [id |-> i, process |-> p, name |-> n, address |-> a]
    BY DEF Use
<1> HIDE DEF i
<1>3. HandlesInv'
    BY <1>1, <1>2 DEF HandlesInv
<1>4. Use(p, n, a) \notin handles
    BY <1>1, <1>2
<1>5. Users(n)' = Users(n) \cup {Use(p, n, a)} /\ Use(p, n, a) \notin Users(n)
    BY <1>2, <1>4 DEF Users
<1>6. Cardinality(Users(n)') = Cardinality(Users(n)) + 1
    BY <1>5, UsersFinite, FS_AddElement
<1>7. \A m : m # n => Users(m)' = Users(m)
    BY <1>2 DEF Users
<1>8. Cardinality(Users(n)') \in 0 .. MaxHandles
    BY <1>3, UsersFiniteNext
<1> QED BY <1>3, <1>4, <1>5, <1>6, <1>7, <1>8

-----------------------------------------------------------------------------
\* The actions.

\* Nothing was sent, nothing is shared.
LEMMA InitIndInv == IPCInit => IndInv
<1> SUFFICES ASSUME IPCInit PROVE IndInv
    OBVIOUS
<1> USE DEF IPCInit
<1>1. DOMAIN segments = {} /\ Received = {}
    BY DEF Received
<1>2. IPCTypeOK
    BY <1>1, IPCAssumption DEF IPCTypeOK
<1>3. IsFiniteSet(messages \cup Received) /\ Cardinality(messages \cup Received) = 0
    BY <1>1, FS_EmptySet
<1>4. ReceivedOnceByReceiver
    BY <1>1, <1>3 DEF ReceivedOnceByReceiver, Received
<1>5. HandlesInv /\ SegmentsInv
    BY <1>1, FS_EmptySet DEF HandlesInv, SegmentsInv
<1>6. SegmentsServeHandles
    BY <1>1, FS_EmptySet DEF SegmentsServeHandles
<1> QED BY <1>2, <1>3, <1>4, <1>5, <1>6 DEF IndInv, MessagesInv

\* The three parts share no state, so a step of one keeps what is said of the others.
LEMMA QueueUnchanged ==
    ASSUME MessagesInv, ReceivedOnceByReceiver, UNCHANGED queueVars
    PROVE  MessagesInv' /\ ReceivedOnceByReceiver'
BY DEF MessagesInv, ReceivedOnceByReceiver, queueVars, Received

\* A step on messages or signals leaves the segments as they are.
LEMMA SegmentsUnchanged ==
    ASSUME HandlesInv, SegmentsInv, SegmentsServeHandles, UNCHANGED segmentVars
    PROVE  HandlesInv' /\ SegmentsInv' /\ SegmentsServeHandles'
BY DEF HandlesInv, SegmentsInv, SegmentsServeHandles, segmentVars

\* A message sent has a number that no message had.
LEMMA SendIndInv ==
    ASSUME IndInv, NEW p \in Process, Send(p)
    PROVE  IndInv'
<1>1. PICK to \in Process, priority \in Priority :
        messages' = messages \cup
            {[id |-> sent + 1, receiver |-> to, priority |-> priority]}
    BY DEF Send
<1> DEFINE m == [id |-> sent + 1, receiver |-> to, priority |-> priority]
           all == messages \cup Received
<1>2. /\ sent' = sent + 1 /\ sent < MaxMessages /\ inbox' = inbox
      /\ UNCHANGED <<segmentVars, signalVars>>
    BY DEF Send
<1>3. sent \in Nat /\ m \in Message /\ sent' \in 0 .. MaxMessages
    BY <1>2, IPCAssumption DEF IndInv, IPCTypeOK, Message
<1>4. IPCTypeOK'
    BY <1>1, <1>2, <1>3 DEF IndInv, IPCTypeOK, segmentVars, signalVars
<1>5. /\ IsFiniteSet(all) /\ Cardinality(all) = sent
      /\ {x.id : x \in all} = 1 .. sent /\ messages \cap Received = {}
      /\ \A q \in Process : \A x \in inbox[q] : x.receiver = q
    BY DEF IndInv, MessagesInv, ReceivedOnceByReceiver, Received
<1>6. m \notin all
    BY <1>3, <1>5
<1>7. Received' = Received /\ (messages \cup Received)' = all \cup {m}
    BY <1>1, <1>2 DEF Received
<1> HIDE DEF all
<1>8. IsFiniteSet(all \cup {m}) /\ Cardinality(all \cup {m}) = sent + 1
    BY <1>5, <1>6, FS_AddElement
<1>9. {x.id : x \in all \cup {m}} = 1 .. sent + 1
    <2>1. {x.id : x \in all \cup {m}} = {x.id : x \in all} \cup {m.id}
        OBVIOUS
    <2> QED BY <1>3, <1>5, <2>1
<1>10. (messages \cap Received)' = {}
    BY <1>1, <1>5, <1>6, <1>7 DEF all
<1>11. MessagesInv' /\ ReceivedOnceByReceiver'
    BY <1>2, <1>5, <1>7, <1>8, <1>9, <1>10 DEF MessagesInv, ReceivedOnceByReceiver, Received
<1> QED BY <1>2, <1>4, <1>11, SegmentsUnchanged DEF IndInv

\* The message taken is the receiver's, and no longer in the queue.
LEMMA ReceiveIndInv ==
    ASSUME IndInv, NEW p \in Process, Receive(p)
    PROVE  IndInv'
<1>1. PICK m \in messages :
        /\ m.receiver = p
        /\ messages' = messages \ {m}
        /\ inbox' = [inbox EXCEPT ![p] = @ \cup {m}]
    BY DEF Receive, Tops
<1>2. sent' = sent /\ UNCHANGED <<segmentVars, signalVars>>
    BY DEF Receive
<1>3. IPCTypeOK'
    BY <1>1, <1>2 DEF IndInv, IPCTypeOK, segmentVars, signalVars
<1>4. \A q \in Process : inbox'[q] = IF q = p THEN inbox[q] \cup {m} ELSE inbox[q]
    BY <1>1 DEF IndInv, IPCTypeOK
<1>5. Received' = Received \cup {m}
    BY <1>4 DEF Received
<1>6. (messages \cup Received)' = messages \cup Received
    BY <1>1, <1>5
<1>7. (messages \cap Received)' = {}
    BY <1>1, <1>5 DEF IndInv, ReceivedOnceByReceiver, Received
<1>8. MessagesInv'
    BY <1>6 DEF IndInv, MessagesInv
<1>9. ReceivedOnceByReceiver'
    <2>1. \A q \in Process : \A x \in inbox'[q] : x.receiver = q
        BY <1>1, <1>4 DEF IndInv, ReceivedOnceByReceiver
    <2>2. /\ {x.id : x \in (messages \cup Received)'} = 1 .. sent'
          /\ Cardinality((messages \cup Received)') = sent'
        BY <1>2, <1>6 DEF IndInv, ReceivedOnceByReceiver, Received
    <2> QED BY <1>7, <2>1, <2>2 DEF ReceivedOnceByReceiver, Received
<1> QED BY <1>2, <1>3, <1>8, <1>9, SegmentsUnchanged DEF IndInv

\* One more use of a segment that is there, and one more reference.
LEMMA AttachIndInv ==
    ASSUME IndInv, NEW p \in Process, AttachSegment(p)
    PROVE  IndInv'
<1>1. PICK n \in DOMAIN segments :
        /\ segments' = [segments EXCEPT ![n].refCount = @ + 1]
        /\ handles' = handles \cup {Use(p, n, segments[n].address)}
    BY DEF AttachSegment
<1>2. FreeIds # {} /\ UNCHANGED <<mapped, queueVars, signalVars>>
    BY DEF AttachSegment
<1>3. n \in Name /\ segments[n] \in [address : Address, refCount : 1 .. MaxHandles]
    BY DEF IndInv, IPCTypeOK
<1>4. /\ HandlesInv' /\ Cardinality(Users(n)') = Cardinality(Users(n)) + 1
      /\ Cardinality(Users(n)') \in 0 .. MaxHandles
      /\ \A k : k # n => Users(k)' = Users(k)
    BY <1>1, <1>2, <1>3, FreshUse DEF IndInv
<1>6. \A k \in DOMAIN segments : segments[k].refCount = Cardinality(Users(k))
    BY DEF IndInv, SegmentsServeHandles, Users
<1>7. /\ DOMAIN segments' = DOMAIN segments
      /\ \A k \in DOMAIN segments :
            /\ segments'[k].address = segments[k].address
            /\ segments'[k].refCount = Cardinality(Users(k)')
            /\ segments'[k] \in [address : Address, refCount : 1 .. MaxHandles]
    <2>1. segments[n].refCount \in 1 .. MaxHandles
        BY <1>3
    <2>2. segments[n].refCount + 1 \in 1 .. MaxHandles
        BY <1>4, <1>6, <2>1, IPCAssumption
    <2> QED BY <1>1, <1>3, <1>4, <1>6, <2>2 DEF IndInv, IPCTypeOK
<1>8. IPCTypeOK'
    BY <1>2, <1>7 DEF IndInv, IPCTypeOK, queueVars, signalVars
<1>9. SegmentsInv'
    BY <1>2, <1>7 DEF IndInv, SegmentsInv
<1>10. SegmentsServeHandles'
    <2>1. \A h \in handles' : h.name \in DOMAIN segments' /\ segments'[h.name].address = h.address
        BY <1>1, <1>7 DEF IndInv, SegmentsServeHandles, Use
    <2>2. mapped' = {segments'[k].address : k \in DOMAIN segments'}
        BY <1>2, <1>7 DEF IndInv, SegmentsServeHandles
    <2>3. Cardinality(mapped') = Cardinality(DOMAIN segments')
        BY <1>2, <1>7 DEF IndInv, SegmentsServeHandles
    <2> QED BY <1>7, <2>1, <2>2, <2>3 DEF SegmentsServeHandles, Users
<1> QED BY <1>2, <1>4, <1>8, <1>9, <1>10, QueueUnchanged DEF IndInv

\* A new name at an address that is not mapped has one use, its maker's.
LEMMA CreateIndInv ==
    ASSUME IndInv, NEW p \in Process, CreateSegment(p)
    PROVE  IndInv'
<1>1. PICK n \in Name \ DOMAIN segments, a \in Address \ mapped :
        /\ mapped' = mapped \cup {a}
        /\ segments' = [k \in DOMAIN segments \cup {n} |->
               IF k = n THEN [address |-> a, refCount |-> 1] ELSE segments[k]]
        /\ handles' = handles \cup {Use(p, n, a)}
    BY DEF CreateSegment
<1>2. FreeIds # {} /\ UNCHANGED <<queueVars, signalVars>>
    BY DEF CreateSegment
<1>3. /\ HandlesInv' /\ Cardinality(Users(n)') = Cardinality(Users(n)) + 1
      /\ \A k : k # n => Users(k)' = Users(k)
    BY <1>1, <1>2, FreshUse DEF IndInv
<1>4. Cardinality(Users(n)) = 0
    <2>1. Users(n) = {}
        BY <1>1 DEF IndInv, SegmentsServeHandles, Users
    <2> QED BY <2>1, FS_EmptySet
<1>5. 1 \in 1 .. MaxHandles
    BY <1>2, IPCAssumption DEF FreeIds
<1>6. /\ DOMAIN segments' = DOMAIN segments \cup {n}
      /\ segments'[n] = [address |-> a, refCount |-> 1]
      /\ \A k \in DOMAIN segments : k # n /\ segments'[k] = segments[k]
    BY <1>1
<1>7. mapped = {segments[k].address : k \in DOMAIN segments}
    BY DEF IndInv, SegmentsServeHandles
<1>8. IPCTypeOK'
    BY <1>1, <1>2, <1>5, <1>6 DEF IndInv, IPCTypeOK, queueVars, signalVars
<1>9. SegmentsInv'
    <2>1. IsFiniteSet(DOMAIN segments') /\ IsFiniteSet(mapped')
        BY <1>1, <1>6, FS_AddElement DEF IndInv, SegmentsInv
    <2>2. \A k \in DOMAIN segments : segments[k].address # a
        BY <1>1, <1>7
    <2>3. \A k, m \in DOMAIN segments' : segments'[k].address = segments'[m].address => k = m
        BY <1>6, <2>2 DEF IndInv, SegmentsInv
    <2> QED BY <2>1, <2>3 DEF SegmentsInv
<1>10. SegmentsServeHandles'
    <2>1. \A h \in handles' : h.name \in DOMAIN segments' /\ segments'[h.name].address = h.address
        BY <1>1, <1>6 DEF IndInv, SegmentsServeHandles, Use
    <2>2. \A k \in DOMAIN segments' : segments'[k].refCount = Cardinality(Users(k)')
        <3>1. \A k \in DOMAIN segments : segments[k].refCount = Cardinality(Users(k))
            BY DEF IndInv, SegmentsServeHandles, Users
        <3>2. Cardinality(Users(n)') = 1
            BY <1>3, <1>4
        <3> QED BY <1>3, <1>6, <3>1, <3>2
    <2>3. mapped' = {segments'[k].address : k \in DOMAIN segments'}
        BY <1>1, <1>6, <1>7
    <2>4. Cardinality(mapped') = Cardinality(DOMAIN segments')
        <3>1. Cardinality(mapped') = Cardinality(mapped) + 1
            BY <1>1, FS_AddElement DEF IndInv, SegmentsInv
        <3>2. Cardinality(DOMAIN segments') = Cardinality(DOMAIN segments) + 1
            BY <1>1, <1>6, FS_AddElement DEF IndInv, SegmentsInv
        <3> QED BY <3>1, <3>2 DEF IndInv, SegmentsServeHandles
    <2> QED BY <2>1, <2>2, <2>3, <2>4 DEF SegmentsServeHandles, Users
<1> QED BY <1>2, <1>3, <1>8, <1>9, <1>10, QueueUnchanged DEF IndInv

\* The last use of a segment: it goes, and the others stay where they are.
LEMMA LastUse ==
    ASSUME IndInv, NEW h \in handles, h.name \in DOMAIN segments,
           handles' = handles \ {h}, Detached(h.name),
           segments[h.name].refCount - 1 <= 0
    PROVE  SegmentsInv' /\ SegmentsServeHandles'
<1> DEFINE n == h.name
           a == segments[n].address
<1>1. mapped' = mapped \ {a} /\ segments' = Restrict(segments, DOMAIN segments \ {n})
    BY DEF Detached
<1>2. /\ DOMAIN segments' = DOMAIN segments \ {n}
      /\ \A k \in DOMAIN segments \ {n} : segments'[k] = segments[k]
    BY <1>1 DEF Restrict
<1>3. /\ \A k, m \in DOMAIN segments : segments[k].address = segments[m].address => k = m
      /\ IsFiniteSet(DOMAIN segments) /\ IsFiniteSet(mapped)
    BY DEF IndInv, SegmentsInv
<1>4. mapped = {segments[k].address : k \in DOMAIN segments} /\ a \in mapped
    BY DEF IndInv, SegmentsServeHandles
<1>5. Users(n) = {h}
    <2>1. IsFiniteSet(Users(n)) /\ h \in Users(n)
        BY UsersFinite DEF IndInv, Users
    <2>2. segments[n].refCount = Cardinality(Users(n))
        BY DEF IndInv, SegmentsServeHandles, Users
    <2>3. segments[n].refCount \in 1 .. MaxHandles
        BY DEF IndInv, IPCTypeOK
    <2>4. Cardinality(Users(n)) = 1
        BY <2>2, <2>3, IPCAssumption
    <2>5. Cardinality(Users(n) \ {h}) = 0 /\ IsFiniteSet(Users(n) \ {h})
        BY <2>1, <2>4, FS_RemoveElement
    <2>6. Users(n) \ {h} = {}
        BY <2>5, FS_EmptySet
    <2> QED BY <2>1, <2>6
<1>6. \A g \in handles' : g.name \in DOMAIN segments' /\ segments'[g.name].address = g.address
    BY <1>2, <1>5 DEF IndInv, SegmentsServeHandles, Users
<1>7. \A k \in DOMAIN segments' : segments'[k].refCount = Cardinality(Users(k)')
    <2>1. \A k \in DOMAIN segments \ {n} : Users(k)' = Users(k)
        BY DEF Users
    <2>2. \A k \in DOMAIN segments : segments[k].refCount = Cardinality(Users(k))
        BY DEF IndInv, SegmentsServeHandles, Users
    <2> QED BY <1>2, <2>1, <2>2
<1>8. mapped' = {segments'[k].address : k \in DOMAIN segments'}
    <2>1. \A k \in DOMAIN segments : segments[k].address = a => k = n
        BY <1>3
    <2>2. mapped' = {segments[k].address : k \in DOMAIN segments} \ {a}
        BY <1>1, <1>4
    <2> HIDE DEF a, n
    <2>3. \A x : x \in mapped' <=> \E k \in DOMAIN segments \ {n} : x = segments[k].address
        BY <1>4, <2>1, <2>2 DEF a
    <2> QED BY <1>2, <2>3
<1>9. /\ Cardinality(mapped') = Cardinality(DOMAIN segments')
      /\ IsFiniteSet(mapped') /\ IsFiniteSet(DOMAIN segments')
    <2>1. Cardinality(mapped') = Cardinality(mapped) - 1 /\ IsFiniteSet(mapped')
        <3> HIDE DEF a, n
        <3> QED BY <1>1, <1>3, <1>4, FS_RemoveElement
    <2>2. /\ Cardinality(DOMAIN segments') = Cardinality(DOMAIN segments) - 1
          /\ IsFiniteSet(DOMAIN segments')
        BY <1>2, <1>3, FS_RemoveElement
    <2> QED BY <2>1, <2>2 DEF IndInv, SegmentsServeHandles
<1>10. SegmentsInv'
    BY <1>2, <1>3, <1>9 DEF SegmentsInv
<1> QED BY <1>6, <1>7, <1>8, <1>9, <1>10 DEF SegmentsServeHandles, Users

\* A use of a segment that others use: only its count changes.
LEMMA OneUseLess ==
    ASSUME IndInv, NEW h \in handles, h.name \in DOMAIN segments,
           handles' = handles \ {h}, Detached(h.name),
           ~ (segments[h.name].refCount - 1 <= 0)
    PROVE  SegmentsInv' /\ SegmentsServeHandles'
<1> DEFINE n == h.name
<1>1. /\ segments' = [segments EXCEPT ![n].refCount = @ - 1]
      /\ mapped' = mapped
    BY DEF Detached
<1>2. \A k \in DOMAIN segments : segments[k] \in [address : Address, refCount : 1 .. MaxHandles]
    BY DEF IndInv, IPCTypeOK
<1>3. /\ DOMAIN segments' = DOMAIN segments
      /\ segments'[n].refCount = segments[n].refCount - 1
      /\ \A k \in DOMAIN segments : /\ segments'[k].address = segments[k].address
                                    /\ k # n => segments'[k] = segments[k]
    BY <1>1, <1>2
<1>4. Cardinality(Users(n)') = Cardinality(Users(n)) - 1
    <2>1. Users(n)' = Users(n) \ {h} /\ h \in Users(n)
        BY DEF Users
    <2> QED BY <2>1, UsersFinite, FS_RemoveElement DEF IndInv
<1>5. \A k \in DOMAIN segments' : segments'[k].refCount = Cardinality(Users(k)')
    <2>1. \A k \in DOMAIN segments \ {n} : Users(k)' = Users(k)
        BY DEF Users
    <2>2. \A k \in DOMAIN segments : segments[k].refCount = Cardinality(Users(k))
        BY DEF IndInv, SegmentsServeHandles, Users
    <2> QED BY <1>3, <1>4, <2>1, <2>2
<1>6. \A g \in handles' : g.name \in DOMAIN segments' /\ segments'[g.name].address = g.address
    BY <1>3 DEF IndInv, SegmentsServeHandles
<1>7. mapped' = {segments'[k].address : k \in DOMAIN segments'}
    BY <1>1, <1>3 DEF IndInv, SegmentsServeHandles
<1>8. Cardinality(mapped') = Cardinality(DOMAIN segments')
    BY <1>1, <1>3 DEF IndInv, SegmentsServeHandles
<1>9. SegmentsInv'
    BY <1>1, <1>3 DEF IndInv, SegmentsInv
<1> QED BY <1>5, <1>6, <1>7, <1>8, <1>9 DEF SegmentsServeHandles, Users

\* A use ends; the segment goes with its last one, and with it its address.
LEMMA DeallocateIndInv ==
    ASSUME IndInv, NEW p \in Process, Deallocate(p)
    PROVE  IndInv'
<1>1. PICK h \in handles :
        /\ handles' = handles \ {h}
        /\ IF h.name \in DOMAIN segments THEN Detached(h.name)
                                         ELSE UNCHANGED <<segments, mapped>>
    BY DEF Deallocate
<1>2. UNCHANGED <<queueVars, signalVars>>
    BY DEF Deallocate
<1>3. h.name \in DOMAIN segments /\ Detached(h.name)
    BY <1>1 DEF IndInv, SegmentsServeHandles
<1>4. SegmentsInv' /\ SegmentsServeHandles'
    BY <1>1, <1>3, LastUse, OneUseLess
<1>5. HandlesInv'
    BY <1>1 DEF IndInv, HandlesInv
<1>6. IPCTypeOK'
    <2>1. /\ DOMAIN segments' \subseteq Name /\ mapped' \subseteq Address
          /\ \A k \in DOMAIN segments' :
                segments'[k] \in [address : Address, refCount : 1 .. MaxHandles]
        <3>1. CASE segments[h.name].refCount - 1 <= 0
            BY <1>3, <3>1 DEF Detached, Restrict, IndInv, IPCTypeOK
        <3>2. CASE ~ (segments[h.name].refCount - 1 <= 0)
            <4>1. \A k \in DOMAIN segments :
                    segments[k] \in [address : Address, refCount : 1 .. MaxHandles]
                BY DEF IndInv, IPCTypeOK
            <4>2. segments[h.name].refCount - 1 \in 1 .. MaxHandles
                BY <1>3, <3>2, <4>1, IPCAssumption
            <4>3. segments' = [segments EXCEPT ![h.name].refCount = @ - 1] /\ mapped' = mapped
                BY <1>3, <3>2 DEF Detached
            <4> QED BY <1>3, <4>1, <4>2, <4>3 DEF IndInv, IPCTypeOK
        <3> QED BY <3>1, <3>2
    <2> QED BY <1>2, <2>1 DEF IndInv, IPCTypeOK, queueVars, signalVars
<1> QED BY <1>2, <1>4, <1>5, <1>6, QueueUnchanged DEF IndInv

\* The steps of signals, which touch neither messages nor segments.
LEMMA SignalStepIndInv ==
    ASSUME IndInv, NEW p \in Process,
           \/ CallRegister(p) \/ RegisterHandler(p)
           \/ CallProcess(p) \/ ProcessSignal(p) \/ HandlerReturns(p)
    PROVE  IndInv'
<1>1. UNCHANGED <<queueVars, segmentVars>>
    BY DEF CallRegister, RegisterHandler, CallProcess, ProcessSignal, HandlerReturns
<1>2. /\ handlers' \subseteq Signal /\ handlerMutex' \in Process \cup {NoProcess}
      /\ place' \in [Process -> {"idle", "register", "process", "handler"}]
      /\ signal' \in [Process -> Signal]
    BY DEF CallRegister, RegisterHandler, CallProcess, ProcessSignal, HandlerReturns,
           IndInv, IPCTypeOK
<1>3. IPCTypeOK'
    BY <1>1, <1>2 DEF IndInv, IPCTypeOK, queueVars, segmentVars
<1> QED BY <1>1, <1>3, QueueUnchanged, SegmentsUnchanged DEF IndInv

\* Every step keeps the inductive invariant.
LEMMA NextIndInv == IndInv /\ [IPCNext]_ipcVars => IndInv'
<1> SUFFICES ASSUME IndInv, [IPCNext]_ipcVars PROVE IndInv'
    OBVIOUS
<1>1. CASE UNCHANGED ipcVars
    <2>1. IPCTypeOK'
        BY <1>1 DEF IndInv, IPCTypeOK, ipcVars, queueVars, segmentVars, signalVars
    <2> QED BY <1>1, <2>1, QueueUnchanged, SegmentsUnchanged DEF IndInv, ipcVars
<1>2. ASSUME NEW p \in Process, ReceiveEmpty(p)
      PROVE  IndInv'
    BY <1>1, <1>2 DEF ReceiveEmpty
<1> QED BY <1>1, <1>2, SendIndInv, ReceiveIndInv, AttachIndInv, CreateIndInv,
           DeallocateIndInv, SignalStepIndInv DEF IPCNext

\* Hence the invariant holds in every state.
LEMMA Inductive == IPCSpec => []IndInv
<1> QED BY InitIndInv, NextIndInv, PTL DEF IPCSpec

-----------------------------------------------------------------------------
\* What follows for every execution.

\* The type invariant; a reference count is at least 1 while its segment is there.
THEOREM TypeCorrect == IPCSpec => []IPCTypeOK
<1>1. IndInv => IPCTypeOK
    BY DEF IndInv
<1> QED BY <1>1, Inductive, PTL

\* A message is in the queue until its receiver gets it, and nobody else ever does.
THEOREM MessagesReceivedOnce == IPCSpec => []ReceivedOnceByReceiver
<1>1. IndInv => ReceivedOnceByReceiver
    BY DEF IndInv
<1> QED BY <1>1, Inductive, PTL

\* A segment is mapped, at the address its users were given, as long as it has users,
\* in whatever order processes attach and let go.
THEOREM SegmentsServeTheirHandles == IPCSpec => []SegmentsServeHandles
<1>1. IndInv => SegmentsServeHandles
    BY DEF IndInv
<1> QED BY <1>1, Inductive, PTL
=============================================================================
