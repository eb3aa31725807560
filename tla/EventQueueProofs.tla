-------------------------- MODULE EventQueueProofs --------------------------
(***************************************************************************)
(* Proofs about EventQueue, for any finite set of consumers and any number *)
(* of events.                                                              *)
(***************************************************************************)
EXTENDS EventQueue, SequenceTheorems, FiniteSetTheorems, TLAPS

\* The inductive invariant: the three safety properties of EventQueue.  Order and
\* wake-ups each need the types, and do not need one another.
IndInv == EventTypeOK /\ ExactlyOnceInOrder /\ NoLostWakeup

-----------------------------------------------------------------------------
\* Events in the queue and events delivered.

\* The events delivered and queued, one after the other.
Sequel == delivered \o events

\* The parts of Sequel, by position.
LEMMA SequelParts ==
    ASSUME EventTypeOK
    PROVE  /\ pushed \in Nat
           /\ Sequel \in Seq(1 .. pushed)
           /\ Len(delivered) \in Nat /\ Len(events) \in Nat
           /\ Len(Sequel) = Len(delivered) + Len(events)
           /\ DOMAIN Sequel = 1 .. Len(Sequel)
           /\ \A k \in 1 .. Len(delivered) : Sequel[k] = delivered[k]
           /\ \A k \in 1 .. Len(events) : Sequel[Len(delivered) + k] = events[k]
<1>1. pushed \in Nat /\ events \in Seq(1 .. pushed) /\ delivered \in Seq(1 .. pushed)
    BY EventAssumption DEF EventTypeOK
<1>2. Len(delivered) \in Nat /\ Len(events) \in Nat
    BY <1>1, LenProperties
<1>3. /\ Sequel \in Seq(1 .. pushed)
      /\ Len(Sequel) = Len(delivered) + Len(events)
      /\ \A k \in 1 .. Len(delivered) + Len(events) :
             Sequel[k] = IF k <= Len(delivered) THEN delivered[k]
                                                ELSE events[k - Len(delivered)]
    BY <1>1, ConcatProperties DEF Sequel
<1>4. DOMAIN Sequel = 1 .. Len(Sequel)
    BY <1>3, LenProperties
<1>5. \A k \in 1 .. Len(events) :
          /\ Len(delivered) + k \in 1 .. Len(delivered) + Len(events)
          /\ ~ (Len(delivered) + k <= Len(delivered))
          /\ (Len(delivered) + k) - Len(delivered) = k
    BY <1>2, SMT
<1>6. \A k \in 1 .. Len(events) : Sequel[Len(delivered) + k] = events[k]
    BY <1>3, <1>5
<1>7. \A k \in 1 .. Len(delivered) : Sequel[k] = delivered[k]
    BY <1>2, <1>3, SMT
<1> QED BY <1>1, <1>2, <1>3, <1>4, <1>6, <1>7

\* The same with Sequel for the property's local name.
LEMMA SequelOrder ==
    ExactlyOnceInOrder <=>
        /\ \A j, k \in DOMAIN Sequel : j < k => Sequel[j] < Sequel[k]
        /\ ToSet(Sequel) \cap discarded = {}
        /\ ToSet(Sequel) \cup discarded = 1 .. pushed
BY DEF ExactlyOnceInOrder, Sequel

\* ... and after a step.
LEMMA SequelOrderNext ==
    ExactlyOnceInOrder' <=>
        /\ \A j, k \in DOMAIN Sequel' : j < k => Sequel'[j] < Sequel'[k]
        /\ ToSet(Sequel') \cap discarded' = {}
        /\ ToSet(Sequel') \cup discarded' = 1 .. pushed'
BY DEF ExactlyOnceInOrder, Sequel

\* What push does to the sequel: the newest event goes to the end.
LEMMA PushSequel ==
    ASSUME EventTypeOK, Push
    PROVE  /\ events' \in Seq(1 .. pushed') /\ delivered' \in Seq(1 .. pushed')
           /\ Len(events') = Len(events) + 1
           /\ Len(Sequel') = Len(Sequel) + 1
           /\ DOMAIN Sequel' = 1 .. Len(Sequel')
           /\ \A k \in 1 .. Len(Sequel) : Sequel'[k] = Sequel[k]
           /\ Sequel'[Len(Sequel) + 1] = pushed + 1
<1>1. /\ pushed \in Nat /\ pushed' = pushed + 1 /\ pushed' \in Nat
      /\ events \in Seq(1 .. pushed) /\ delivered \in Seq(1 .. pushed)
      /\ events' = Append(events, pushed + 1) /\ delivered' = delivered
    BY EventAssumption DEF EventTypeOK, Push
<1>2. 1 .. pushed \subseteq 1 .. pushed' /\ pushed + 1 \in 1 .. pushed'
    BY <1>1, SMT
<1>3. events \in Seq(1 .. pushed') /\ delivered \in Seq(1 .. pushed')
    BY <1>1, <1>2, SeqMonotonic
<1>4. /\ events' \in Seq(1 .. pushed') /\ delivered' \in Seq(1 .. pushed')
      /\ Len(events') = Len(events) + 1
      /\ \A k \in 1 .. Len(events) : events'[k] = events[k]
      /\ events'[Len(events) + 1] = pushed + 1
    BY <1>1, <1>2, <1>3, AppendProperties
<1>5. /\ Len(delivered) \in Nat /\ Len(events) \in Nat
      /\ Len(Sequel) = Len(delivered) + Len(events)
      /\ \A k \in 1 .. Len(delivered) : Sequel[k] = delivered[k]
      /\ \A k \in 1 .. Len(events) : Sequel[Len(delivered) + k] = events[k]
    BY SequelParts
<1>6. /\ Sequel' \in Seq(1 .. pushed')
      /\ Len(Sequel') = Len(delivered) + Len(events')
      /\ \A k \in 1 .. Len(delivered) + Len(events') :
             Sequel'[k] = IF k <= Len(delivered) THEN delivered[k]
                                                 ELSE events'[k - Len(delivered)]
    BY <1>1, <1>4, ConcatProperties DEF Sequel
<1>7. DOMAIN Sequel' = 1 .. Len(Sequel')
    BY <1>6, LenProperties
<1>8. \A k \in 1 .. Len(Sequel) : Sequel'[k] = Sequel[k]
    <2> TAKE k \in 1 .. Len(Sequel)
    <2>1. CASE k <= Len(delivered)
        BY <1>4, <1>5, <1>6, <2>1, SMT
    <2>2. CASE k > Len(delivered)
        <3>1. /\ k - Len(delivered) \in 1 .. Len(events)
              /\ Len(delivered) + (k - Len(delivered)) = k
              /\ k \in 1 .. Len(delivered) + Len(events') /\ ~ (k <= Len(delivered))
            BY <1>4, <1>5, <2>2, SMT
        <3>2. Sequel[k] = events[k - Len(delivered)]
            BY <1>5, <3>1
        <3>3. Sequel'[k] = events'[k - Len(delivered)]
            BY <1>6, <3>1
        <3> QED BY <1>4, <3>1, <3>2, <3>3
    <2> QED BY <1>5, <2>1, <2>2, SMT
<1>9. Sequel'[Len(Sequel) + 1] = pushed + 1
    <2>1. /\ Len(Sequel) + 1 \in 1 .. Len(delivered) + Len(events')
          /\ ~ (Len(Sequel) + 1 <= Len(delivered))
          /\ (Len(Sequel) + 1) - Len(delivered) = Len(events) + 1
        BY <1>4, <1>5, SMT
    <2> QED BY <1>4, <1>6, <2>1
<1>10. Len(Sequel') = Len(Sequel) + 1
    BY <1>4, <1>5, <1>6, SMT
<1> QED BY <1>4, <1>7, <1>8, <1>9, <1>10

\* What a pop that takes an event does to the sequel: nothing.
LEMMA TakeSequel ==
    ASSUME EventTypeOK, events # <<>>,
           delivered' = Append(delivered, Head(events)), events' = Tail(events)
    PROVE  /\ Sequel' = Sequel
           /\ events' \in Seq(1 .. pushed) /\ delivered' \in Seq(1 .. pushed)
           /\ Len(events') = Len(events) - 1 /\ Len(events) \in Nat \ {0}
<1> DEFINE E == 1 .. pushed
<1>1. events \in Seq(E) /\ delivered \in Seq(E)
    BY DEF EventTypeOK
<1>2. /\ Head(events) \in E /\ Tail(events) \in Seq(E)
      /\ Len(Tail(events)) = Len(events) - 1
      /\ Len(events) \in Nat \ {0}
    BY <1>1, HeadTailProperties, EmptySeq
<1> HIDE DEF E
<1>3. /\ delivered' = delivered \o <<Head(events)>> /\ delivered' \in Seq(E)
      /\ <<Head(events)>> \in Seq(E)
    BY <1>1, <1>2, AppendProperties, AppendIsConcat
<1>4. Sequel' = delivered \o (<<Head(events)>> \o Tail(events))
    BY <1>1, <1>2, <1>3, ConcatAssociative DEF Sequel
<1>5. <<Head(events)>> \o Tail(events) = events
    BY <1>1, <1>2
<1> QED BY <1>2, <1>3, <1>4, <1>5 DEF Sequel, E

\* What clear does to the sequel: the delivered events remain.
LEMMA ClearSequel ==
    ASSUME EventTypeOK, delivered' = delivered, events' = <<>>
    PROVE  /\ Sequel' = delivered
           /\ DOMAIN delivered = 1 .. Len(delivered)
           /\ DOMAIN events = 1 .. Len(events)
<1>1. events \in Seq(1 .. pushed) /\ delivered \in Seq(1 .. pushed)
    BY DEF EventTypeOK
<1> QED BY <1>1, ConcatEmptySeq, LenProperties DEF Sequel

-----------------------------------------------------------------------------
\* Who waits.

\* Waiting consumers can be counted.
LEMMA WokenFinite == IsFiniteSet(Woken) /\ Cardinality(Woken) \in Nat
BY ConsumerAssumption, FS_Subset, FS_CardinalityType DEF Woken

\* One more consumer is woken.
LEMMA WokenMore ==
    ASSUME EventTypeOK, NEW c \in Consumer, stage[c] # "woken", stage' = [stage EXCEPT ![c] = "woken"]
    PROVE  Cardinality(Woken') = Cardinality(Woken) + 1
<1>1. Woken' = Woken \cup {c} /\ c \notin Woken
    BY DEF Woken, EventTypeOK
<1> QED BY <1>1, WokenFinite, FS_AddElement

\* One consumer has got the mutex back.
LEMMA WokenFewer ==
    ASSUME EventTypeOK, NEW c \in Consumer, stage[c] = "woken",
           NEW s \in {"idle", "asleep"}, stage' = [stage EXCEPT ![c] = s]
    PROVE  Cardinality(Woken') = Cardinality(Woken) - 1
<1>1. Woken' = Woken \ {c} /\ c \in Woken
    BY DEF Woken, EventTypeOK
<1> QED BY <1>1, WokenFinite, FS_RemoveElement

-----------------------------------------------------------------------------
\* The actions

\* Nothing is queued, delivered or waited for at first.
LEMMA InitIndInv == EventInit => IndInv
<1> SUFFICES ASSUME EventInit PROVE IndInv
    OBVIOUS
<1>1. <<>> \in Seq(1 .. 0) /\ Len(<<>>) = 0
    BY EmptySeq
<1>2. EventTypeOK
    <2>1. 0 \in 0 .. MaxEvents
        BY EventAssumption, SMT
    <2>2. [c \in Consumer |-> "idle"] \in [Consumer -> {"idle", "asleep", "woken"}]
        OBVIOUS
    <2>3. events \in Seq(1 .. pushed) /\ Len(events) <= pushed
          /\ delivered \in Seq(1 .. pushed)
        <3>1. pushed = 0 /\ events = <<>> /\ delivered = <<>>
            BY DEF EventInit
        <3> QED BY <1>1, <3>1, SMT
    <2>4. shutdown \in BOOLEAN /\ discarded \subseteq 1 .. pushed
        BY DEF EventInit
    <2> QED BY <2>1, <2>2, <2>3, <2>4 DEF EventInit, EventTypeOK
<1>3. Sequel = <<>> /\ DOMAIN Sequel = 1 .. 0
    BY <1>1, ConcatEmptySeq, LenProperties DEF EventInit, Sequel
<1>4. ExactlyOnceInOrder
    BY <1>3, SequelOrder DEF EventInit, ToSet
<1>5. NoLostWakeup
    BY DEF EventInit, NoLostWakeup, Asleep
<1> QED BY <1>2, <1>4, <1>5 DEF IndInv

\* One more event is queued, and one sleeper is woken for it if there is one.
LEMMA PushIndInv == IndInv /\ Push => IndInv'
<1> SUFFICES ASSUME IndInv, Push PROVE IndInv'
    OBVIOUS
<1>0. EventTypeOK
    BY DEF IndInv
<1>1. /\ pushed \in 0 .. MaxEvents /\ pushed' = pushed + 1 /\ pushed < MaxEvents
      /\ pushed \in Nat /\ MaxEvents \in Nat
      /\ discarded' = discarded /\ discarded \subseteq 1 .. pushed
      /\ Len(events) \in Nat /\ Len(events) <= pushed /\ Len(Sequel) \in Nat
    BY <1>0, EventAssumption, SequelParts DEF EventTypeOK, Push
<1>2. EventTypeOK'
    <2>1. pushed' \in 0 .. MaxEvents /\ discarded' \subseteq 1 .. pushed'
        BY <1>1, SMT
    <2>2. events' \in Seq(1 .. pushed') /\ delivered' \in Seq(1 .. pushed')
          /\ Len(events') <= pushed'
        BY <1>0, <1>1, PushSequel, SMT
    <2>3. stage' \in [Consumer -> {"idle", "asleep", "woken"}] /\ shutdown' \in BOOLEAN
        BY <1>0 DEF Push, NotifyOne, EventTypeOK
    <2> QED BY <2>1, <2>2, <2>3 DEF EventTypeOK
<1>3. ExactlyOnceInOrder'
    <2>1. /\ DOMAIN Sequel = 1 .. Len(Sequel) /\ DOMAIN Sequel' = 1 .. Len(Sequel) + 1
          /\ \A k \in 1 .. Len(Sequel) : Sequel'[k] = Sequel[k]
          /\ Sequel'[Len(Sequel) + 1] = pushed + 1
        BY <1>0, PushSequel, SequelParts
    <2>2. \A k \in DOMAIN Sequel : Sequel[k] \in 1 .. pushed
        BY SequelOrder DEF IndInv, ToSet
    <2>3. \A j, k \in DOMAIN Sequel' : j < k => Sequel'[j] < Sequel'[k]
        <3> SUFFICES ASSUME NEW j \in 1 .. Len(Sequel) + 1,
                            NEW k \in 1 .. Len(Sequel) + 1, j < k
                     PROVE  Sequel'[j] < Sequel'[k]
            BY <2>1
        <3>1. j \in 1 .. Len(Sequel) /\ Sequel'[j] = Sequel[j]
            BY <1>1, <2>1, SMT
        <3>2. CASE k \in 1 .. Len(Sequel)
            BY <2>1, <3>1, <3>2, SequelOrder DEF IndInv
        <3>3. CASE k = Len(Sequel) + 1
            BY <1>1, <2>1, <2>2, <3>1, <3>3, SMT
        <3> QED BY <1>1, <3>2, <3>3, SMT
    <2>4. ToSet(Sequel') = ToSet(Sequel) \cup {pushed + 1}
        <3>1. 1 .. Len(Sequel) + 1 = (1 .. Len(Sequel)) \cup {Len(Sequel) + 1}
            BY <1>1, SMT
        <3> QED BY <2>1, <3>1 DEF ToSet
    <2>5. pushed + 1 \notin discarded /\ 1 .. pushed' = (1 .. pushed) \cup {pushed + 1}
        BY <1>1, SMT
    <2> QED BY <1>1, <2>3, <2>4, <2>5, SequelOrder, SequelOrderNext DEF IndInv
<1>4. NoLostWakeup'
    <2> SUFFICES ASSUME Asleep' # {}
                 PROVE  ~ shutdown' /\ Len(events') <= Cardinality(Woken')
        BY DEF NoLostWakeup
    <2>1. Asleep # {}
        BY DEF Push, NotifyOne, Asleep
    <2>2. PICK c \in Asleep : stage' = [stage EXCEPT ![c] = "woken"]
        BY <2>1 DEF Push, NotifyOne
    <2>3. Cardinality(Woken') = Cardinality(Woken) + 1
        BY <1>0, <2>2, WokenMore DEF Asleep
    <2>4. Len(events') = Len(events) + 1
        BY <1>0, PushSequel
    <2>5. ~ shutdown' /\ Len(events) <= Cardinality(Woken)
        BY <2>1 DEF IndInv, NoLostWakeup, Push
    <2> QED BY <1>1, <2>3, <2>4, <2>5, WokenFinite, SMT
<1> QED BY <1>2, <1>3, <1>4 DEF IndInv

\* With nothing queued, nobody has to be awake.
LEMMA ClearIndInv == IndInv /\ Clear => IndInv'
<1> SUFFICES ASSUME IndInv, Clear PROVE IndInv'
    OBVIOUS
<1>0. EventTypeOK
    BY DEF IndInv
<1>1. /\ pushed \in Nat /\ Len(delivered) \in Nat /\ Len(events) \in Nat
      /\ \A k \in 1 .. Len(delivered) : Sequel[k] = delivered[k]
      /\ \A k \in 1 .. Len(events) : Sequel[Len(delivered) + k] = events[k]
      /\ DOMAIN Sequel = 1 .. Len(delivered) + Len(events)
    BY <1>0, SequelParts
<1>2. /\ Sequel' = delivered /\ DOMAIN delivered = 1 .. Len(delivered)
      /\ DOMAIN events = 1 .. Len(events)
      /\ discarded' = discarded \cup ToSet(events) /\ pushed' = pushed
    BY <1>0, ClearSequel DEF Clear
<1>3. ToSet(Sequel) = ToSet(delivered) \cup ToSet(events)
    <2>1. \A k \in DOMAIN Sequel :
              \/ k \in 1 .. Len(delivered)
              \/ \E i \in 1 .. Len(events) : k = Len(delivered) + i
        <3> TAKE k \in DOMAIN Sequel
        <3>1. CASE k <= Len(delivered)
            BY <1>1, <3>1, SMT
        <3>2. CASE k > Len(delivered)
            <4>1. /\ k - Len(delivered) \in 1 .. Len(events)
                  /\ k = Len(delivered) + (k - Len(delivered))
                BY <1>1, <3>2, SMT
            <4> QED BY <4>1
        <3> QED BY <1>1, <3>1, <3>2, SMT
    <2>2. /\ \A k \in 1 .. Len(delivered) : k \in DOMAIN Sequel
          /\ \A k \in 1 .. Len(events) : Len(delivered) + k \in DOMAIN Sequel
        BY <1>1, SMT
    <2>3. ToSet(Sequel) \subseteq ToSet(delivered) \cup ToSet(events)
        BY <1>1, <1>2, <2>1 DEF ToSet
    <2>4. ToSet(delivered) \cup ToSet(events) \subseteq ToSet(Sequel)
        BY <1>1, <1>2, <2>2 DEF ToSet
    <2> QED BY <2>3, <2>4
<1>4. ToSet(delivered) \cap ToSet(events) = {}
    <2> SUFFICES ASSUME NEW j \in 1 .. Len(delivered), NEW k \in 1 .. Len(events)
                 PROVE  delivered[j] # events[k]
        BY <1>2 DEF ToSet
    <2>1. j \in DOMAIN Sequel /\ Len(delivered) + k \in DOMAIN Sequel
          /\ j < Len(delivered) + k
        BY <1>1, SMT
    <2>2. Sequel[j] < Sequel[Len(delivered) + k]
        BY <2>1, SequelOrder DEF IndInv
    <2>3. Sequel[j] \in 1 .. pushed
        BY <2>1, SequelOrder DEF IndInv, ToSet
    <2>4. Sequel[Len(delivered) + k] \in 1 .. pushed
        BY <2>1, SequelOrder DEF IndInv, ToSet
    <2>5. Sequel[j] # Sequel[Len(delivered) + k]
        BY <1>1, <2>2, <2>3, <2>4, SMT
    <2> QED BY <1>1, <2>5
<1>5. ExactlyOnceInOrder'
    <2>1. \A j, k \in DOMAIN Sequel' : j < k => Sequel'[j] < Sequel'[k]
        <3> SUFFICES ASSUME NEW j \in 1 .. Len(delivered), NEW k \in 1 .. Len(delivered),
                            j < k
                     PROVE  delivered[j] < delivered[k]
            BY <1>2
        <3>1. j \in DOMAIN Sequel /\ k \in DOMAIN Sequel
            BY <1>1, SMT
        <3> QED BY <1>1, <3>1, SequelOrder DEF IndInv
    <2>2. /\ ToSet(Sequel) \cap discarded = {}
          /\ ToSet(Sequel) \cup discarded = 1 .. pushed
        BY SequelOrder DEF IndInv
    <2>3. /\ ToSet(Sequel') \cap discarded' = {}
          /\ ToSet(Sequel') \cup discarded' = 1 .. pushed'
        BY <1>2, <1>3, <1>4, <2>2
    <2> QED BY <2>1, <2>3, SequelOrderNext
<1>6. EventTypeOK'
    <2>1. discarded' \subseteq 1 .. pushed'
        BY <1>2, <1>3, SequelOrder DEF IndInv
    <2>2. <<>> \in Seq(1 .. pushed) /\ Len(<<>>) = 0
        BY EmptySeq
    <2> QED BY <1>0, <1>1, <1>2, <2>1, <2>2 DEF Clear, EventTypeOK
<1>7. NoLostWakeup'
    BY EmptySeq, WokenFinite DEF IndInv, NoLostWakeup, Clear, Asleep, Woken
<1> QED BY <1>5, <1>6, <1>7 DEF IndInv

\* After stop nobody sleeps.
LEMMA StopIndInv == IndInv /\ Stop => IndInv'
<1> SUFFICES ASSUME IndInv, Stop PROVE IndInv'
    OBVIOUS
<1>1. EventTypeOK'
    BY DEF IndInv, EventTypeOK, Stop
<1>2. ExactlyOnceInOrder'
    BY DEF IndInv, ExactlyOnceInOrder, Stop
<1>3. NoLostWakeup'
    BY DEF NoLostWakeup, Stop, Asleep
<1> QED BY <1>1, <1>2, <1>3 DEF IndInv

\* The end of pop preserves the first two parts, wherever the consumer was.
LEMMA FinishKeepsEvents ==
    ASSUME IndInv, NEW c \in Consumer, Finish(c)
    PROVE  /\ EventTypeOK' /\ ExactlyOnceInOrder'
           /\ stage' = [stage EXCEPT ![c] = "idle"] /\ shutdown' = shutdown
           /\ Len(events) \in Nat /\ Len(events') \in Nat
           /\ events # <<>> /\ ~ shutdown => Len(events') = Len(events) - 1
           /\ events = <<>> \/ shutdown => events' = events
<1>0. EventTypeOK /\ pushed \in Nat /\ Len(events) \in Nat
    BY SequelParts DEF IndInv
<1>1. stage' \in [Consumer -> {"idle", "asleep", "woken"}]
    BY <1>0 DEF Finish, EventTypeOK
<1>2. CASE events = <<>> \/ shutdown
    <2>1. EventTypeOK'
        BY <1>0, <1>1, <1>2 DEF Finish, EventTypeOK
    <2>2. ExactlyOnceInOrder'
        BY <1>2 DEF Finish, ExactlyOnceInOrder, IndInv
    <2> QED BY <1>0, <1>2, <2>1, <2>2 DEF Finish
<1>3. CASE ~ (events = <<>> \/ shutdown)
    <2>1. delivered' = Append(delivered, Head(events)) /\ events' = Tail(events)
        BY <1>3 DEF Finish
    <2>2. /\ Sequel' = Sequel
          /\ events' \in Seq(1 .. pushed) /\ delivered' \in Seq(1 .. pushed)
          /\ Len(events') = Len(events) - 1 /\ Len(events) \in Nat \ {0}
        BY <1>0, <1>3, <2>1, TakeSequel
    <2>3. Len(events') <= pushed
        BY <1>0, <2>2, SMT DEF EventTypeOK
    <2>4. EventTypeOK'
        BY <1>0, <1>1, <2>2, <2>3 DEF Finish, EventTypeOK
    <2>5. ExactlyOnceInOrder'
        BY <2>2, SequelOrder, SequelOrderNext DEF Finish, IndInv
    <2>6. Len(events') \in Nat
        BY <2>2, SMT
    <2> QED BY <1>0, <1>3, <2>2, <2>4, <2>5, <2>6 DEF Finish
<1> QED BY <1>2, <1>3

\* pop of a consumer that does not wait, or need not: it was not woken, so nobody
\* is missed.
LEMMA FinishIdleIndInv ==
    ASSUME IndInv, NEW c \in Consumer, stage[c] = "idle", Finish(c)
    PROVE  IndInv'
<1>1. Asleep' = Asleep /\ Woken' = Woken
    BY FinishKeepsEvents DEF Asleep, Woken, IndInv, EventTypeOK
<1>2. Len(events') <= Len(events)
    BY FinishKeepsEvents, SMT
<1>3. NoLostWakeup'
    BY <1>1, <1>2, FinishKeepsEvents, WokenFinite, SMT DEF NoLostWakeup, IndInv
<1> QED BY <1>3, FinishKeepsEvents DEF IndInv

\* pop of a consumer that was woken: it leaves with an event, or the queue was
\* stopped and nobody is asleep.
LEMMA FinishWokenIndInv ==
    ASSUME IndInv, NEW c \in Consumer, stage[c] = "woken", Ready, Finish(c)
    PROVE  IndInv'
<1>1. Cardinality(Woken') = Cardinality(Woken) - 1
    BY FinishKeepsEvents, WokenFewer DEF IndInv
<1>2. Asleep' = Asleep
    BY FinishKeepsEvents DEF Asleep, IndInv, EventTypeOK
<1>3. NoLostWakeup'
    <2> SUFFICES ASSUME Asleep # {}
                 PROVE  ~ shutdown' /\ Len(events') <= Cardinality(Woken')
        BY <1>2 DEF NoLostWakeup
    <2>1. ~ shutdown /\ Len(events) <= Cardinality(Woken)
        BY DEF IndInv, NoLostWakeup
    <2>2. Len(events') = Len(events) - 1 /\ ~ shutdown'
        BY <2>1, FinishKeepsEvents DEF Ready
    <2> QED BY <1>1, <2>1, <2>2, FinishKeepsEvents, WokenFinite, SMT
<1> QED BY <1>3, FinishKeepsEvents DEF IndInv

\* Going to sleep, at first or again: the queue is empty and was not stopped.
LEMMA SleepIndInv ==
    ASSUME IndInv, NEW c \in Consumer, ~ Ready, stage' = [stage EXCEPT ![c] = "asleep"],
           UNCHANGED <<events, shutdown, pushed, delivered, discarded>>
    PROVE  IndInv'
<1>1. EventTypeOK'
    BY DEF IndInv, EventTypeOK
<1>2. ExactlyOnceInOrder'
    BY DEF IndInv, ExactlyOnceInOrder
<1>3. Cardinality(Woken') \in Nat
    <2>1. Woken' \in SUBSET Consumer
        BY DEF Woken
    <2> QED BY <2>1, ConsumerAssumption, FS_Subset, FS_CardinalityType
<1>4. ~ shutdown' /\ Len(events') = 0
    BY EmptySeq DEF Ready
<1> QED BY <1>1, <1>2, <1>3, <1>4, SMT DEF IndInv, NoLostWakeup

\* One more consumer is awake.
LEMMA SpuriousWakeupIndInv ==
    ASSUME IndInv, NEW c \in Consumer, SpuriousWakeup(c)
    PROVE  IndInv'
<1>1. EventTypeOK'
    BY DEF IndInv, EventTypeOK, SpuriousWakeup
<1>2. ExactlyOnceInOrder'
    BY DEF IndInv, ExactlyOnceInOrder, SpuriousWakeup
<1>3. NoLostWakeup'
    <2>1. /\ stage[c] = "asleep" /\ stage' = [stage EXCEPT ![c] = "woken"]
          /\ shutdown' = shutdown /\ events' = events
        BY DEF SpuriousWakeup
    <2>2. Cardinality(Woken') = Cardinality(Woken) + 1
        BY <2>1, WokenMore DEF IndInv
    <2>3. ~ shutdown /\ Len(events) <= Cardinality(Woken)
        BY <2>1 DEF IndInv, NoLostWakeup, Asleep
    <2>4. Len(events) \in Nat
        BY SequelParts DEF IndInv
    <2> QED BY <2>1, <2>2, <2>3, <2>4, WokenFinite, SMT DEF NoLostWakeup
<1> QED BY <1>1, <1>2, <1>3 DEF IndInv

-----------------------------------------------------------------------------
\* The theorems

\* The invariant holds in every state of every behaviour.
THEOREM Invariance == EventSpec => []IndInv
<1>1. IndInv /\ [EventNext]_eventVars => IndInv'
    <2> SUFFICES ASSUME IndInv, [EventNext]_eventVars PROVE IndInv'
        OBVIOUS
    <2>1. CASE UNCHANGED eventVars
        BY <2>1 DEF eventVars, IndInv, EventTypeOK, ExactlyOnceInOrder, NoLostWakeup, Asleep, Woken
    <2>2. CASE Push \/ Clear \/ Stop
        BY <2>2, PushIndInv, ClearIndInv, StopIndInv
    <2>3. ASSUME NEW c \in Consumer, TryPop(c) PROVE IndInv'
        BY <2>3, FinishIdleIndInv DEF TryPop
    <2>4. ASSUME NEW c \in Consumer, Pop(c) PROVE IndInv'
        BY <2>4, FinishIdleIndInv, SleepIndInv DEF Pop
    <2>5. ASSUME NEW c \in Consumer, Recheck(c) PROVE IndInv'
        BY <2>5, FinishWokenIndInv, SleepIndInv DEF Recheck
    <2> QED BY <2>1, <2>2, <2>3, <2>4, <2>5, SpuriousWakeupIndInv DEF EventNext
<1> QED BY <1>1, InitIndInv, PTL DEF EventSpec

\* Every variable keeps its type, and the queue never holds more than was pushed.
THEOREM TypeCorrect == EventSpec => []EventTypeOK
<1>1. IndInv => EventTypeOK
    BY DEF IndInv
<1> QED BY <1>1, Invariance, PTL

\* Each event is queued, delivered once or discarded, and none overtakes another.
THEOREM OnceInOrder == EventSpec => []ExactlyOnceInOrder
<1>1. IndInv => ExactlyOnceInOrder
    BY DEF IndInv
<1> QED BY <1>1, Invariance, PTL

\* While a consumer sleeps, as many others are awake as events are queued.
THEOREM WakeupsSuffice == EventSpec => []NoLostWakeup
<1>1. IndInv => NoLostWakeup
    BY DEF IndInv
<1> QED BY <1>1, Invariance, PTL

=============================================================================
