----------------------------- MODULE EventQueue -----------------------------
(***************************************************************************)
(* ui/EventQueue.hpp: the queue between the display server and the threads *)
(* that handle its events.  push, clear and stop, and pop up to its return *)
(* or its wait, are critical sections of one mutex, so each is one step;   *)
(* a consumer in condition.wait is asleep until it is notified, or wakes   *)
(* for no reason, and then looks again once it has the mutex back.         *)
(***************************************************************************)
EXTENDS Naturals, FiniteSets, SequencesExt

CONSTANTS
    Consumer,    \* the threads that call pop
    MaxEvents    \* bound: how many events are ever pushed

ASSUME EventAssumption    == MaxEvents \in Nat
ASSUME ConsumerAssumption == IsFiniteSet(Consumer)

VARIABLES
    events,      \* the queue; an event is the number of its push
    shutdown,
    stage,          \* [Consumer -> "idle", "asleep" (in wait), "woken" (wants the mutex)]
    pushed,      \* history: how many events were pushed
    delivered,   \* history: the events pop returned, in the order it did
    discarded    \* history: the events clear threw away

eventVars == <<events, shutdown, stage, pushed, delivered, discarded>>

Asleep == {c \in Consumer : stage[c] = "asleep"}
Woken  == {c \in Consumer : stage[c] = "woken"}

EventInit ==
    /\ events = <<>>
    /\ shutdown = FALSE
    /\ stage = [c \in Consumer |-> "idle"]
    /\ pushed = 0
    /\ delivered = <<>>
    /\ discarded = {}

-----------------------------------------------------------------------------

\* notify_one: any one of the waiting threads, or nobody when none waits.
NotifyOne ==
    IF Asleep = {} THEN UNCHANGED stage
    ELSE \E c \in Asleep : stage' = [stage EXCEPT ![c] = "woken"]

\* Mutant: the consumer is notified only when the queue was empty.
PushQuiet ==
    /\ pushed < MaxEvents
    /\ pushed' = pushed + 1
    /\ events' = Append(events, pushed + 1)
    /\ IF events = <<>> THEN NotifyOne ELSE UNCHANGED stage
    /\ UNCHANGED <<shutdown, delivered, discarded>>

\* Mutant: the event is queued twice.
PushTwice ==
    /\ pushed < MaxEvents
    /\ pushed' = pushed + 1
    /\ events' = events \o <<pushed + 1, pushed + 1>>
    /\ NotifyOne
    /\ UNCHANGED <<shutdown, delivered, discarded>>

\* push: events are taken in, and a consumer notified, even after stop.
Push ==
    /\ pushed < MaxEvents
    /\ pushed' = pushed + 1
    /\ events' = Append(events, pushed + 1)
    /\ NotifyOne
    /\ UNCHANGED <<shutdown, delivered, discarded>>

Clear ==
    /\ discarded' = discarded \cup ToSet(events)
    /\ events' = <<>>
    /\ UNCHANGED <<shutdown, stage, pushed, delivered>>

\* Mutant: notify_one instead of notify_all.
StopOne ==
    /\ shutdown' = TRUE
    /\ NotifyOne
    /\ UNCHANGED <<events, pushed, delivered, discarded>>

Stop ==
    /\ shutdown' = TRUE
    /\ stage' = [c \in Consumer |-> IF c \in Asleep THEN "woken" ELSE stage[c]]
    /\ UNCHANGED <<events, pushed, delivered, discarded>>

-----------------------------------------------------------------------------
\* pop

\* Mutant: the newest event is taken.
FinishNewest(c) ==
    /\ IF events = <<>> \/ shutdown
         THEN UNCHANGED <<events, delivered>>
         ELSE /\ delivered' = Append(delivered, Last(events))
              /\ events' = Front(events)
    /\ stage' = [stage EXCEPT ![c] = "idle"]
    /\ UNCHANGED <<shutdown, pushed, discarded>>

\* After the wait, if any: false when there is nothing or the queue was stopped.
Finish(c) ==
    /\ IF events = <<>> \/ shutdown
         THEN UNCHANGED <<events, delivered>>
         ELSE /\ delivered' = Append(delivered, Head(events))
              /\ events' = Tail(events)
    /\ stage' = [stage EXCEPT ![c] = "idle"]
    /\ UNCHANGED <<shutdown, pushed, discarded>>

\* pop(event, false)
TryPop(c) ==
    /\ stage[c] = "idle"
    /\ Finish(c)

\* The predicate of condition.wait, evaluated with the mutex held, on entry and
\* after each wake-up: the consumer goes on, or (back) to sleep.
Ready == events # <<>> \/ shutdown

Pop(c) ==
    /\ stage[c] = "idle"
    /\ IF Ready
         THEN Finish(c)
         ELSE /\ stage' = [stage EXCEPT ![c] = "asleep"]
              /\ UNCHANGED <<events, shutdown, pushed, delivered, discarded>>

Recheck(c) ==
    /\ stage[c] = "woken"
    /\ IF Ready
         THEN Finish(c)
         ELSE /\ stage' = [stage EXCEPT ![c] = "asleep"]
              /\ UNCHANGED <<events, shutdown, pushed, delivered, discarded>>

SpuriousWakeup(c) ==
    /\ stage[c] = "asleep"
    /\ stage' = [stage EXCEPT ![c] = "woken"]
    /\ UNCHANGED <<events, shutdown, pushed, delivered, discarded>>

-----------------------------------------------------------------------------

EventNext ==
    \/ Push \/ Clear \/ Stop
    \/ \E c \in Consumer : TryPop(c) \/ Pop(c) \/ Recheck(c) \/ SpuriousWakeup(c)

\* A thread that was woken gets the mutex in the end: every critical section is
\* short and none waits inside for anything.  Nobody is made to call an operation.
EventFairness == \A c \in Consumer : WF_eventVars(Recheck(c))

EventSpec == EventInit /\ [][EventNext]_eventVars /\ EventFairness

-----------------------------------------------------------------------------
\* Properties

EventTypeOK ==
    /\ pushed \in 0 .. MaxEvents
    /\ events \in Seq(1 .. pushed) /\ Len(events) <= pushed
    /\ shutdown \in BOOLEAN
    /\ stage \in [Consumer -> {"idle", "asleep", "woken"}]
    /\ delivered \in Seq(1 .. pushed)
    /\ discarded \subseteq 1 .. pushed

\* Every event that was pushed is in the queue, was returned by one pop or was
\* discarded by clear - and only one of these - and the ones returned and the ones
\* still queued are in the order of their pushes, whoever took them (42-70).
ExactlyOnceInOrder ==
    LET sequel == delivered \o events IN
    /\ \A j, k \in DOMAIN sequel : j < k => sequel[j] < sequel[k]
    /\ ToSet(sequel) \cap discarded = {}
    /\ ToSet(sequel) \cup discarded = 1 .. pushed

\* No wake-up is lost (45, 52): while a consumer sleeps, each queued event has a
\* woken consumer coming for it, and after stop nobody sleeps.
NoLostWakeup ==
    Asleep # {} => ~ shutdown /\ Len(events) <= Cardinality(Woken)

\* An event that is queued while some consumer sleeps is taken or cleared, unless
\* the queue is stopped.
EventTaken ==
    \A e \in 1 .. MaxEvents :
        (Contains(events, e) /\ Asleep # {}) ~> (~ Contains(events, e) \/ shutdown)

\* stop sends every waiting consumer home (72-76).
StopReleases == \A c \in Consumer : shutdown ~> stage[c] = "idle"
=============================================================================
