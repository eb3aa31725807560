-------------------------- MODULE LatencyAnalyzer --------------------------
(***************************************************************************)
(* src/latency_analyzer.cpp: a singleton that times operations and reports *)
(* on them.  Every operation takes the one std::mutex of the object;       *)
(* startMeasurement and endMeasurement test initialized before they do,    *)
(* and generateLatencyReport calls, with the mutex held, three operations  *)
(* that take it again.  std::mutex is not recursive: a thread that locks   *)
(* it twice waits for itself.                                              *)
(*                                                                         *)
(* Times are left out: of a component's history only whether there is any  *)
(* is kept, which is what the report's loop depends on.                    *)
(***************************************************************************)

CONSTANTS
    Thread,
    NoThread,    \* the mutex is free
    Component,
    Operation

VARIABLES
    initialized,
    mutex,         \* its holder
    measurements,  \* keys of the measurements under way
    history,       \* components with at least one finished measurement
    thresholds,    \* components with a threshold
    pc,            \* where each thread is
    key,           \* the argument of startMeasurement or endMeasurement
    pending        \* the calls the report has still to make

vars == <<initialized, mutex, measurements, history, thresholds, pc, key, pending>>

\* The key of a measurement: component::operation.
Key == Component \X Operation

\* The calls made for one component, in the order of the stream (187-191).
ReportCalls == {"average", "max", "95th", "99th"}

Init ==
    /\ initialized = FALSE
    /\ mutex = NoThread
    /\ measurements = {}
    /\ history = {}
    /\ thresholds = {}
    /\ pc = [t \in Thread |-> "idle"]
    /\ key \in [Thread -> Key]
    /\ pending = [t \in Thread |-> {}]

-----------------------------------------------------------------------------
\* Operations that hold the mutex from their first statement to their last.

Initialize(t) ==
    /\ pc[t] = "idle" /\ mutex = NoThread /\ ~ initialized
    /\ measurements' = {} /\ history' = {} /\ thresholds' = {}
    /\ initialized' = TRUE
    /\ UNCHANGED <<mutex, pc, key, pending>>

Shutdown(t) ==
    /\ pc[t] = "idle" /\ mutex = NoThread /\ initialized
    /\ measurements' = {} /\ history' = {} /\ thresholds' = {}
    /\ initialized' = FALSE
    /\ UNCHANGED <<mutex, pc, key, pending>>

SetLatencyThreshold(t) ==
    /\ pc[t] = "idle" /\ mutex = NoThread
    /\ \E c \in Component : thresholds' = thresholds \cup {c}
    /\ UNCHANGED <<initialized, mutex, measurements, history, pc, key, pending>>

-----------------------------------------------------------------------------
\* startMeasurement and endMeasurement: the test, then the locked part.

Call(t, where) ==
    /\ pc[t] = "idle" /\ initialized
    /\ pc' = [pc EXCEPT ![t] = where]
    /\ \E k \in Key : key' = [key EXCEPT ![t] = k]
    /\ UNCHANGED <<initialized, mutex, measurements, history, thresholds, pending>>

StartMeasurement(t) ==
    /\ pc[t] = "start" /\ mutex = NoThread
    /\ measurements' = measurements \cup {key[t]}
    /\ pc' = [pc EXCEPT ![t] = "idle"]
    /\ UNCHANGED <<initialized, mutex, history, thresholds, key, pending>>

\* isLatencyExceeded (99) only reads, and takes no lock.
EndMeasurement(t) ==
    /\ pc[t] = "end" /\ mutex = NoThread
    /\ history' = IF key[t] \in measurements THEN history \cup {key[t][1]} ELSE history
    /\ measurements' = measurements \ {key[t]}
    /\ pc' = [pc EXCEPT ![t] = "idle"]
    /\ UNCHANGED <<initialized, mutex, thresholds, key, pending>>

-----------------------------------------------------------------------------
\* generateLatencyReport

ReportCall(t) ==
    /\ pc[t] = "idle" /\ mutex = NoThread
    /\ mutex' = t
    /\ pc' = [pc EXCEPT ![t] = "report"]
    /\ pending' = [pending EXCEPT ![t] = history \X ReportCalls]
    /\ UNCHANGED <<initialized, measurements, history, thresholds, key>>

\* getAverageLatency, getMaxLatency or getPercentile: it locks, reads, unlocks.
ReportRead(t) ==
    /\ pc[t] = "report" /\ mutex = NoThread
    /\ \E call \in pending[t] : pending' = [pending EXCEPT ![t] = @ \ {call}]
    /\ UNCHANGED <<initialized, mutex, measurements, history, thresholds, pc, key>>

ReportReturn(t) ==
    /\ pc[t] = "report" /\ pending[t] = {}
    /\ mutex' = NoThread
    /\ pc' = [pc EXCEPT ![t] = "idle"]
    /\ UNCHANGED <<initialized, measurements, history, thresholds, key, pending>>

-----------------------------------------------------------------------------

Working(t) ==
    StartMeasurement(t) \/ EndMeasurement(t) \/ ReportRead(t) \/ ReportReturn(t)

Next ==
    \E t \in Thread :
        \/ Initialize(t) \/ Shutdown(t) \/ SetLatencyThreshold(t)
        \/ Call(t, "start") \/ Call(t, "end") \/ ReportCall(t)
        \/ Working(t)

\* A call under way goes on whenever it is not waiting for the mutex, and gets the
\* mutex if it is free again and again.
Fairness == \A t \in Thread : SF_vars(Working(t))

Spec == Init /\ [][Next]_vars /\ Fairness

-----------------------------------------------------------------------------

\* A report, once begun, is finished: what the test ReportGenerationPerformance
\* (src/latency_analyzer_performance_test.cpp:121-127) takes for granted and times.
ReportEnds == \A t \in Thread : pc[t] = "report" ~> pc[t] # "report"
=============================================================================
