------------------------- MODULE PerformanceMetrics -------------------------
(***************************************************************************)
(* src/performance_metrics.cpp.  Threads record values and time            *)
(* operations under one mutex that is not recursive: stopTimer, which      *)
(* holds it, calls recordMetric, which takes it, and goes no further.      *)
(***************************************************************************)
EXTENDS Naturals, Sequences

CONSTANTS
    Recorders,      \* threads
    Names,          \* of metrics and timers
    Values,
    MaxSamples,     \* bound: samples of a metric
    MaxEpochs,      \* bound: calls of initialize that do something
    Nobody

VARIABLES
    initialized, mutex,
    metrics,        \* [Names -> Seq of [value, tested, stored, by]], with history epochs
    timers,         \* the names with a running timer
    thresholds,     \* [names that have one -> value]
    recording,      \* [Recorders -> <<call, name>> or <<call, name, value, epoch of its test>>,
                    \*   or <<>> outside]
    epoch, alerts   \* history: initializations; the names last recorded with an alert

vars == <<initialized, mutex, metrics, timers, thresholds, recording, epoch, alerts>>

Init ==
    /\ initialized = FALSE /\ mutex = Nobody
    /\ metrics = [n \in Names |-> <<>>] /\ timers = {} /\ thresholds = [n \in {} |-> 0]
    /\ recording = [t \in Recorders |-> <<>>] /\ epoch = 0 /\ alerts = {}

Clear ==
    /\ metrics' = [n \in Names |-> <<>>] /\ timers' = {}
    /\ thresholds' = [n \in {} |-> 0] /\ alerts' = {}

\* Mutant: what is left from before the shutdown stays.
InitializeKeeping ==
    /\ mutex = Nobody /\ ~ initialized /\ epoch < MaxEpochs
    /\ initialized' = TRUE /\ epoch' = epoch + 1
    /\ UNCHANGED <<metrics, timers, thresholds, alerts, mutex, recording>>

Initialize ==
    /\ mutex = Nobody /\ ~ initialized /\ epoch < MaxEpochs
    /\ Clear
    /\ initialized' = TRUE /\ epoch' = epoch + 1
    /\ UNCHANGED <<mutex, recording>>

Shutdown ==
    /\ mutex = Nobody /\ initialized
    /\ Clear /\ initialized' = FALSE
    /\ UNCHANGED <<mutex, recording, epoch>>

\* recordMetric and startTimer test initialized before they lock.
Enter(t, what) ==
    /\ recording[t] = <<>> /\ initialized
    /\ recording' = [recording EXCEPT ![t] = what]
    /\ UNCHANGED <<initialized, mutex, metrics, timers, thresholds, epoch, alerts>>

CheckThreshold(name, samples) ==
    name \in DOMAIN thresholds /\ samples # <<>> /\ samples[Len(samples)].value > thresholds[name]

RecordMetric(t) ==
    /\ mutex = Nobody /\ recording[t] # <<>> /\ recording[t][1] = "record"
    /\ LET name    == recording[t][2]
           samples == Append(metrics[name], [value |-> recording[t][3], tested |-> recording[t][4],
                                             stored |-> epoch, by |-> t])
       IN  /\ Len(samples) <= MaxSamples
           /\ metrics' = [metrics EXCEPT ![name] = samples]
           /\ alerts' = IF CheckThreshold(name, samples) THEN alerts \cup {name} ELSE alerts \ {name}
    /\ recording' = [recording EXCEPT ![t] = <<>>]
    /\ UNCHANGED <<initialized, mutex, timers, thresholds, epoch>>

StartTimer(t) ==
    /\ mutex = Nobody /\ recording[t] # <<>> /\ recording[t][1] = "start"
    /\ timers' = timers \cup {recording[t][2]}
    /\ recording' = [recording EXCEPT ![t] = <<>>]
    /\ UNCHANGED <<initialized, mutex, metrics, thresholds, epoch, alerts>>

\* stopTimer of a name without a timer returns; with one it waits for its own mutex.
StopTimer(t) ==
    /\ mutex = Nobody /\ recording[t] # <<>> /\ recording[t][1] = "stop"
    /\ IF recording[t][2] \in timers
         THEN mutex' = t /\ UNCHANGED recording
         ELSE recording' = [recording EXCEPT ![t] = <<>>] /\ UNCHANGED mutex
    /\ UNCHANGED <<initialized, metrics, timers, thresholds, epoch, alerts>>

\* setThreshold works on a manager that is not initialized, too.
SetThreshold(name, value) ==
    /\ mutex = Nobody
    /\ thresholds' = [n \in DOMAIN thresholds \cup {name} |-> IF n = name THEN value ELSE thresholds[n]]
    /\ UNCHANGED <<initialized, mutex, metrics, timers, recording, epoch, alerts>>

\* calculateStats: the loop, from the first sample on; average and deviation, rounded
\* down, are of the sums.
CalculateStats(samples) ==
    LET value(k) == samples[k].value
        all[k \in 0 .. Len(samples)] ==
            IF k = 0 THEN [min |-> value(1), max |-> value(1), sum |-> 0]
            ELSE LET acc == all[k - 1] IN
                 [min |-> IF value(k) < acc.min THEN value(k) ELSE acc.min,
                  max |-> IF value(k) > acc.max THEN value(k) ELSE acc.max,
                  sum |-> acc.sum + value(k)]
        total == all[Len(samples)]
    IN  [min |-> total.min, max |-> total.max, average |-> total.sum \div Len(samples)]

Next ==
    \/ Initialize \/ Shutdown
    \/ \E t \in Recorders :
          \/ RecordMetric(t) \/ StartTimer(t) \/ StopTimer(t)
          \/ \E n \in Names : Enter(t, <<"start", n>>) \/ Enter(t, <<"stop", n>>)
                              \/ \E v \in Values : Enter(t, <<"record", n, v, epoch>>)
    \/ \E n \in Names, v \in Values : SetThreshold(n, v)

TypeOK ==
    /\ initialized \in BOOLEAN /\ mutex \in Recorders \cup {Nobody}
    /\ timers \subseteq Names /\ DOMAIN thresholds \subseteq Names
    /\ alerts \subseteq Names /\ epoch \in 0 .. MaxEpochs
    /\ \A n \in Names : Len(metrics[n]) <= MaxSamples

\* Sample k of a name is of a recorder that saw an earlier life of the manager than the
\* one it is stored in.
Stale(n, k) == metrics[n][k].tested # epoch

\* The samples a manager reports on were stored since it was last initialized; a sample
\* may come from a recorder that tested initialized in an earlier life, and got the lock
\* after a shutdown and an initialize, but from each recorder there is one at most in a
\* life (22-76).
StaleOnePerRecorder ==
    /\ \A n \in Names : \A k \in DOMAIN metrics[n] : metrics[n][k].stored = epoch
    /\ \A n, m \in Names : \A k \in DOMAIN metrics[n], j \in DOMAIN metrics[m] :
          Stale(n, k) /\ Stale(m, j) /\ metrics[n][k].by = metrics[m][j].by => n = m /\ k = j

\* The statistics bound one another (104-133).
StatsOrdered ==
    \A n \in Names : metrics[n] # <<>> =>
        LET s == CalculateStats(metrics[n]) IN
        /\ s.min <= s.average /\ s.average <= s.max
        /\ {s.min, s.max} \subseteq {metrics[n][k].value : k \in DOMAIN metrics[n]}
=============================================================================
