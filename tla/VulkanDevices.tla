---------------------------- MODULE VulkanDevices ----------------------------
(***************************************************************************)
(* compatibility/win32/vulkan_wrapper.hpp: the choice of a device.  The    *)
(* devices are enumerated twice, once for their number and once for their  *)
(* handles, and one may be plugged in or out at any time; the result of    *)
(* no call is looked at.                                                   *)
(***************************************************************************)
EXTENDS Integers, FiniteSets, SequencesExt

CONSTANTS
    Gpu,
    MaxChanges,      \* bound: devices plugged in or out
    NullHandle,      \* an element of devices that the second call did not fill
    Indeterminate    \* physicalDevice before it is set

VARIABLES
    present,         \* the order the driver lists the devices in
    kind,            \* [Gpu -> [discrete, dimension]]
    changes,
    at, instance,
    deviceCount, list, k,
    maxScore, physicalDevice,
    logicalDevice,   \* made for a group of several devices
    undefined

vars == <<present, kind, changes, at, instance, deviceCount, list, k, maxScore, physicalDevice,
          logicalDevice, undefined>>

Init ==
    /\ present \in {s \in UNION {[1 .. n -> Gpu] : n \in 0 .. Cardinality(Gpu)} : IsInjective(s)}
    /\ kind \in [Gpu -> [discrete : BOOLEAN, dimension : {4096, 16384}]]
    /\ changes = 0 /\ at = "begin" /\ instance = FALSE
    /\ deviceCount = 0 /\ list = <<>> /\ k = 1 /\ maxScore = 0 /\ physicalDevice = Indeterminate
    /\ logicalDevice = FALSE /\ undefined = FALSE

\* Devices come and go; what is listed keeps its order.
Plug ==
    /\ changes < MaxChanges /\ at # "done"
    /\ \/ \E g \in Gpu \ ToSet(present) : present' = Append(present, g)
       \/ \E g \in ToSet(present) : present' = Remove(present, g)
    /\ changes' = changes + 1
    /\ UNCHANGED <<kind, at, instance, deviceCount, list, k, maxScore, physicalDevice, logicalDevice, undefined>>

CreateInstance ==
    /\ at = "begin" /\ at' = "count"
    /\ instance' \in BOOLEAN
    /\ UNCHANGED <<present, kind, changes, deviceCount, list, k, maxScore, physicalDevice, logicalDevice, undefined>>

CountDevices ==
    /\ at = "count" /\ at' = "fill"
    /\ deviceCount' = Len(present)
    /\ undefined' = ~ instance
    /\ UNCHANGED <<present, kind, changes, instance, list, k, maxScore, physicalDevice, logicalDevice>>

\* At most as many handles as there is room for; the rest of devices stays null.
FillDevices ==
    /\ at = "fill" /\ at' = "score"
    /\ list' = [j \in 1 .. deviceCount |-> IF j <= Len(present) THEN present[j] ELSE NullHandle]
    /\ UNCHANGED <<present, kind, changes, instance, deviceCount, k, maxScore, physicalDevice, logicalDevice, undefined>>

Score(g) == (IF kind[g].discrete THEN 10000 ELSE 0) + kind[g].dimension

\* Mutant: of two devices with one score the later is taken.
BetterOrEqual(g) == Score(g) >= maxScore

Better(g) == Score(g) > maxScore

ScoreDevice ==
    /\ at = "score"
    /\ IF k > Len(list) THEN at' = "groups" /\ UNCHANGED <<k, maxScore, physicalDevice, undefined>>
       ELSE /\ k' = k + 1 /\ UNCHANGED at
            /\ undefined' = (list[k] = NullHandle)
            /\ IF list[k] # NullHandle /\ Better(list[k])
                 THEN maxScore' = Score(list[k]) /\ physicalDevice' = list[k]
                 ELSE UNCHANGED <<maxScore, physicalDevice>>
    /\ UNCHANGED <<present, kind, changes, instance, deviceCount, list, logicalDevice>>

\* EnableMultiGPU: a logical device over the first group if it has several members, on
\* the physical device chosen.
EnableMultiGPU ==
    /\ at = "groups" /\ at' = "done"
    /\ \E several \in BOOLEAN :
          /\ several => Len(present) > 1
          /\ logicalDevice' = several
          /\ undefined' = (several /\ physicalDevice = Indeterminate)
    /\ UNCHANGED <<present, kind, changes, instance, deviceCount, list, k, maxScore, physicalDevice>>

Next ==
    /\ ~ undefined
    /\ \/ Plug \/ CreateInstance \/ CountDevices \/ FillDevices \/ ScoreDevice \/ EnableMultiGPU

Spec == Init /\ [][Next]_vars

-----------------------------------------------------------------------------
\* Properties

TypeOK ==
    /\ present \in Seq(Gpu) /\ IsInjective(present) /\ deviceCount \in 0 .. Cardinality(Gpu)
    /\ physicalDevice \in Gpu \cup {Indeterminate} /\ k \in 1 .. Cardinality(Gpu) + 1
    /\ at \in {"begin", "count", "fill", "score", "groups", "done"}

\* Reference: of the devices listed, the first of the best.
Best ==
    {g \in ToSet(list) :
        \A h \in ToSet(list) :
            /\ Score(h) <= Score(g)
            /\ Score(h) = Score(g) => \E n, m \in DOMAIN list : n <= m /\ list[n] = g /\ list[m] = h}

\* The device chosen (59-81) is the first of the best of those listed, and when devices
\* did not change meanwhile, of those there are; without any it is indeterminate, though InitializeVulkan
\* answers true.
BestDeviceChosen ==
    (at = "done" /\ ~ undefined) =>
        /\ physicalDevice \in IF Best = {} THEN {Indeterminate} ELSE Best
        /\ changes = 0 => ToSet(list) = ToSet(present)
=============================================================================
