------------------------------- MODULE D3D12 -------------------------------
(***************************************************************************)
(* compatibility/win32/D3D12Wrapper.hpp.  No result but the device's is    *)
(* looked at: a call that fails leaves a null behind, and the next use of  *)
(* it is undefined.  The three DirectStorage members are bare pointers     *)
(* with no initializer: they hold anything until InitializeDirectStorage   *)
(* sets them, and the destructor releases what they hold.                  *)
(***************************************************************************)
EXTENDS Naturals, FiniteSets

CONSTANTS
    MaxCalls         \* bound: calls of InitializeD3D12

VARIABLES
    supported,       \* the features of the device
    levels,          \* the feature levels it can be made with, of 1 .. 3, best first
    at,              \* where InitializeD3D12 is; "idle"; "destroyed"
    com,             \* the ComPtr members that hold an object
    level,           \* the level tried, then the one chosen
    storage,         \* [StorageMember -> "garbage", "null", "object"]
    alive,           \* [StorageMember -> objects made and not released]
    calls, returned, \* calls begun, and that returned
    undefined

vars == <<supported, levels, at, com, level, storage, alive, calls, returned, undefined>>

StorageMember == {"dsFactory", "dsDevice", "dsQueue"}
Feature       == {"raytracing", "mesh", "shadingRate", "storage"}
ComMember     == {"factory", "device", "queue", "raytracing", "mesh"}

hardware == <<supported, levels>>

Init ==
    /\ supported \in SUBSET Feature /\ levels \in SUBSET (1 .. 3)
    /\ at = "idle" /\ com = {} /\ level = 0
    /\ storage = [m \in StorageMember |-> "garbage"]
    /\ alive = [m \in StorageMember |-> 0]
    /\ calls = 0 /\ returned = 0 /\ undefined = FALSE

\* A step of InitializeD3D12 from one place to the next.
Go(from, to) ==
    /\ at = from /\ at' = to
    /\ UNCHANGED <<hardware, calls>>

\* The ComPtr m, emptied by taking its address, holds an object again or not.
Made(m) == com' \in {com \cup {m}, com \ {m}}

-----------------------------------------------------------------------------

CreateFactory ==
    /\ at = "idle" /\ calls < MaxCalls
    /\ calls' = calls + 1 /\ at' = "device" /\ level' = 1
    /\ Made("factory")
    /\ undefined' = ("factory" \notin com')    \* CheckFeatureSupport of it
    /\ UNCHANGED <<hardware, storage, alive, returned>>

\* Mutant: the loop goes on after the device was made.
TryNextLevel ==
    /\ Go("device", IF level < 3 THEN "device" ELSE "queue")
    /\ com' = IF level \in levels THEN com \cup {"device"} ELSE com
    /\ level' = IF level < 3 THEN level + 1 ELSE level
    /\ UNCHANGED <<storage, alive, returned, undefined>>

\* One round of the loop over the levels: the first that works ends it.
TryLevel ==
    /\ IF level \in levels
         THEN Go("device", "queue") /\ com' = com \cup {"device"} /\ UNCHANGED level
         ELSE /\ Go("device", IF level < 3 THEN "device" ELSE "queue")
              /\ com' = com \ {"device"}
              /\ level' = IF level < 3 THEN level + 1 ELSE level
    /\ UNCHANGED <<storage, alive, returned, undefined>>

CreateCommandQueue ==
    /\ Go("queue", "features")
    /\ Made("queue")
    /\ undefined' = ("device" \notin com)
    /\ UNCHANGED <<level, storage, alive, returned>>

\* InitializeRaytracing, InitializeMeshShaders, InitializeVRS.
InitializeFeatures ==
    /\ Go("features", "storage")
    /\ \E done \in SUBSET ({"raytracing", "mesh"} \cap supported) :
          com' = (com \ ({"raytracing", "mesh"} \cap supported)) \cup done
    /\ undefined' = ("shadingRate" \in supported /\ "queue" \notin com)
    /\ UNCHANGED <<level, storage, alive, returned>>

\* The member is set to a new object or to null; what it held before is not released.
SetStorage(m) ==
    \/ /\ storage' = [storage EXCEPT ![m] = "object"]
       /\ alive' = [alive EXCEPT ![m] = @ + 1]
    \/ /\ storage' = [storage EXCEPT ![m] = "null"]
       /\ UNCHANGED alive

\* The factory and the device are configured right after they are made.
StorageFactory ==
    /\ Go("storage", IF "storage" \in supported THEN "dsDevice" ELSE "return")
    /\ IF "storage" \in supported
         THEN SetStorage("dsFactory") /\ undefined' = (storage'["dsFactory"] = "null")
         ELSE UNCHANGED <<storage, alive, undefined>>
    /\ UNCHANGED <<com, level, returned>>

StorageDevice ==
    /\ Go("dsDevice", "dsQueue")
    /\ SetStorage("dsDevice") /\ undefined' = (storage'["dsDevice"] = "null")
    /\ UNCHANGED <<com, level, returned>>

StorageQueue ==
    /\ Go("dsQueue", "return")
    /\ SetStorage("dsQueue")
    /\ UNCHANGED <<com, level, returned, undefined>>

Return ==
    /\ Go("return", "idle")
    /\ returned' = returned + 1
    /\ UNCHANGED <<com, level, storage, alive, undefined>>

\* Mutant: the queue is not released.
DestroyButQueue ==
    /\ Go("idle", "destroyed")
    /\ com' = {}
    /\ alive' = [m \in StorageMember |-> IF storage[m] = "object" /\ m # "dsQueue" THEN alive[m] - 1 ELSE alive[m]]
    /\ undefined' \in IF \E m \in StorageMember : storage[m] = "garbage" THEN BOOLEAN ELSE {FALSE}
    /\ UNCHANGED <<level, storage, returned>>

\* The destructor: garbage that is not null by luck is released too.
Destroy ==
    /\ Go("idle", "destroyed")
    /\ com' = {}
    /\ alive' = [m \in StorageMember |-> IF storage[m] = "object" THEN alive[m] - 1 ELSE alive[m]]
    /\ undefined' \in IF \E m \in StorageMember : storage[m] = "garbage" THEN BOOLEAN ELSE {FALSE}
    /\ UNCHANGED <<level, storage, returned>>

Next ==
    /\ ~ undefined
    /\ \/ CreateFactory \/ TryLevel \/ CreateCommandQueue \/ InitializeFeatures
       \/ StorageFactory \/ StorageDevice \/ StorageQueue \/ Return \/ Destroy

Spec == Init /\ [][Next]_vars

-----------------------------------------------------------------------------
\* Properties

TypeOK ==
    /\ com \subseteq ComMember /\ level \in 0 .. 3
    /\ storage \in [StorageMember -> {"garbage", "null", "object"}]
    /\ alive \in [StorageMember -> 0 .. MaxCalls]
    /\ returned <= calls

\* InitializeD3D12 answers true and nothing else (85): when it does, the factory and a
\* device of the best level the hardware has are there - without them it does not get
\* so far - and storage that is supported has its factory and device.
TrueMeansDevice ==
    (at = "idle" /\ returned > 0) =>
        /\ {"factory", "device"} \subseteq com
        /\ level \in levels /\ \A l \in levels : level <= l
        /\ "storage" \in supported => storage["dsFactory"] = "object" /\ storage["dsDevice"] = "object"

\* A wrapper initialized at most once leaves no storage object behind (88-92); each
\* further call leaves those of the call before it.
StorageReleased ==
    at = "destroyed" =>
        \A m \in StorageMember : alive[m] <= IF returned > 0 THEN returned - 1 ELSE 0
=============================================================================
