---------------------------- MODULE GameProfiles ----------------------------
(***************************************************************************)
(* core/performance_metrics.h: applying a game's profile takes references  *)
(* to the objects of Direct3D and DirectStorage, any call may fail, and    *)
(* the code behind a failure decides what is given back.  The pointers to  *)
(* the rasterizer and sampler states are not initialized: after a failed   *)
(* creation they hold anything, which the clean-up tests and may release.  *)
(* Nothing sets initialized, so shutdown returns at once and the monitor   *)
(* thread outlives the object.                                             *)
(***************************************************************************)
EXTENDS Naturals, Sequences, FiniteSets

CONSTANTS
    StartTimes,             \* what the CPU's counters may show when the object is made
    MaxTime, MaxApplied     \* bounds: the time that passes, and calls of applyProfile

VARIABLES
    profiles,       \* gameProfiles has its entry
    path, pc,       \* the function that runs, and where in its table
    held,           \* the references it holds
    stray,          \* a pointer that was never set was released: undefined
    priorityClass,
    thread,         \* "running", or "terminated": destroyed while joinable
    start, last,    \* [idle, kernel, user]: the counters at first, and at the last reading
    times, since,   \* history: the time that passed, and had passed at the last reading
    utilization,    \* [active, total] of the last reading
    share,          \* history: what really passed between the last two readings
    applied

vars == <<profiles, path, pc, held, stray, priorityClass, thread, start, times, last, since,
          utilization, share, applied>>

readingVars == <<start, times, last, since, utilization, share>>

\* A step takes what, or fails and goes on at else; or it gives what back.
Take(what, else) == [op |-> "take", what |-> what, else |-> else]
Create(what)     == [op |-> "create", what |-> what, else |-> 0]
Release(what)    == [op |-> "release", what |-> what, else |-> 0]
Tidy(what)       == [op |-> "tidy", what |-> what, else |-> 0]    \* if (p) p->Release()

\* configureGraphics: the rasterizer is made for the shadows, the chain of three for
\* VSync, the sampler for the filtering.
ConfigureGraphics == <<
    Take("device+context", 13), Create("rastState"),
    Take("dxgiDevice", 9), Take("dxgiAdapter", 8), Take("dxgiFactory", 7),
    Release("dxgiFactory"), Release("dxgiAdapter"), Release("dxgiDevice"),
    Create("samplerState"), Tidy("samplerState"), Tidy("rastState"),
    Release("device+context")>>

\* Mutant: the module stays loaded when there is no queue.
AllocateResourcesLeaks == <<
    Take("device", 9), Take("dxgiDevice", 8), Take("adapter", 7), Take("tiledResource", 6),
    Release("tiledResource"), Release("adapter"), Release("dxgiDevice"), Release("device"),
    Take("dsModule", 13), Take("queue", 13), Release("queue"), Release("dsModule")>>

\* allocateResources: without tiled resources the fourth fails, without DirectStorage
\* (or when the profile does not want it) the ninth.
AllocateResources == <<
    Take("device", 9), Take("dxgiDevice", 8), Take("adapter", 7), Take("tiledResource", 6),
    Release("tiledResource"), Release("adapter"), Release("dxgiDevice"), Release("device"),
    Take("dsModule", 13), Take("queue", 12), Release("queue"), Release("dsModule")>>

Init ==
    /\ profiles = FALSE /\ path = "none" /\ pc = 1 /\ held = {} /\ stray = FALSE
    /\ priorityClass = "normal" /\ thread = "running"
    /\ start \in [{"idle", "kernel", "user"} -> StartTimes] /\ last = start
    /\ times = [idle |-> 0, kernel |-> 0, user |-> 0] /\ since = times
    /\ utilization = [active |-> 0, total |-> 0] /\ share = utilization /\ applied = 0

InitializeProfiles ==
    /\ profiles' = TRUE
    /\ UNCHANGED <<path, pc, held, stray, priorityClass, thread, readingVars, applied>>

ApplyProfile ==
    /\ path = "none" /\ profiles /\ thread = "running" /\ applied < MaxApplied
    /\ path' = "graphics" /\ pc' = 1 /\ held' = {} /\ applied' = applied + 1
    /\ UNCHANGED <<profiles, stray, priorityClass, thread, readingVars>>

Goto(next) ==
    IF path = "graphics" /\ next > Len(ConfigureGraphics)
      THEN path' = "resources" /\ pc' = 1 /\ priorityClass' = "high"    \* cpuPriority 8
    ELSE IF path = "resources" /\ next > Len(AllocateResources)
      THEN path' = "none" /\ pc' = 1 /\ UNCHANGED priorityClass
    ELSE pc' = next /\ UNCHANGED <<path, priorityClass>>

Step ==
    LET s == IF path = "graphics" THEN ConfigureGraphics[pc] ELSE AllocateResources[pc] IN
    /\ path # "none"
    /\ \/ s.op \in {"take", "create"} /\ held' = held \cup {s.what} /\ Goto(pc + 1) /\ UNCHANGED stray
       \/ s.op = "take" /\ Goto(s.else) /\ UNCHANGED <<held, stray>>
       \/ s.op = "create" /\ Goto(pc + 1) /\ UNCHANGED <<held, stray>>
       \/ /\ s.op \in {"release", "tidy"} /\ held' = held \ {s.what} /\ Goto(pc + 1)
          /\ stray' \in {stray, stray \/ s.what \notin held}
          /\ s.op = "release" => stray' = (stray \/ s.what \notin held)
    /\ UNCHANGED <<profiles, thread, readingVars, applied>>

\* The end of the program.
Destroy ==
    /\ path = "none" /\ thread' = "terminated"
    /\ UNCHANGED <<profiles, path, pc, held, stray, priorityClass, readingVars, applied>>

\* Time passes; the time of the kernel includes the idle time.
Tick(kind) ==
    /\ times[IF kind = "idle" THEN "kernel" ELSE kind] < MaxTime
    /\ times' = [k \in DOMAIN times |->
                   IF k = kind \/ (kind = "idle" /\ k = "kernel") THEN times[k] + 1 ELSE times[k]]
    /\ UNCHANGED <<profiles, path, pc, held, stray, priorityClass, thread, start, last, since,
                   utilization, share, applied>>

Width == 256    \* stands for 2^64

\* GetSystemTimes: the counters run from where they were, and wrap.
Counter(k) == (start[k] + times[k]) % Width

Passed(k) == (Counter(k) + Width - last[k]) % Width

\* getCPUUtilization, for updateAllMetrics, which is still empty.  When nothing passed it
\* divides 0.0 by 0: total is 0, and the share is no number.
GetCPUUtilization ==
    LET total == (Passed("kernel") + Passed("user")) % Width IN
    /\ utilization' = [active |-> (total + Width - Passed("idle")) % Width, total |-> total]
    /\ last' = [k \in DOMAIN times |-> Counter(k)] /\ since' = times
    /\ LET real(k) == times[k] - since[k]
       IN  share' = [active |-> real("kernel") + real("user") - real("idle"),
                     total |-> real("kernel") + real("user")]
    /\ UNCHANGED <<profiles, path, pc, held, stray, priorityClass, thread, start, times, applied>>

Next ==
    \/ InitializeProfiles \/ ApplyProfile \/ Step \/ Destroy \/ GetCPUUtilization
    \/ \E kind \in DOMAIN times : Tick(kind)

TypeOK ==
    /\ path \in {"none", "graphics", "resources"} /\ pc \in 1 .. 12
    /\ priorityClass \in {"normal", "high"} /\ thread \in {"running", "terminated"}
    /\ applied <= MaxApplied

\* Wherever a call fails, each function gives back exactly what it took: nothing is
\* held at its end, and the only pointers released unset are those of the two states
\* that are not initialized (146-235, 237-380).
ReferencesBalanced ==
    /\ pc = 1 => held = {}
    /\ path # "none" =>
         LET s == IF path = "graphics" THEN ConfigureGraphics[pc] ELSE AllocateResources[pc]
         IN  s.op = "release" => s.what \in held

\* A reading is of the time that really passed since the last one, though the counters
\* wrap in between, and no more of it is active than passed (414-440).
UtilizationIsShare == utilization = share /\ utilization.active <= utilization.total
=============================================================================
