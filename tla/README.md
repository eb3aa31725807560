# Verification of kernelc-moderne

TLA+ modules for the parts of this kernel whose correctness depends on order, on
concurrency, on what fails half way or on arithmetic at its edges; TLC runs that
check them on small instances; and TLAPS proofs, for every instance, about the page
allocator, the memory manager that stands on it, the event queue, IPC, the reads of the
virtual file system, the managers of bounded resources and the kernel's services.

`PROJECT.json` lists the components, the runs with their properties, a mutant of
the code for each property of a passing run, the lines of source that each
definition stands for, the hazards of the code, the findings and the theorems.

Run a model with `tlc -config X.cfg M` and a proof with `tlapm M.tla`, in this
directory.

Much of the repository is a collection of independent classes: several files
define a class of the same name, many headers declare operations nobody defines,
and template arguments and system includes are missing, so there is no one build.
A module is therefore about one class as its file defines it, or about the few that
call each other. Where a call goes to a function that no file defines, the module says
what its name and its use imply, and marks it external in the map.

## 1. The system

| Part | State | Operations | What is hard in it | Module |
|---|---|---|---|---|
| Page allocator, `memory/PageAllocator.hpp` | bitmap, `freePages`, one mutex | `allocate`, `free`, `getFreePageCount` (no lock) | sizes that wrap, runs at the end of memory, the count read in the middle of a call | `PageAllocator`, `PageMemory` |
| Enhanced memory manager, `memory/MemoryManager.hpp` | bitmap of 4 KiB pages | `allocateMemory` | two page sizes over one bitmap | `EnhancedMemory` |
| Unified memory manager, `memory/MemoryManager.cpp` | pools with a bump pointer, page table, TLB, table of allocations, free physical pages | `allocateMemory`, `freeMemory`, `defragmentPool` | frees out of order, blocks that move under their owners, unmapping | `MemoryManager` |
| Graphics, virtual and game memory, `memory/*.hpp` | cached resources, textures with trackers; block list and page tracker; game blocks and named resources | preload, move, evict; allocate, compress; allocate, lock | counters charged on one path and credited on another; a handle changed by a move | `GraphicsResources`, `VirtualMemory`, `EnhancedMemory` |
| Shader manager and compiler | bounded cache, binaries by source | load, compile, evict | the limit when a load has to make room | `ShaderCache` |
| Latency analyzer, performance metrics, `src/` | measurements; timers, samples, thresholds; one mutex each | start, end, report; record, time, shut down | a test before the lock; operations that call locked operations | `LatencyAnalyzer`, `PerformanceMetrics` |
| Game profiles and monitor, `core/performance_metrics.h` | references, handles, last readings | apply a profile, read processor use | every call may fail; what each failing path gives back | `GameProfiles` |
| Event queue, `ui/EventQueue.hpp` | queue, `shutdown`, condition variable | `push`, `pop`, `clear`, `stop` | wake-ups: lost, spurious, too few | `EventQueue` |
| Window manager, widgets, controls, `ui/` | windows in stacking order, active window, focused widget; pixels, tabs, nodes | create, destroy, focus, drag, dispatch, resize, draw | callbacks between two steps of a loop; references to what was destroyed | `WindowManager`, `Canvas`, `Controls` |
| Scheduler and its timer, `scheduler/scheduler.cpp`, `src/InterruptManager.cpp` | processes, thread slots, handler table | create, terminate, `schedule` from the timer | a timer interrupt in the middle of a call; a switch that does not return | `Scheduler` |
| Task and game schedulers, process manager | ready queue; games with their handles; processes and jobs | add, yield, boost; create, query, schedule | a walk under appends; a query in the middle of a creation | `TaskAndGameSchedulers`, `ProcessManager` |
| IPC, `ipc/ipc_manager.hpp` | message queue, shared segments with reference counts, signal handlers | send, receive, allocate, deallocate, register, process | head of the queue for somebody else; a handler that wants the lock it runs under | `IPC` |
| Virtual file system, `filesystem/VirtualFileSystem.cpp` | cache of levels, buffer pool, mapped files | `read`, and three threads: optimizer, compressor, collector | all of it at once, with no lock around `read` | `VirtualFileSystem` |
| File cache, `filesystem/FileCache.hpp` | entries, coalesced writes | read, write, flush | a flush that fails half way, with writers behind it | `FileCache` |
| Interrupt handler and drivers | handler table, IDT, interrupt flag; drivers by name | register, enable, disable; register, unregister, shut down | the order of `sti`, `cli` and the flag; an initialize or shutdown that fails | `Interrupts` |
| System calls, security, network, power | handler table and objects; access lists and policies; rings and routes; state and observers | the four calls; set and check; write, read, route; change state | one of several calls failing or throwing; a test before a lock; counters that only go up; observers that change what they are told of | `SystemCalls`, `SecurityManager`, `NetworkStack`, `PowerManager` |
| Asset loader, `multimedia/AssetLoader.hpp` | thread pool, loading queue | load, queue | one wake-up for each load; a pool whose threads never come back | `AssetLoader` |
| Audio thread, COM apartments | the thread and its buffers; apartments by thread | start, stop; initialize, uninitialize | stopping in the middle of a block | `AudioSystem` |
| Boot and the kernel's start | stages, devices found, what is up | `init`, `main`, `start` | a probe that counts past its type | `Boot` |
| Win32, Direct3D 12, Vulkan wrappers | libraries, function pointers, objects with references | load, look up, create in turn, release | results nobody looks at | `Win32Layer`, `D3D12`, `VulkanDevices` |
| Gamepad, vibration motor | battery and read counter; ramps and calibration | read; set, update, stop | thresholds and ramps at their edges | `GamepadHaptics` |

How the parts meet: the unified memory manager takes its pools, and what the
pools cannot serve, from a page allocator; the display server pushes events that
the window manager and other threads pop; the timer interrupt calls the
scheduler; the shader manager calls the compiler; the file system calls its cache and
its buffer pool, which its three threads change behind it; the kernel's start and the
boot loader call into interrupts and devices. Elsewhere the parts only share singletons.

## 2. What is modelled

### Memory

- **`PageRuns`**: runs of pages and the first that fits, shared by the memory
  modules. Two of them use it in place of a scan; that a scan finds exactly
  `FirstFit` is what the page allocator's refinement shows.
- **`PageAllocator`**: `PageAllocator.hpp`, one step for each iteration of its
  loops. `allocationMutex` serialises the calls, but `getFreePageCount` takes no
  lock, so the states inside a call can be seen. `pc` is the place of a thread,
  `i`, `startPage`, `consecutivePages` and `pageCount` are the code's locals.
  Sizes are `size_t`: `PageCount` wraps at `SizeLimit`. The variable `held` is
  history: who was given what, from which `free` gets its arguments. Clients give
  back whole pages from the start of a block they hold.
- **`PageMemory`**: what the allocator promises: a set of pages, no bitmap, no
  loop and no lock. `PageAllocator!Implements` is the refinement: the abstract
  step happens as the lock is released.
- **`MemoryManager`**: `MemoryManager.cpp`. Each call holds the manager's mutex
  from start to end, so it is one step. Addresses and sizes are in cache lines;
  the page allocator is first fit, the physical pool gives any free page. A
  client that frees a block moved by `defragmentPool` uses the pointer it has,
  as a real one would.
  `TLBSlot` takes the address modulo `TLB_SIZE`, as the code does; with 4096-byte
  pages and 1024 entries that is always slot 0. The instance is chosen so that two
  slots are in use, which is the harder case.

### Files

- **`VirtualFileSystem`**: `read` of `VirtualFileSystem.cpp`, the multi-level
  cache, the buffer pool, the mapped files and the three background threads. Each
  call on the cache or the pool is one step, under the lock of that object; what
  `read` does between them is a step of its own, with other readers and the
  threads in between. Files are not written by this class, so a piece of data is
  its place in the file, and whether it is packed. Of the timestamps only the
  order is kept, a relation on the cached paths. `pool.resize` moves the buffers
  or not, as the vector's capacity decides. After a move a reader's pointer is
  stale: its release clears a flag in memory the pool no longer uses. The
  unsynchronised insertions into `mappedFiles` are modelled as steps that each
  succeed; a table broken by two of them at once is not modelled. Promotion
  between levels (428-442) is left out: `accessCount` counts the levels holding a
  path and would have to exceed 100, which `LevelAssumption` states. A descriptor is a
  pointer into the vector `openFiles`, which opening another file may move: a reader whose
  descriptor's memory is used for something else is in `lost` and is not followed, since
  what it reads there is undefined, until it opens its file again.

### Events and measurements

- **`EventQueue`**: `EventQueue.hpp`, any number of consumers. A consumer is idle,
  asleep in `condition.wait`, or woken and on its way back to the mutex; spurious
  wake-ups are a step. `pushed`, `delivered` and `discarded` are history.
- **`IPC`**: `ipc_manager.hpp`: a message queue with one priority order for everybody,
  segments with reference counts, and signal handlers. Each operation on the queue or
  the segments is one step under its mutex. A handler runs under `handlerMutex` for as
  many steps as it makes calls: any operation of a process may also come from a handler.
  One that registers a handler or raises a signal from there waits for the mutex its own
  thread holds, and stays. Among messages of one priority any may be at the head. Processes let go of uses of segments
  they have; `mmap` gives any address that is not mapped. `inbox`, `answer` and `handles`
  are history; each use in `handles` has a number of its own, so that a process may have
  several of one segment.
- **`LatencyAnalyzer`**: every operation of `latency_analyzer.cpp` with its
  locking. Times are left out; of a component's history only whether it is empty
  is kept, which the report's loop depends on.

### The managers of bounded resources (`Resources`)

`Resources` puts nine components side by side: `EventQueue` and `IPC`, which it extends,
and seven in the instances of six modules. They share no state and no lock, and none calls
another, so a behaviour exercises the one named by the variable `focus`; the product would
show nothing more. Its steps with the focus on the event queue are those of `EventSpec`, and
on the messages those of `IPCSpec`.

- **`GraphicsResources`**, `memory/GraphicsResourceManager.hpp`: preloading with eviction,
  and textures with trackers that move between memories, where each move may fail. A handle
  is the path and the number of its moves: who keeps the old one after a move is what
  `TrackersHaveInfos` is about. `registerResource` is declared only, so it may charge a
  texture or not; what textures change in `currentCacheSize` is kept apart
  (`textureCharge`), and evicting tests the sum as a word that wraps. Nothing ever puts a
  block into `dedicatedVRAM`: the operations that come to `defragmentMemory` read from an
  empty vector and end there (`crashed`). `resourceMutex` makes each operation one step.
- **`VirtualMemory`**, `memory/vmm.hpp`: block list, compression under pressure, page
  faults without a lock. `compressedMemory` and `totalMemory` are not initialized: they
  start with any value, and `charged` is how much was added since.
- **`EnhancedMemory`**, the two classes of that name. `memory/EnhancedMemoryManager.hpp`:
  blocks recorded twice, and named resources whose data is lost when the name is used
  again. `memory/MemoryManager.hpp`: a page count and an address in huge pages over a
  bitmap of small ones, of which a huge block marks one for each huge page.
- **`ShaderCache`**, `drivers/graphics/shader_manager.hpp` over `memory/shader_compiler.hpp`:
  both caches; a compilation or a module creation may fail at any time. The four default
  shaders are cached one after the other, each making room for itself.
- **`FileCache`**, `filesystem/FileCache.hpp`: readers and writers of one path with no lock;
  a flush takes the queue, applies write after write, and may fail at each; its last step clears
  the queue, writes that came since included (`dropped`).
- **`AssetLoader`**, `multimedia/AssetLoader.hpp`: the pool's workers, of which each takes
  one endless `processingLoop`, its condition variable and `notify_one`.

### The kernel's services (`KernelServices`)

`KernelServices` composes thirteen modules in the same way.

- **`Boot`**: `boot/bootloader.cpp`, `boot/Main.cpp` and `core/kernel.cpp`. The probe's
  `uint8_t` bus counter is a number modulo `Buses`, its bound is `BusLimit`; as both are 256,
  the probe ends only by running out of memory for devices, and what follows it is not
  modelled.
- **`Scheduler`**: `scheduler/scheduler.cpp` on `src/InterruptManager.cpp`. `createProcess`
  and `terminateProcess` are steps between which the timer may come. `loadProcess` ends in
  `iretq`: what was interrupted is gone and the assignments behind it never run. The
  parallel maximum over the thread slots writes one shared variable, so any active slot can
  win.
- **`TaskAndGameSchedulers`**, **`ProcessManager`**: the ready queue and the context that
  runs; games, the handles that could be opened for them, and a detached thread that walks the list while
  it grows (the model ends where the walk is undefined); a creation's sections with queries
  in between and jobs on the pool.
- **`SystemCalls`**: each call a handler makes on another manager is a step that may fail, or
  throw: `handleSyscall` catches that and answers -1, and what the handler had made stays
  as it is (`abandoned`).
- **`SecurityManager`**: epochs count the lives of the manager. `setSecurityPolicy` tests
  `initialized` before it takes the lock, then validates and stores under it; a policy
  keeps the epoch of the test and that of the store. Users and groups match separately, and
  a permission that is no bit of an entry makes `checkAccess` throw before it logs.
- **`NetworkStack`**: head and tail only count up; the bytes are numbered, so that reading
  can be compared with writing.
- **`PerformanceMetrics`**, **`GameProfiles`**, **`PowerManager`**: samples with the epochs of
  their test and their store, and `stopTimer`'s second lock; references through every
  failing path, clean-up of uninitialized pointers included, and the share of processor time
  from two readings of counters that start anywhere and wrap; observers, registered once or
  more often, that change the state or the list of observers while they are told.
- **`AudioSystem`**: the audio thread against `stopProcessing`, and `com/com_manager.hpp`.
- **`Interrupts`**: `sti`, `cli` and the flag as separate steps with interrupts in between;
  drivers whose initialize fails or whose shutdown throws.

### Interface and devices (`Desktop`)

`Desktop` composes seven modules in the same way; the windows and the focus of widgets,
both in `WindowManager`, are exercised apart.

- **`WindowManager`**, over an instance of `EventQueue`: its operations may run from a
  callback between two steps of `processEvents` and `handleResize`. A click starts a drag,
  which nothing ends, since every button event counts as a press; a window that is dragged
  goes wherever its own code takes it when the mouse moves over it. A change of the vector
  under a range-for is undefined, and the model ends there. `strayed` is history of the two
  ways the code itself leaves a reference behind. `setFocusedWidget` has the blur handler
  in its middle, which may move the focus again.
- **`Canvas`** and **`Controls`** (tabs and trees): what is drawn, against the picture,
  the tabs and the forest it stands for.
- **`Win32Layer`**, **`D3D12`**, **`VulkanDevices`**: libraries, lookups and objects made
  in turn, each call of which can fail; what an uninitialized pointer holds is chosen
  freely; devices come and go between the call that counts them and the call that lists
  them.
- **`GamepadHaptics`**: the battery check every so many reads; ramps,
  dead zone and calibration of the motor.

## 3. What is checked

| Run | Instance | What it shows |
|---|---|---|
| `page_allocator` | 2 threads, 5 pages of 4 bytes, a 5-bit `size_t`, sizes 0, 4, 5, 11, 28, 31 | blocks disjoint and inside the memory, no page leaked, the lock-free count off by the work under way only, first fit, and the lock always released |
| `memory_manager` | 3 clients, one pool of 3 pages and 2 pages beyond, 2 physical pages, sizes 2, 5 and one that wraps | page table, TLB, physical pool and page records agree; the bump pointer is never below the blocks on record; page blocks stay mapped and exclusive unless a size wrapped |
| `file_reads` | 2 readers, a buffered and a mapped file, 2 levels, a pool that grows from 1 to 2 buffers | cached data was in its file; no buffer given to two readers; an overfull level shrinks |
| `resources` | the nine components of `Resources`, each by itself: 2 resources and 1 texture over a cache of 4; 4 blocks; 3 pointers; 6 pages; 4 shaders for a cache of 2; 2 writers, 1 reader, 3 writes; 2 workers, 3 loads; 3 consumers, 4 events; 2 processes, 2 messages of 2 priorities, 2 segment names and addresses, 1 signal | counters cover what is held, records agree, shaders leave oldest first, loads are served; each event once, in order, or discarded, no wake-up lost, `stop` releases everybody; a message reaches its receiver once and nobody else, and is received unless another gets ahead; a segment lives exactly as long as its users |
| `kernel` | the thirteen of `KernelServices`: 4 buses; 3 processes on 3 slots; 2 callers of 3 system calls; 2 lives of the security manager and of the metrics; 6 bytes through a ring of 3; 2 observers in 3 entries, nested twice; counters that start at 0 or two below their width; 2 audio threads; 2 interrupt vectors | `CountsAgree`, `MadeIsAccounted`, `AnswersAreOfThisLife`, `SwitchedInOrder`, `TerminatedStaysDown` |
| `desktop` | the eight of `Desktop`: 2 windows, 2 events, two sizes of screen, drags to two places; 3 widgets, blur handlers nested twice; 3 nodes; 2 libraries, 2 initializations; 2 devices and 1 change | `InterfaceAgrees`, `DevicesAgree` |
| `pool_overlap`, `latency_report`, `read_eof`, `buffer_pool`, `boot`, `haptics` | small | a counterexample each, section 6 |

The properties of the three compositions are conjunctions of one invariant of each part,
stated in the part's module:

| Property | Invariants of the parts |
|---|---|
| `Accounted` | `ChargeCovers` (graphics), `CompressedCovers`, `TotalsAgree` |
| `RecordsAgree` | `TrackersHaveInfos`, `HeapOwned`, `SmallPagesApart`, `CacheBounded`, `WritesLocated`, `CacheShowsFile`, `LoadsOnce` |
| `MadeIsAccounted` | `OrphansWereThrown` (system calls), `VisibleIsSetUp`, `PidsUnique`, `AddedIsReady`, `ReferencesBalanced`, `DriversReachable`, `ApartmentsBalanced` |
| `AnswersAreOfThisLife` | `StaleOnePerSetter`, `LastSetDecides`, `StaleOnePerRecorder`, `UtilizationIsShare`, `SettingsOfOutermost`, `StreamsIntact`, `RoutesAreLatest` |
| `CountsAgree` | `HandlesRecorded`, `StatsOrdered` |
| `SwitchedInOrder` | `BootOrder`, `LostOnlyWhileEnabling`, `StoppedIsQuiet` |
| `InterfaceAgrees` | `StackAgrees`, `OnScreen`, `FocusAgrees`, `BufferIsPicture`, `TabsAgree`, `RowsShowForest` |
| `DevicesAgree` | `ReferencesBalanced`, `NullStays` (Win32), `TrueMeansDevice`, `StorageReleased`, `BestDeviceChosen`, `LowNoticed`, `MotorInRange` |

`PROJECT.json` names one mutant for each property of a run. The modules hold more, one
for nearly every conjunct above, each next to the definition it changes and marked
`Mutant:`; put in place of that definition, each of them makes its run fail.

Several of these invariants hold with an exception that the code makes, and say so:

- `StackAgrees`: a window focused after its destruction. `FocusAgrees`: a blur handler
  that moves the focus while another one does. `OnScreen`: a window that was dragged.
- `SmallPagesApart` is about blocks of small pages only; huge ones do overlap them.
- `WritesLocated`: a write queued while some thread flushed may be dropped by its `clear`,
  and no other may.
- `OrphansWereThrown`: what a handler had made when it was thrown out of.
- `StaleOnePerSetter`, `StaleOnePerRecorder`: one policy or sample of each thread, which was
  between its test and the lock when the manager was shut down and initialized again.
- `SettingsOfOutermost` says which change the settings follow, and it is not always the
  latest. `LostOnlyWhileEnabling`: interrupts between `sti` and the flag.
- `DriversReachable`: a driver whose name was taken or whose shutdown failed.
  `StorageReleased`: a wrapper initialized twice. `NullStays`: a null that is kept after the
  library was loaded. `TerminatedStaysDown`: a termination the timer cut off.

The exception is as narrow as the history variables can state it; those that one would not
expect of the code are listed in section 5.

Why the bounds are enough to be worth something:

- Five pages and two threads give every shape of fragmentation around a request of
  one to three pages, runs that end at the last page, and requests that never fit.
  Sizes 28 and 31 are the ones for which `size + PAGE_SIZE - 1` wraps (to a count of 0).
- In `memory_manager` the pool can be full, emptied out of order and compacted, and
  the pages behind it can run out; `CompactedMoved` and the other mutants show that
  the properties notice. One pool is enough for them: pools share nothing but the
  table of allocations, and their addresses are disjoint.
- In `file_reads` the two files together overfill the first level until it has grown,
  so eviction, misses and packed entries meet in every order.
- In `resources` each cache and budget is smaller than what is asked of it together, so
  that every load may have to evict; two writers and a reader have a write queued while
  another thread flushes; more loads than workers leave a load queued with one on its way.
  Three consumers and four events give a consumer asleep, one woken and one idle, with more
  events than consumers. Two messages are enough for one to be behind a message for somebody
  else, or overtaken by one of higher priority, and two uses of segments for a shared one,
  two separate ones, and a name used again at another address. An endless stream of messages
  needs no more of them: `HeadReceived` says what becomes of one that nothing overtakes.
- In `kernel` every table fills, counters wrap, bytes go once round the ring and
  beyond its end, and there is a second life after a shutdown; two callers or threads are
  the fewest that can meet in the middle of an operation.
- In `boot` the counter has as many values as its loop's bound, as in the code. In `haptics`
  the dead zone is three steps of the ramp and full intensity twelve; with a time between
  updates in which the ramp crosses the dead zone, 4 units, the property holds.
- In `desktop` a window is destroyed, made again and restacked while another is active,
  the screen is smaller than a window and larger, and a third widget can take the focus
  while it passes from the first to the second.

`memory_manager` uses symmetry of clients and of physical pages, and `desktop` of
windows (invariants only). `memory_manager` leaves `availableMemory` out of its view and
`file_reads` the history variable `atEnd`: they are written and never read, so states that
differ in them alone have the same future, and no property of these runs but the type of
the variable depends on them. Deadlock checking is off where every client may simply hold
what it has and no operation is enabled (`memory_manager` and `pool_overlap`), in
`latency_report`, whose finding is a thread that waits for itself, and in the three
compositions: a service that was stopped or reached its bounds does nothing more, `stopTimer`
and a signal handler may wait for themselves, and a model ends where the code's behaviour is
undefined. It is off in `boot` and `haptics` too, whose properties are about what goes on.

Fairness, and why the code justifies it:

- `PageAllocator`: `WF` of the steps of a thread inside a call. It runs a bounded loop
  and waits for nothing. Nobody is made to call.
- Event queue, in `Resources`: `WF` of `Recheck` for each consumer (`ConsumerGoesOn`), a
  woken consumer gets the mutex: each critical section is short and none waits inside for
  anything else.
- IPC: none. `HeadReceived` states what it needs as its hypothesis: that every process
  comes back to asking, which one stuck in a handler does not, and that whoever asks often
  enough when its message is first is answered.
- `VirtualFileSystem`: `WF` of `Optimize`: its thread comes back every minute while the
  file system exists. Nothing is asked of readers, the compressor or the collector.
- `Resources`: `WF` of a worker of the asset loader that can go on: it holds the queue's
  mutex for a moment, and a load and its callback end. Nobody is made to queue a load.
- `LatencyAnalyzer`: `SF` of a call under way, as a fair mutex would give. It is the
  strongest fairness, and the report still does not end.
- `Boot`: `WF` of `ProbeBus`, a CPU in the loop goes on with it. `GamepadHaptics`: `MotorSpec`
  has `WF` of `Updates`, as the test's loop calls `update` again and again.

`KernelServices` and `Desktop` state safety only and assume no fairness.

## 4. What is proved

### Page allocator

`PageAllocatorProofs`, for any set of threads, any number and size of pages, any width
of `size_t` that can count the memory and one page more, and any requests:

| Theorem | Statement |
|---|---|
| `TypeCorrect` | `Spec => []TypeOK`; `freePages` stays in `0 .. TotalPages`, so it never wraps |
| `Exclusion` | `Spec => []HeldDisjoint` |
| `Accounting` | `Spec => []NoLeak` |
| `CountExact` | `Spec => []FreeCountExact` |
| `Refinement` | `Spec => Implements`, the safety part of `PageMemory` |

The argument. None of the properties is inductive. A step of the marking loop keeps
blocks disjoint only if the run it marks was found free and still is; that it still is
depends on the lock; and that `freePages` does not go below 0 depends on its being the
number of clear bits. `IndInv` is therefore the conjunction of the four properties with

- `LockInv`: a thread is inside a call exactly when it holds the mutex;
- `ArgumentInv`: the page count is that of the request, and the request one of `Sizes`;
- `ScanInv`: the current run is free, ends where the scan is, and is shorter than asked;
- `FirstFitInv`: no run that is long enough starts below it;
- `BlockInv`: what is being marked or cleared lies in the memory and in nobody's block.

`InitIndInv`, one lemma for each action and `Invariance` establish it; for an action of
one thread, the other threads' parts follow from `LockInv`. For the refinement,
`PageCountExact` shows that a size whose rounding wraps gives 0 where the true number of
pages is more than there are, so the scan refuses both; `ScanInv` and `FirstFitInv` give
`FirstFit` at the step that ends the scan.

The assumptions are those of `PageAllocator`. `LimitAssumption`, the only one with
content, says that `TotalPages + 1` pages can be counted in `size_t`. With less, a
request that wraps could come out as a positive count.

### Event queue

`EventQueueProofs`, for any finite set of consumers and any number of events:

| Theorem | Statement |
|---|---|
| `TypeCorrect` | `EventSpec => []EventTypeOK` |
| `OnceInOrder` | `EventSpec => []ExactlyOnceInOrder` |
| `WakeupsSuffice` | `EventSpec => []NoLostWakeup` |

Here the conjunction of the three properties, `IndInv`, is inductive as it stands.
`PushSequel`, `TakeSequel` and `ClearSequel` say what the actions do to the events
delivered and queued, one after the other: push adds the newest at the end, a pop moves
the border between the two and clear cuts at it. For the wake-ups, a consumer that was
woken leaves either with an event, so that one fewer is queued, or because the queue was
stopped, when nobody is asleep; a consumer that never slept only takes an event away.
`ConsumerAssumption`, that there are finitely many consumers, lets them be counted.

### Unified memory manager

`MemoryManagerProofs`, for any clients, pools, number of pages, size of the TLB and
requests:

| Theorem | Statement |
|---|---|
| `TypesCorrect` | `Spec => []TypeOK` |
| `PoolCursorAlwaysCovers` | `Spec => []PoolCursorCovers` |
| `HeldPagesAlwaysMapped` | `Spec => []HeldPagesMapped` |
| `TLBAlwaysCoherent` | `Spec => []TLBCoherent` |
| `PhysicalPagesExclusive` | `Spec => []PhysicalExclusive` |
| `PagesAlwaysAccounted` | `Spec => []PagesAccounted` |

`TLBCoherent` alone is not inductive. The TLB is invalidated by slot and not by page, so
that a page's entry is gone after its slot was cleared has to be known from where entries
sit (`SlotInv`: an entry is in the slot of its page). And a page that is mapped anew must
not have an old entry: it was free, and what is free is not in the page table
(`PagesAccounted`), to which every entry belongs. `PoolsKept` says that the pages of the
pools stay taken, so no block outside them overlaps one. With these, `PagesInv` is
inductive. `FitIsFree` is the fact about runs of pages, and a lemma for the allocation and
one for the free of pages follow table, TLB and physical pool through it together.

The pools (`PoolInv`): `used` goes down by the size of the record that a free erases, so it
stays above 0, and above what is on record, only because it covers the sum of the records.
Blocks may lie over each other by then (section 6), which takes nothing from the sum. What
a second allocation at an address that is on record does to it is `RecordedWith`.
Compaction is a recursive function over sets of blocks, lowest addresses first. `PackedExists`
shows that the recursion has a solution, `PackedOnce` what one round of it gives, and
`CompactedPacks` that each block comes to lie right behind those below it and none is added,
whatever overwrote what on the way; the records left add up to no more than before
(`CompactedRecords`).

The blocks that clients hold (`HeldInv`) are in the pools or are the pages recorded for
them, and nobody else holds an address in the first page of a block of pages, which is how
`freeMemory` finds it. With `PagesAccounted` this gives `HeldPagesMapped`. Where a block's
pages are, and how many, are divisions with remainder (`Divide`, `RoundUp`); a request that
wraps is recorded with fewer pages than it was asked for, and the property is about
histories without one (`wrapped`), as `MemoryManager!HeldPagesMapped` says.

`PhysicalAssumption` says that there are at least as many physical pages as pages outside
the pools: the code takes a page of the physical pool without looking whether there is
one. `MemoryAssumption` says that the memory and its blocks can be counted in `size_t`.

### IPC

`IPCProofs`, for any processes, names, addresses, signals and priorities, and any number
of messages and uses:

| Theorem | Statement |
|---|---|
| `TypeCorrect` | `IPCSpec => []IPCTypeOK` |
| `MessagesReceivedOnce` | `IPCSpec => []ReceivedOnceByReceiver` |
| `SegmentsServeTheirHandles` | `IPCSpec => []SegmentsServeHandles` |

A segment goes when its reference count comes to 0; that it then has no user left needs
the count to be the number of uses, which is part of `SegmentsServeHandles`; that the
mapping taken away with it was not another segment's needs addresses to differ
(`SegmentsInv`); and that uses can be counted needs their numbers to be unique and bounded
(`HandlesInv`, `UsesCounted`). `MessagesInv`, that messages are finitely many, gives the
same for the messages. A process stuck in its own signal handler disturbs none of it: it
takes no more steps, and the queue and the segments have other mutexes.

### Virtual file system

`VirtualFileSystemProofs`, for any readers, files, levels, pool and read sizes, with the
optimizer, the compressor and the collector taking their steps anywhere:

| Theorem | Statement |
|---|---|
| `TypesCorrect` | `Spec => []TypeOK` |
| `CachedPiecesGenuine` | `Spec => []PiecesGenuine` |
| `BuffersExclusive` | `Spec => []BufferExclusive` |

What is cached is genuine only if what is about to be cached is: the invariant
(`PiecesInv`) covers the piece a reader holds between its read and its `put`, and the
packed copy the compressor holds between its `get` and its `put`, whatever was evicted
in between. `LocalsInv` says what the locals of `read` are at each place, among them that
there is a buffer wherever one is filled or released. A pool that grows makes every pointer
stale at once or leaves all of them good, and a fresh buffer is one that nobody points to;
that is why `BufferExclusive` survives it.

The last part of `TypeOK`, `RecencyTypeOK`, says that the timestamps put the cached paths,
and no others, in a strict total order, so that which entries go before which is settled
whenever a level is overfull. A `put` or a hit moves a path to the end of the order
(`TouchedOrder`); an eviction takes paths out (`EvictedOrder`).

### The managers of bounded resources

`ResourcesProofs`, for any sizes of the managers (what `EventQueueProofs` and `IPCProofs`
prove is about the same actions, which `Resources` takes over as they are):

| Theorem | Statement |
|---|---|
| `TypesCorrect` | `Spec => []TypeOK` |
| `AlwaysAccounted` | `Spec => []Accounted` |
| `RecordsAlwaysAgree` | `Spec => []RecordsAgree` |
| `OldestEvicted` | `Spec => EvictsOldest`, an action property |

A step of the program is, to each manager, one of its own or none (`StepsOfParts`); each
has an inductive invariant, and `IndInv` is their conjunction. What they have beyond the
property:

| Manager | Invariant | Why |
|---|---|---|
| Graphics | `GraphicsInv` | until an operation crashes in `defragmentMemory`, no texture was moved twice, so each handle is that of its path; who has a tracker is in the texture cache, so a texture that is loaded has none, and there are finitely many |
| | `ChargeInv` | what preloading charged covers the sum of the cached resources, an id has one entry, and what is evicted is charged no more than it was. What textures charge is kept apart, as it may be anything |
| Virtual memory | `VirtualInv` | a free block is not compressed, so what compression adds and freeing takes off are sums over the same blocks, whatever the counter started with |
| Game memory | `TotalInv` | the total is the sum of the sizes on record, so a free never takes it below 0 |
| | `GameInv` | the block of a name that is used again belongs to no other name |
| Huge pages | `HugeInv` | as many bits as a block has units are set in the bitmap. For a block of small pages these are its pages, and a first fit is clear, so of two such blocks one ends before the other starts (`Behind`), whatever huge blocks were marked between them |
| Shaders | `ShaderInv`, `ShaderTypes` | no entry was used later than now |
| Files | `FileInv`, `FileTypes` | during a flush, what was taken is in the file or still to be applied, what is queued was taken or came while some thread flushed (`overlapping`), and what the cache is about to show was applied; only what so came is ever dropped |
| Assets | `AssetInv`, `AssetTypes` | a worker holds a load exactly while it runs it; the pool has no more loops than it has workers |

For `OldestEvicted`, `Dropping` relates the cache at the start of a step to what it has
become half way: what was dropped is no younger than anything that is there, and what
stayed was used no less. Making room, adding an entry and the clean-up each keep it
(`RemoveOldestDrops`, `CacheShaderDrops`, `FreshDrops`), so any number of them one after
the other does.

`TypesCorrect` and `AlwaysAccounted` belong together: a counter that is decremented stays
in its type because it covers what can still be taken off it. What it covers are sums over
a sequence, a map or a set that changes by some of its elements. `SumTheorems` proves what
is needed of the library's `SumFunctionOnSet`: that it is a natural number (`SumType`), does
not depend on the order (`SumTakeOut`, by which any element may be taken out first), is
additive (`SumUnion`), monotone (`SumOfFewer`, `SumOfMore`) and the same under renaming of
the elements (`SumOverImage`, for a sequence from which entries were removed). The library
defines it by recursion over subsets. No induction rule can be instantiated here, but a
least counterexample can be named: `PartialSumsAgree` takes the smallest set on which two
solutions of the recursion differ, and `SumTakeOut` the smallest on which the order matters.

`ResourcesAssumption` says that pages have a size, that nobody asks for no bytes, which
the code refuses, that the shader cache has room for an entry, that `NoLoad` is not
the number of a load, and that the pool has finitely many workers. `GraphicsAssumption`
says that sizes and bounds are natural numbers, that a resource has at least a byte and
that a word holds some numbers; `ShaderAssumption`, that the names, sources and types of the default shaders are
among those there are.

### The kernel's services

`KernelServicesProofs`, for any sizes of the services:

| Theorem | Statement |
|---|---|
| `TypesCorrect` | `Spec => []TypeOK` |
| `CountsAlwaysAgree` | `Spec => []CountsAgree` |
| `MadeIsAlwaysAccounted` | `Spec => []MadeIsAccounted` |
| `AnswersAlwaysOfThisLife` | `Spec => []AnswersAreOfThisLife` |
| `OrderKept` | `Spec => []SwitchedInOrder` |
| `TerminatedNeverLoaded` | `Spec => []TerminatedStaysDown`, stated over the threads the timer can load next |

The services share no state. `StepsOfParts` shows that a step of the system is, to each
service, one of its own steps or none; each service has an inductive invariant of its
own, and `IndInv` is their conjunction. What each invariant has beyond the property:

| Service | Invariant | Why |
|---|---|---|
| Boot | `BootInv` | what the steps so far have set up is still set up, and interrupts come on in the last two, so IDT, memory and paging are there by then |
| Scheduler | `SchedulerInv` | process *j* has pid *j*; a call in progress has the next pid, a new object and a slot; every process of the table has a slot; no active slot belongs to a terminated process. The timer may take the CPU from a call at any step, so each of these has to hold between any two |
| Interrupts, drivers | `InterruptInv` | the flag follows the interrupts but while they are switched on; objects have numbers of their own |
| Audio, COM | `AudioInv` | only a thread that is processing has a block; apartments before the first initialize are none |
| Metrics | `MetricsInv` | a recorder on its way that tested for an earlier life has no sample from an earlier life yet, so it adds the only one (`LateHasNoOther`); a minimum is no larger than any sample, and the sum of *n* samples is between *n* times the smallest and *n* times the largest (`StatsBound`), so the average lies between them |
| Tasks | `TaskInv` | the ready queue only loses an entry to `switchContext` |
| Games | `GameInv` | the handles opened for a process are those in the entries, summed over all entries, whichever could not be opened: a scan that runs again appends entries with handles of their own, and the monitor's walk stays within the list |
| Security | `PolicyInv`, `SecurityInv` | a setter on its way that tested for an earlier life has no policy from an earlier life yet; an access list has one entry for a user and group, the last one set, and `findEntry` finds it |
| Power | `PowerInv` | the bottom of the stack of changes under way is the outermost one; when the stack is empty, mode and settings are of the last of these |
| Profiles | `ProfileInv`, `ReadingInv` | at each step of a profile, on each of its failing paths, what is held (`Held`, with what may be held besides); a counter is where it started plus the time that passed, modulo its width, so the difference of two readings is the time between them even when it wrapped; idle time is a part of kernel time |
| Network | `StreamInv`, `RouteInv` | byte *k* of the stream is in its slot from when it is written until it is read, and head, tail and what was consumed agree; the list of routes is the end of all that were added |
| System calls | `SyscallInv` | a caller holds an object exactly between the step that made it and the step that hands it over, and nobody else does; an incomplete object is held, or was abandoned by a handler that threw |

`TypeOK` needs, besides `IndInv`, what each service keeps within its bounds; `TypesInv` is the
conjunction of these (`BootTypes`, `SchedulerBounds`, `TaskTypes` and so on), inductive under
`IndInv`. Where a table is bounded, the bound is the size the code compares with (devices,
drivers, rings, routes, samples) or one of the model's bounds on a history.

The assumptions: `BootAssumption`, that the counter's width is not beyond the loop's
bound; `ProfileAssumption`, that counters start anywhere in the width they are counted in and
that all the time of a behaviour is less than half that width; `NetworkAssumption`, that rings and the list of routes have room for something;
`SyscallAssumption`, which tells model values apart; `GamesAssumption`, that finitely many
processes run; `MetricsAssumption`, that values are whole numbers; and `BoundsAssumption`, that
sizes and bounds are natural numbers and the audio buffers finitely many.

TLC checks each of these inductive invariants on the instance of its run, with the same
states as the run itself, by a configuration that names `IndInv` (and `TypesInv`) for the proof module (with
a finite set of lengths for `AnyPiece` in that of the file system).

### Model-checked only

- Liveness (`LockReleased`, `EventTaken`, `StopReleases`, `HeadReceived`, `CacheShrinks`,
  `LoadsServed`, and the findings about what should end), which is out of the prover's reach.
- `TypeOK`, `InterfaceAgrees` and `DevicesAgree` of `Desktop`. `Controls` declares recursive
  operators, as its code recurses over the nodes of a tree, and the prover does no arithmetic
  in a module that reaches one.

## 5. Not modelled, and why

- Second frees, and frees of what was never allocated, in `PageAllocator`: they break
  the contract of `free`. `getFragmentationRatio` only reads.
- `initialize` called again, where a module says it is the initial state.
- The fragmentation counters of `MemoryManager.cpp` that nothing reads.
- In `VirtualFileSystem.cpp`: encryption and the error log, which `read` does not use;
  stopping the threads; a file that was opened and cannot be mapped for want of address
  space, where `read` follows a null pointer; what a read answers through a descriptor whose
  memory was moved. `filesystem/vfs.cpp` and `NetworkFS` call
  functions no file defines.
- In `ipc_manager.hpp`: the sizes of segments, the destructors, which nothing calls, and
  the release of a segment's mutex after the segment is erased (120), which is undefined
  and touches no state of the model. `ipc_manager.cpp` calls functions no file defines.
- `src/vmm.cpp` and `include/vmm.hpp`: their page tables are written through functions no
  file defines.
- Latencies, hit ratios, throughput, graphs and logs: they only reach the log or the
  screen, except for the collector's two decisions, which the model makes freely.
- The monitoring threads of power and metrics, whose loops read sensors no file defines.
- Boot stages behind the hardware probe: it ends only when memory for devices runs out, and
  then by an exception (section 6).
- Of the interface: rendering of windows, the menu bar, buttons, dialogs and the web view,
  each a flag, a drawing or a forwarded call; `ui_manager.cpp`, whose handlers no file
  defines.
- Dragging of data (`ui/DragDropManager.hpp`; a window's own drag is modelled): nothing sets `dropTarget`, so `endDrag` never delivers
  a drop, and the rest is two assignments.
- `graphics_manager.cpp`, which forwards to a shader manager it never sets; the multimedia
  managers, which forward to codecs no file defines; the other Win32 wrappers and the game
  compatibility settings; register access in `devices` and the architecture's headers.

Disagreements with what one would expect of the code that have no run of their own,
because no line of the repository says otherwise, or because the code behind them is
undefined and a module ends there:

- `memory/MemoryManager.cpp:205`: `availableMemory` only grows.
- `memory/MemoryManager.hpp:84`: a huge block marks one bit of the small pages' bitmap for each
  huge page and covers as many small pages as a huge one has; what is allocated later lies
  over it, and its address, an index of small pages times the huge page size, may be beyond
  the memory. `SmallPagesApart` is about blocks of small pages.
- `memory/GraphicsResourceManager.hpp:220`: no block is ever put into `dedicatedVRAM.blocks`,
  so `blocks.size() - 1` wraps and the walk reads from an empty vector (`crashed`).
- `filesystem/FileCache.hpp:222`: the flush clears the queue at its end, and with it what was
  written since it took its copy (`dropped`).
- `filesystem/VirtualFileSystem.hpp:170`: the descriptor handed out points into a vector that
  the next open may move (`lost`).
- `src/performance_metrics.cpp:98`: `stopTimer` records its result through an operation that
  takes the mutex it holds, and waits for itself whenever the timer runs.
- `src/performance_metrics.cpp:61`, `security/security_manager.cpp:136`: `initialized` is tested
  before the lock, so a sample or policy of an earlier life may come in after the next
  initialize, one for each thread on its way.
- `core/performance_metrics.h:433`: two readings with no time between them divide 0 by 0; the
  share is then no number. `UtilizationIsShare` compares the two differences, not the share.
- `power/power_manager.cpp:104`: an observer that changes the state from its callback has its
  change undone by the settings of the outer one, applied last; the state is then the
  inner one's (`SettingsOfOutermost`).
- `syscall/syscall_manager.cpp:25`: a handler that is thrown out of leaves what it made, which
  nothing frees (`abandoned`).
- `interrupt/InterruptHandler.hpp:73`: an interrupt between `sti` and the assignment of the flag
  is dropped by the dispatcher that tests it.
- `ui/WindowManager.cpp:95`: a blur handler that moves the focus is overruled by the focus change
  it runs in; the widget it chose is never blurred, and two show a focus.
- `ipc/ipc_manager.hpp:162`: a signal handler that registers a handler or raises a signal waits for
  the mutex it runs under.
- `ipc/ipc_manager.hpp:45`: `receive` looks at the first message only. It answers empty when that
  is for another process, and a stream of messages of higher priority keeps a lower one
  from ever being received; `HeadReceived` promises nothing to a message that is overtaken.
- `filesystem/VirtualFileSystem.cpp:704`: packed data replaces an entry and is read as the file.
- `multimedia/AssetLoader.hpp:36`: the loader's loops take every thread of the pool, so
  what `loadAssetAsync` enqueues never starts.
- `ui/TabControl.hpp:56`: drawing a control without tabs divides by zero (`trapped`).
- `ui/Canvas.hpp:99`: the font table has fewer rows than the characters it is indexed by.
- `scheduler/scheduler.cpp:66`: thread slots run out before the limit on processes does
  (`overrun`).

## 6. Findings

| Run | Where | What |
|---|---|---|
| `pool_overlap` | `memory/MemoryManager.cpp:155` | freeing a pool block that is not the last takes the bump pointer back over a live one: allocate a, b; free a; allocate c overlaps b |
| `latency_report` | `src/latency_analyzer.cpp:179` | the report locks its mutex a second time and waits for itself |
| `read_eof` | `filesystem/VirtualFileSystem.cpp:756` | the piece read first is cached as the whole file: the second read answers 0 in the middle of it |
| `buffer_pool` | `filesystem/VirtualFileSystem.cpp:275` | growing the pool under a reader loses the reader's buffer for ever |
| `boot` | `boot/bootloader.cpp:355` | the probe's loop over buses counts a `uint8_t` up to 256, so what the comment at line 380 puts behind it is never reached |
| `haptics` | `haptics/vibration_controller.h:71` | the dead zone is applied to the ramped intensity: updates that follow one another at once start from 0 each time, and the intensity that was set is never reached |

## 7. Plan

Every component with logic of its own that the repository defines has its module, and
every safety property that a run checks is proved, but for those of `Desktop`. What is left is
`Desktop`: the parts of `DevicesAgree` first, then `StackAgrees` and `FocusAgrees`, once
`Controls` renders by recursive functions. Liveness stays with TLC.
