----------------------------- MODULE Win32Layer -----------------------------
(***************************************************************************)
(* WindowsCompatibilityLayer of compatibility/win32/compatibility.hpp: the *)
(* libraries it loads, the functions it looks up in them, and the Direct3D *)
(* objects it makes with them, each call of InitializeGraphics that can    *)
(* fail a step.  LoadLibrary, GetProcAddress, FreeLibrary and the objects  *)
(* are the system's, and count references.                                 *)
(*                                                                         *)
(* Cleanup frees the libraries before it releases the objects made by      *)
(* their code, and resets nothing: when it was the last user of d3d11 the  *)
(* release is undefined, and so is a second Cleanup.                       *)
(***************************************************************************)
EXTENDS Integers, FiniteSets

CONSTANTS
    Library,             \* the libraries InitializeWrappers loads
    D3D11,               \* the one D3D11CreateDevice is looked up in
    MaxLoads, MaxInits   \* bounds: calls of InitializeWrappers and InitializeGraphics

VARIABLES
    handle,              \* [Library -> whether its handle is set]
    loads,               \* [Library -> references taken and not given back]
    cachedFunctions,     \* [Library -> "absent", "null", "found"]: what is cached of its function
    wrapped, inits,      \* calls made
    graphics,            \* where InitializeGraphics is, "idle" when not in it
    refs,                \* [Object -> references taken and not given back]
    members,             \* m_device, m_context and m_swapChain are set
    completed,           \* history: calls that returned true
    nulls,               \* history: the libraries a null was ever handed out for
    undefined

vars == <<handle, loads, cachedFunctions, wrapped, inits, graphics, refs, members, completed,
          nulls, undefined>>

Kept      == {"device", "context", "swapChain"}
Temporary == {"dxgiDevice", "dxgiAdapter", "dxgiFactory"}
Object    == Kept \cup Temporary

libraryVars  == <<handle, loads, wrapped>>
graphicsVars == <<inits, graphics, refs, members, completed>>

Init ==
    /\ handle = [l \in Library |-> FALSE] /\ loads = [l \in Library |-> 0]
    /\ cachedFunctions = [l \in Library |-> "absent"]
    /\ wrapped = 0 /\ inits = 0
    /\ graphics = "idle" /\ refs = [o \in Object |-> 0] /\ members = FALSE /\ completed = 0
    /\ nulls = {} /\ undefined = FALSE

\* LoadLibrary of each, which may fail; a handle from an earlier call is overwritten.
InitializeWrappers ==
    /\ wrapped < MaxLoads /\ graphics = "idle"
    /\ \E ok \in SUBSET Library :
          /\ handle' = [l \in Library |-> l \in ok]
          /\ loads' = [l \in Library |-> IF l \in ok THEN loads[l] + 1 ELSE loads[l]]
    /\ wrapped' = wrapped + 1
    /\ UNCHANGED <<cachedFunctions, graphicsVars, nulls, undefined>>

\* Mutant: what is cached as null is looked up again.
LookUpAgain(l) ==
    IF cachedFunctions[l] = "found" THEN {"found"}
    ELSE IF handle[l] THEN {"null", "found"} ELSE {"null"}

\* What the cache holds after GetProcAddress: a library that is not loaded leaves a
\* null there, and the null stays.
LookUp(l) ==
    IF cachedFunctions[l] # "absent" THEN {cachedFunctions[l]}
    ELSE IF handle[l] THEN {"null", "found"} ELSE {"null"}

\* The lookup goes to a library that was freed: Cleanup leaves the handle set.
Stale(l) == cachedFunctions[l] = "absent" /\ handle[l] /\ loads[l] = 0

GetProcAddress(l) ==
    /\ graphics = "idle"
    /\ cachedFunctions' \in {[cachedFunctions EXCEPT ![l] = f] : f \in LookUp(l)}
    /\ nulls' = IF cachedFunctions'[l] = "null" THEN nulls \cup {l} ELSE nulls
    /\ undefined' = Stale(l)
    /\ UNCHANGED <<libraryVars, graphicsVars>>

-----------------------------------------------------------------------------
\* InitializeGraphics

Take(O) == refs' = [o \in Object |-> IF o \in O THEN refs[o] + 1 ELSE refs[o]]
Give(O) == refs' = [o \in Object |-> IF o \in O THEN refs[o] - 1 ELSE refs[o]]

\* The lookup, and the creation of the device and its context.
CreateDevice ==
    /\ graphics = "idle" /\ inits < MaxInits
    /\ inits' = inits + 1
    /\ \E f \in LookUp(D3D11) :
          /\ cachedFunctions' = [cachedFunctions EXCEPT ![D3D11] = f]
          /\ nulls' = IF f = "null" THEN nulls \cup {D3D11} ELSE nulls
          /\ undefined' = (Stale(D3D11) \/ (f = "found" /\ loads[D3D11] = 0))
          /\ \/ UNCHANGED <<graphics, refs>>
             \/ /\ f = "found"
                /\ Take({"device", "context"}) /\ graphics' = "query"
    /\ UNCHANGED <<libraryVars, members, completed>>

\* Mutant: the context is not released on the way out.
FailingDeviceOnly(before) ==
    /\ graphics' = "idle" /\ Give(before \cup {"device"})
    /\ UNCHANGED <<inits, members, completed>>

\* A call that fails: what it was called on is released, and the device and context.
Failing(before) ==
    /\ graphics' = "idle" /\ Give(before \cup {"device", "context"})
    /\ UNCHANGED <<inits, members, completed>>

QueryInterface ==
    /\ graphics = "query"
    /\ \/ Failing({})
       \/ Take({"dxgiDevice"}) /\ graphics' = "adapter" /\ UNCHANGED <<inits, members, completed>>
    /\ UNCHANGED <<libraryVars, cachedFunctions, nulls, undefined>>

\* The object before is released whether the call makes the next one or not.
Following(from, before, next, to) ==
    /\ graphics = from
    /\ \/ Failing({before})
       \/ /\ refs' = [refs EXCEPT ![before] = @ - 1, ![next] = @ + 1]
          /\ graphics' = to
          /\ UNCHANGED <<inits, members, completed>>
    /\ UNCHANGED <<libraryVars, cachedFunctions, nulls, undefined>>

GetAdapter == Following("adapter", "dxgiDevice", "dxgiAdapter", "parent")
GetParent  == Following("parent", "dxgiAdapter", "dxgiFactory", "swap")

CreateSwapChain ==
    /\ graphics = "swap"
    /\ \/ Failing({"dxgiFactory"})
       \/ /\ refs' = [refs EXCEPT !["dxgiFactory"] = @ - 1, !["swapChain"] = @ + 1]
          /\ graphics' = "idle" /\ members' = TRUE /\ completed' = completed + 1
          /\ UNCHANGED inits
    /\ UNCHANGED <<libraryVars, cachedFunctions, nulls, undefined>>

-----------------------------------------------------------------------------

\* The handles stay set and the members too; only the objects of the last call that
\* completed are released.
Cleanup ==
    /\ graphics = "idle"
    /\ loads' = [l \in Library |-> IF handle[l] THEN loads[l] - 1 ELSE loads[l]]
    /\ IF members THEN Give(Kept) ELSE UNCHANGED refs
    /\ undefined' = \/ \E l \in Library : loads'[l] < 0
                    \/ members /\ (loads'[D3D11] = 0 \/ refs["device"] = 0)
    /\ UNCHANGED <<handle, wrapped, cachedFunctions, inits, graphics, members, completed, nulls>>

Next ==
    /\ ~ undefined
    /\ \/ InitializeWrappers \/ Cleanup
       \/ \E l \in Library : GetProcAddress(l)
       \/ CreateDevice \/ QueryInterface \/ GetAdapter \/ GetParent \/ CreateSwapChain

Spec == Init /\ [][Next]_vars

-----------------------------------------------------------------------------
\* Properties

TypeOK ==
    /\ handle \in [Library -> BOOLEAN] /\ loads \in [Library -> Int]
    /\ cachedFunctions \in [Library -> {"absent", "null", "found"}]
    /\ graphics \in {"idle", "query", "adapter", "parent", "swap"}
    /\ refs \in [Object -> Int] /\ members \in BOOLEAN
    /\ ~ undefined => \A l \in Library : loads[l] >= 0

\* Whichever of its five calls fails, InitializeGraphics (112-200) leaves no reference:
\* outside it there is none to an intermediate object, and as many to the device as to
\* the context and the swap chain, never more than calls completed.  While it runs
\* there is one object on the way to the swap chain.
ReferencesBalanced ==
    /\ graphics = "idle" =>
          /\ \A o \in Temporary : refs[o] = 0
          /\ \A o \in Kept : refs[o] = refs["device"]
          /\ refs["device"] <= completed
    /\ graphics \in {"adapter", "parent", "swap"} =>
          Cardinality({o \in Temporary : refs[o] = 1}) = 1

\* A null once handed out - asked for before the libraries were loaded, or found by a
\* lookup that failed - is handed out for good, also after a load that works (73-91):
\* when it is D3D11CreateDevice, no graphics are made from then on.
NullStays ==
    /\ \A l \in nulls : cachedFunctions[l] = "null"
    /\ D3D11 \in nulls => graphics = "idle"
=============================================================================
