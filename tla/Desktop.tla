------------------------------- MODULE Desktop -------------------------------
(***************************************************************************)
(* What a user sees and holds, and the devices behind it, side by side:    *)
(* the window manager with its widgets, the controls, the layers over      *)
(* Win32, Direct3D 12 and Vulkan, the gamepad and its vibration motor.     *)
(* They share no state, so a behaviour exercises one of them, the one      *)
(* named by focus, and the others stand still, as in KernelServices.       *)
(***************************************************************************)
EXTENDS Naturals, FiniteSets, Sequences, TLC

CONSTANTS
    \* WindowManager
    Window, None, UI, Positions, Widths, ScreenWidths, MaxEvents, Widget, NoWidget, MaxDepth,
    \* Canvas
    CanvasWidth, CanvasHeight, Colors,
    \* Controls
    Contents, TabsWidth, MaxTabs, Node, Top, NoNode,
    \* Win32Layer
    Library, D3D11, MaxLoads, MaxInits,
    \* D3D12
    MaxCalls,
    \* VulkanDevices
    Gpu, MaxChanges, NullHandle, Indeterminate,
    \* GamepadHaptics
    CheckInterval, LowBattery, FullIntensity, Deadzone, LowestFrequency, HighestFrequency, TimeSteps

VARIABLES
    focus,
    events, shutdown, pc, pushed, delivered, discarded, sent, isInitialized, server, windows,
    bounds, activeWindow, dragged, flagged, at, i, screen, placed, strayed, undefined,
    widgets, madeWidgets, focusedWidget, lit, focusing, nested,
    buffer, dirty, picture,
    tabs, activeTab, trapped, children, expanded, selectedIndex,
    handle, loads, cachedFunctions, wrapped, inits, graphics, refs, members, completed, nulls,
    win32Undefined,
    supported, levels, d3dAt, com, level, storage, alive, calls, returned, d3dUndefined,
    present, kind, changes, vkAt, instance, deviceCount, list, scored, maxScore, physicalDevice,
    logicalDevice, vkUndefined,
    wireless, batteryLevel, wirelessCheckCounter, charge, released, readsLow, refused,
    currentIntensity, targetIntensity, currentFrequency, targetFrequency, calibration, updated

Manager == INSTANCE WindowManager
Drawing == INSTANCE Canvas
Control == INSTANCE Controls
Win32   == INSTANCE Win32Layer WITH undefined <- win32Undefined
Direct3D == INSTANCE D3D12 WITH at <- d3dAt, undefined <- d3dUndefined
Vulkan  == INSTANCE VulkanDevices WITH at <- vkAt, k <- scored, undefined <- vkUndefined
Pad     == INSTANCE GamepadHaptics

windowVars == <<events, shutdown, pc, pushed, delivered, discarded, sent, isInitialized, server,
                windows, bounds, activeWindow, dragged, flagged, at, i, screen, placed, strayed,
                undefined>>
widgetVars == <<widgets, madeWidgets, focusedWidget, lit, focusing, nested>>
canvasVars == <<buffer, dirty, picture>>
controlVars == <<tabs, activeTab, trapped, children, expanded, selectedIndex>>
win32Vars  == <<handle, loads, cachedFunctions, wrapped, inits, graphics, refs, members, completed,
                nulls, win32Undefined>>
d3d12Vars  == <<supported, levels, d3dAt, com, level, storage, alive, calls, returned, d3dUndefined>>
vulkanVars == <<present, kind, changes, vkAt, instance, deviceCount, list, scored, maxScore,
                physicalDevice, logicalDevice, vkUndefined>>
padVars    == <<wireless, batteryLevel, wirelessCheckCounter, charge, released, readsLow, refused,
                currentIntensity, targetIntensity, currentFrequency, targetFrequency, calibration,
                updated>>

vars == <<focus, windowVars, widgetVars, canvasVars, controlVars, win32Vars, d3d12Vars,
          vulkanVars, padVars>>

\* What differs from one machine to the next is one value where it is not exercised.
Init ==
    /\ focus \in {"windows", "widgets", "canvas", "controls", "win32", "d3d12", "vulkan", "gamepad"}
    /\ focus # "d3d12"   => supported = {} /\ levels = {}
    /\ focus # "vulkan"  => present = <<>> /\ kind = [g \in Gpu |-> [discrete |-> FALSE, dimension |-> 4096]]
    /\ focus # "gamepad" => wireless = FALSE
    /\ Manager!Init /\ Drawing!Init /\ Control!Init
    /\ Win32!Init /\ Direct3D!Init /\ Vulkan!Init /\ Pad!Init

\* Every part but the one in focus stands still.
OthersStill ==
    /\ UNCHANGED focus
    /\ focus # "windows"   => UNCHANGED windowVars
    /\ focus # "widgets"   => UNCHANGED widgetVars
    /\ focus # "canvas"    => UNCHANGED canvasVars
    /\ focus # "controls"  => UNCHANGED controlVars
    /\ focus # "win32"     => UNCHANGED win32Vars
    /\ focus # "d3d12"     => UNCHANGED d3d12Vars
    /\ focus # "vulkan"    => UNCHANGED vulkanVars
    /\ focus # "gamepad"   => UNCHANGED padVars

WindowStep    == focus = "windows"  /\ Manager!WindowNext /\ OthersStill
WidgetStep    == focus = "widgets"  /\ Manager!WidgetNext /\ OthersStill
CanvasStep    == focus = "canvas"   /\ Drawing!Next       /\ OthersStill
ControlStep   == focus = "controls" /\ Control!Next       /\ OthersStill
Win32Step     == focus = "win32"    /\ Win32!Next         /\ OthersStill
D3D12Step     == focus = "d3d12"    /\ Direct3D!Next      /\ OthersStill
VulkanStep    == focus = "vulkan"   /\ Vulkan!Next        /\ OthersStill
GamepadStep   == focus = "gamepad"  /\ Pad!Next           /\ OthersStill

Next ==
    \/ WindowStep \/ WidgetStep \/ CanvasStep \/ ControlStep
    \/ Win32Step \/ D3D12Step \/ VulkanStep \/ GamepadStep

Spec == Init /\ [][Next]_vars

-----------------------------------------------------------------------------

\* Windows stand for one another (TLC).
Symmetry == Permutations(Window)

\* The type invariant of each part.
TypeOK ==
    /\ Manager!TypeOK /\ Drawing!TypeOK /\ Control!TypeOK
    /\ Win32!TypeOK /\ Direct3D!TypeOK /\ Vulkan!TypeOK
    /\ Pad!TypeOK

\* What the interface shows agrees with what it holds, whatever its callbacks do between
\* two of its steps: the stack of windows with its flags and the screen's edge, the
\* focus of widgets, pixels with what was drawn, tabs and the rows of a
\* tree with their data.
InterfaceAgrees ==
    /\ Manager!StackAgrees /\ Manager!OnScreen
    /\ Manager!FocusAgrees /\ Drawing!BufferIsPicture
    /\ Control!TabsAgree /\ Control!RowsShowForest

\* Whatever calls to a device fail on the way, what is held of it is accounted for and
\* what is said of it is true: references to Direct3D objects, the device an answer
\* stands for, the choice among several, the battery's level, the motor's range.
DevicesAgree ==
    /\ Win32!ReferencesBalanced /\ Win32!NullStays
    /\ Direct3D!TrueMeansDevice /\ Direct3D!StorageReleased
    /\ Vulkan!BestDeviceChosen /\ Pad!LowNoticed
    /\ Pad!MotorInRange
=============================================================================
