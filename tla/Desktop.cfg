CONSTANTS
    Window = {w1, w2}
    None = None
    UI = UI
    Positions = {0, 2}
    Widths = {2}
    ScreenWidths = {1, 3}
    MaxEvents = 2
    Widget = {k1, k2, k3}
    NoWidget = NoWidget
    MaxDepth = 2
    CanvasWidth = 2
    CanvasHeight = 2
    Colors = {1, 2}
    Contents = {k1, k2}
    TabsWidth = 400
    MaxTabs = 3
    Node = {n1, n2, n3}
    Top = Top
    NoNode = NoNode
    Library = {d11, k32}
    D3D11 = d11
    MaxLoads = 2
    MaxInits = 2
    MaxCalls = 2
    Gpu = {g1, g2}
    MaxChanges = 1
    NullHandle = NullHandle
    Indeterminate = Indeterminate
    CheckInterval = 2
    LowBattery = 1
    FullIntensity = 4
    Deadzone = 2
    LowestFrequency = 2
    HighestFrequency = 4
    TimeSteps = {1, 3}
SPECIFICATION Spec
CHECK_DEADLOCK FALSE
SYMMETRY Symmetry
INVARIANTS
    TypeOK
    InterfaceAgrees
    DevicesAgree
