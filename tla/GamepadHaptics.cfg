CONSTANTS
    CheckInterval = 2
    LowBattery = 1
    FullIntensity = 12
    Deadzone = 3
    LowestFrequency = 2
    HighestFrequency = 4
    TimeSteps = {1}
SPECIFICATION MotorSpec
CHECK_DEADLOCK FALSE
PROPERTY IntensityReached
