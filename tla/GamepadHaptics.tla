--------------------------- MODULE GamepadHaptics ---------------------------
(***************************************************************************)
(* A game pad.  drivers/input/gamepad_driver.cpp: reading the pad, and     *)
(* looking at a wireless pad's battery every so many reads; the axes and   *)
(* the triggers are left out, and so is the counter's first value, which   *)
(* nothing shows: it is taken for 0.  haptics/vibration_controller.h: the  *)
(* ramps of its vibration motor; intensities, frequencies and times are    *)
(* whole numbers of units, chosen so that a ramp moves one unit in a unit  *)
(* of time.                                                                *)
(***************************************************************************)
EXTENDS Integers, FiniteSetsExt

CONSTANTS
    CheckInterval,       \* WIRELESS_CHECK_INTERVAL
    LowBattery,          \* LOW_BATTERY_THRESHOLD
    FullIntensity, Deadzone, LowestFrequency, HighestFrequency,
    TimeSteps            \* the times between two updates

VARIABLES
    wireless,            \* what checkWirelessStatus found
    batteryLevel, wirelessCheckCounter,
    charge,              \* the battery's own level
    released,            \* the device was
    readsLow,            \* history: reads since the battery got low, or since it was noticed
    refused,             \* history: a query that would have changed the level failed
    currentIntensity, targetIntensity,
    currentFrequency, targetFrequency,
    calibration,         \* [min, max, deadzone]
    updated              \* history: the calibration of the last update, NoUpdate before

padVars   == <<wireless, batteryLevel, wirelessCheckCounter, charge, released, readsLow, refused>>
motorVars == <<currentIntensity, targetIntensity, currentFrequency, targetFrequency, calibration,
               updated>>
vars == <<padVars, motorVars>>

Default  == [min |-> LowestFrequency, max |-> HighestFrequency, deadzone |-> Deadzone]
NoUpdate == [min |-> 0, max |-> HighestFrequency, deadzone |-> 0]

Init ==
    /\ wireless \in BOOLEAN /\ batteryLevel = 0 /\ wirelessCheckCounter = 0
    /\ charge = LowBattery + 1 /\ released = FALSE /\ readsLow = 0 /\ refused = FALSE
    /\ currentIntensity = 0 /\ targetIntensity = 0 /\ currentFrequency = 0 /\ targetFrequency = 0
    /\ calibration = Default /\ updated = NoUpdate

-----------------------------------------------------------------------------
\* GamepadDriver

Discharge ==
    /\ charge > 0
    /\ charge' = charge - 1
    /\ UNCHANGED <<wireless, batteryLevel, wirelessCheckCounter, released, readsLow, refused, motorVars>>

\* updateBatteryLevel when the pad is wireless: the query may fail, and the level stays.
UpdateBatteryLevel ==
    \/ batteryLevel' = charge /\ refused' = FALSE
    \/ batteryLevel' = batteryLevel /\ refused' = (refused \/ charge # batteryLevel)

\* Mutant: the check comes one read late.
CheckLate ==
    IF wirelessCheckCounter + 1 > CheckInterval
    THEN wirelessCheckCounter' = 0 /\ UpdateBatteryLevel
    ELSE wirelessCheckCounter' = wirelessCheckCounter + 1 /\ UNCHANGED <<batteryLevel, refused>>

\* The check at the end of a read.
Check ==
    IF wirelessCheckCounter + 1 >= CheckInterval
    THEN wirelessCheckCounter' = 0 /\ UpdateBatteryLevel
    ELSE wirelessCheckCounter' = wirelessCheckCounter + 1 /\ UNCHANGED <<batteryLevel, refused>>

\* notifyLowBattery is called at the end of this read.
Notified == wirelessCheckCounter' = 0 /\ batteryLevel' < LowBattery

\* readInputData, when the raw data was read; when it was not, as after
\* shutdown, nothing changes.
ReadInputData ==
    /\ ~ released
    /\ IF wireless
         THEN /\ Check
              /\ readsLow' = IF charge >= LowBattery \/ Notified THEN 0
                             ELSE Min({readsLow + 1, CheckInterval + 1})
         ELSE UNCHANGED <<wirelessCheckCounter, batteryLevel, refused, readsLow>>
    /\ UNCHANGED <<wireless, charge, released, motorVars>>

ShutdownPad ==
    /\ released' = TRUE
    /\ UNCHANGED <<wireless, batteryLevel, wirelessCheckCounter, charge, readsLow, refused, motorVars>>

PadNext == Discharge \/ ReadInputData \/ ShutdownPad

-----------------------------------------------------------------------------
\* VibrationController

\* std::clamp, also when the bounds are swapped, as the library's code does it.
Clamp(value, low, high) == IF value < low THEN low ELSE IF high < value THEN high ELSE value

SetIntensity(value) ==
    /\ targetIntensity' = Clamp(value, 0, FullIntensity)
    /\ UNCHANGED <<currentIntensity, currentFrequency, targetFrequency, calibration, updated, padVars>>

SetFrequency(value) ==
    /\ targetFrequency' = Clamp(value, calibration.min, calibration.max)
    /\ UNCHANGED <<currentIntensity, targetIntensity, currentFrequency, calibration, updated, padVars>>

\* Nothing checks that the lowest frequency is below the highest.
CalibrateMotor(low, high, zone) ==
    /\ calibration' = [min |-> low, max |-> high, deadzone |-> zone]
    /\ UNCHANGED <<currentIntensity, targetIntensity, currentFrequency, targetFrequency, updated, padVars>>

Interpolate(current, target, maxChange) == current + Clamp(target - current, 0 - maxChange, maxChange)

\* Mutant: the frequency is not brought below a new highest one.
MoveUncapped(dt, aim, frequency) ==
    LET intensity == Interpolate(currentIntensity, aim, dt)
        pitch     == Max({Interpolate(currentFrequency, frequency, dt), calibration.min})
    IN  /\ currentIntensity' = IF intensity < calibration.deadzone THEN 0 ELSE intensity
        /\ currentFrequency' = pitch
        /\ updated' = calibration

\* update, dt after the one before, towards aim and frequency.
Move(dt, aim, frequency) ==
    LET intensity == Interpolate(currentIntensity, aim, dt)
        pitch     == Max({Interpolate(currentFrequency, frequency, dt), calibration.min})
    IN  /\ currentIntensity' = IF intensity < calibration.deadzone THEN 0 ELSE intensity
        /\ currentFrequency' = IF pitch > calibration.max THEN calibration.max ELSE pitch
        /\ updated' = calibration

Update(dt) ==
    /\ Move(dt, targetIntensity, targetFrequency)
    /\ UNCHANGED <<targetIntensity, targetFrequency, calibration, padVars>>

\* stop: the targets and one update, which moves the motor one ramp's step, not to rest.
StopMotor(dt) ==
    /\ targetIntensity' = 0
    /\ targetFrequency' = Clamp(calibration.min, calibration.min, calibration.max)
    /\ Move(dt, targetIntensity', targetFrequency')
    /\ UNCHANGED <<calibration, padVars>>

\* rumble: pulse is setIntensity alone.
Rumble(value, frequency) ==
    /\ targetIntensity' = Clamp(value, 0, FullIntensity)
    /\ targetFrequency' = Clamp(frequency, calibration.min, calibration.max)
    /\ UNCHANGED <<currentIntensity, currentFrequency, calibration, updated, padVars>>

MotorNext ==
    \/ \E value \in {-1, 1, FullIntensity} : SetIntensity(value) \/ Rumble(value, HighestFrequency)
    \/ \E value \in {0, HighestFrequency + 1} : SetFrequency(value)
    \/ CalibrateMotor(HighestFrequency, LowestFrequency, Deadzone)
    \/ CalibrateMotor(LowestFrequency, HighestFrequency - 1, Deadzone + 1)
    \/ \E dt \in TimeSteps : Update(dt) \/ StopMotor(dt)

-----------------------------------------------------------------------------

Next == PadNext \/ MotorNext

Spec == Init /\ [][Next]_vars

\* The motor alone, as its test drives it: intensities set, and updates again and again.
Updates == \E dt \in TimeSteps : Update(dt)

MotorSpec ==
    /\ Init
    /\ [][(\E value \in {-1, 1, FullIntensity} : SetIntensity(value)) \/ Updates]_vars
    /\ WF_vars(Updates)

-----------------------------------------------------------------------------
\* Properties

TypeOK ==
    /\ wirelessCheckCounter \in 0 .. CheckInterval - 1 /\ batteryLevel \in 0 .. LowBattery + 1
    /\ charge \in 0 .. LowBattery + 1 /\ readsLow \in Nat
    /\ targetIntensity \in 0 .. FullIntensity /\ currentIntensity \in 0 .. FullIntensity
    /\ targetFrequency \in 0 .. HighestFrequency /\ currentFrequency \in 0 .. HighestFrequency

\* A wireless pad whose battery gets low has it noticed within an interval of reads,
\* unless a query fails then (30-58).
LowNoticed == (wireless /\ ~ refused) => readsLow < CheckInterval
\* After an update (58-85) the motor is at rest or beyond its dead zone, at a frequency
\* not above the calibrated highest nor, if that is not below it, below the lowest.
MotorInRange ==
    /\ currentIntensity = 0 \/ currentIntensity >= updated.deadzone
    /\ currentFrequency <= updated.max
    /\ updated.min <= updated.max => currentFrequency >= updated.min

\* setIntensity asks for an intensity that the updates (58-73) bring about: where no other
\* is asked for any more, the motor comes within a dead zone's width of it.  The dead zone is
\* applied to the ramp's position, not to its target, so an update that comes sooner than
\* the ramp crosses the zone puts the motor back to rest, and so do all that follow.
IntensityReached ==
    <>[][UNCHANGED targetIntensity]_vars
        => []<>(currentIntensity \in targetIntensity - Deadzone .. targetIntensity + Deadzone)
=============================================================================
