SPECIFICATION BatterySpec
CONSTANTS
    Voltages <- SomeVoltages
    OnDisk <- Present
INVARIANTS PinIsNear SaysTheLevel NumberIsSilent
CHECK_DEADLOCK FALSE
