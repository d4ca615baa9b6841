SPECIFICATION MCSpec
CONSTANTS
    MaxTyped = 1
    MaxSaves = 2
    MaxPulls = 1
    MaxFaults = 1
INVARIANT CyclesShown
PROPERTIES TypedKept PulledKept EditsPushed
CHECK_DEADLOCK FALSE
