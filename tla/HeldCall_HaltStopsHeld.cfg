SPECIFICATION HeldSpec
CHECK_DEADLOCK FALSE
PROPERTY HaltStopsHeld
