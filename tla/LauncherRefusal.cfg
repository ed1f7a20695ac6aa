SPECIFICATION Spec
CONSTANTS
    Sessions = {s1, s2}
    SetUpByHand = {s1}
    Unset = Unset
    MaxFaults = 1
PROPERTIES
    LaunchRefusedWhileServerRuns
CHECK_DEADLOCK FALSE
