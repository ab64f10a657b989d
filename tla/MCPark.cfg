CONSTANTS
    CamTask = cam
    EncTasks = {h264enc}
    Callers = {ota, console}
    MaxPolls = 3
SPECIFICATION FairSpec
INVARIANT NoFrameCutOff
PROPERTY RestartHappens
CHECK_DEADLOCK FALSE
