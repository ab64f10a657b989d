CONSTANTS
    SegsMax = 4
    SegPins = 2
    ClipJobs = 1
    ClipPre = 1
    ClipPost = 1
    MaxSegs = 5
    MaxClips = 3
    HidDepth = 2
    Tabs = {1, 2}
    MaxReports = 3
    Jobs <- MCJobs
    HourMinutes = 3
    MaxMinutes = 7
    Script <- MCScript
    AtxPins = {1, 2, 3}
    AtxDepth = 2
    ProfilesMax = 1
    Values = {0, 1}
    Def = 0
    Devices <- MCDevices
    Rules <- MCRules
    Earlier <- MCEarlier
    RestartsMax = 2
    MaxCalls = 2
    WaitMax = 1
    AlertDepth = 1
    Channels <- MCChannels
    MaxAlerts = 2
    MaxIds = 3
    MaxMishaps = 2
    SessionsMax = 2
    MaxOffers = 4
SPECIFICATION Spec
INVARIANTS ClipWhole MediumBacked RescueApart ReleaseLifts OnceAMinute StopTakes PressWhole
INVARIANTS BootKeeps TwoRestarts OwnHolds AlertKept ViewersTrue
CHECK_DEADLOCK FALSE
