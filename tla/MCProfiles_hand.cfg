CONSTANTS
    ProfilesMax = 1
    Values = {0, 1}
    Def = 0
    Devices <- MCDevices
    Rules <- MCRules
    Earlier <- MCEarlier
    RestartsMax = 2
    MaxCalls = 2
SPECIFICATION ProfSpec
INVARIANT HandHolds
CHECK_DEADLOCK FALSE
