CONSTANTS
    Viewers = {v1, v2}
    WaiterSlots = 1
    Pipelined = TRUE
    MaxSeq = 4
SPECIFICATION Spec
INVARIANTS SlotsApart NoLostWakeup ChainKept
