SPECIFICATION FairSpec
CONSTANTS
    Job = {a, b, c}
    Capacity = 2
INVARIANTS SlotConservation  NoLostWake
PROPERTIES ShutdownEnds
