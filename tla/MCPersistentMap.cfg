SPECIFICATION MapSpec
CHECK_DEADLOCK FALSE
SYMMETRY Symmetry
CONSTANTS
    Keys = {k1, k2, k3}
    Values = {0, 1}
    T0 = 0
    Free = zero
    GrowBy = 3
    PairSize = 4
    MaxSlots = 6
    MaxOpens = 3
INVARIANTS MapTypeOK SlotsApart
PROPERTIES ReopenRecovers ReopenLosesNothing
