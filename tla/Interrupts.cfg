SPECIFICATION Spec
CONSTANTS
    Pages = {p1, p2}
    MaxVersion = 1
    MaxTime = 3
    CheckoutTime = 1
    MaxFaults = 0
    Disturbances = {"interrupt"}
INVARIANTS InterruptsHeal Delivered
SYMMETRY Symmetry
