SPECIFICATION Spec
CONSTANTS
    Pages = {p1}
    MaxVersion = 1
    MaxTime = 2
    CheckoutTime = 1
    MaxFaults = 0
    Disturbances = {"access"}
INVARIANTS ErrorStopsGeneration
