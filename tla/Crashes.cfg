SPECIFICATION Spec
CONSTANTS
    Pages = {p1}
    MaxVersion = 2
    MaxTime = 3
    CheckoutTime = 1
    MaxFaults = 1
    Disturbances = {"kill"}
INVARIANTS Delivered CleanRecovers
