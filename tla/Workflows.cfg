SPECIFICATION Spec
CONSTANTS
    Pages = {p1}
    MaxVersion = 1
    MaxTime = 3
    CheckoutTime = 1
    MaxFaults = 0
    Disturbances = {"shell", "access", "remove"}
INVARIANTS TypeOK Delivered NullBuild
