SPECIFICATION FairSpec
CONSTANTS
    Pages = {p1, p2}
    MaxVersion = 1
    MaxTime = 2
    CheckoutTime = 2
    MaxFaults = 0
    Disturbances = {}
PROPERTIES MakeSucceeds
