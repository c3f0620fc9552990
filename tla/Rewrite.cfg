SPECIFICATION Spec
CONSTANTS
    Items = {f1, f2}
    MaxUps = 5
    MaxFaults = 2
    Killable = TRUE
INVARIANTS TypeOK NothingLost BackedUp Stripped
SYMMETRY ItemSymmetry
