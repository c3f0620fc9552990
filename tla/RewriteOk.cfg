SPECIFICATION Spec
CONSTANTS
    Items = {f1, f2}
    MaxUps = 5
    MaxFaults = 1
    Killable = FALSE
INVARIANT OkMeansRewritten
