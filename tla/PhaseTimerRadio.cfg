CONSTANTS
    MODULUS = 40
    Durations = {0, 1, 5}
    StartClocks = {0, 7, 20}
    MaxLag = 1
    WaitsForever = TRUE
SPECIFICATION Spec
PROPERTIES PhaseEnds
