CONSTANTS
    MODULUS = 40
    Durations = {0, 1, 2, 5, 9}
    StartClocks = {0, 1, 7, 20}
    MaxLag = 3
    WaitsForever = FALSE
SPECIFICATION Spec
INVARIANTS EndsPromptly
PROPERTIES NeverCutShort NeverOvershoots PhaseEnds
