CONSTANTS
    Managers = {"m1", "m2"}
    Callers = {c1, c2}
    MaxCalls = 2
    MaxImports = 2
    MaxCloses = 2
    Options <- MCOptions
    Pool <- MCPool
    ForeignKeys <- MCForeignKeys
    Preset <- MCPreset

SPECIFICATION Spec



CHECK_DEADLOCK FALSE
INVARIANT MisconfiguredFailsFast
