SPECIFICATION Spec
CONSTANTS
    Users = {u1, u2}
    Sales = {s1, s2}
    Bought = 2
    RunIds = {r1, r2}
    NoRun = NoRun
SYMMETRY Symmetry
INVARIANTS
    ScriptsTypeOK
    NeverUndercounted
    LoneResetRestores
    SoundAfterReset
