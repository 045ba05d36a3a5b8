SPECIFICATION Spec
CONSTANTS
    Procs = {p1}
    NoProc = NoProc
    Keys = {a}
    Kinds = {"search", "list"}
    MaxEntries = 1
    Weight <- Uniform
    Envelope = 1
    MaxBytes = 3
    MaxTime = 0
    MaxChanges = 1
INVARIANTS HitIsCurrent
