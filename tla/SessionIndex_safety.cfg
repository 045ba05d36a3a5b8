SPECIFICATION Spec
CONSTANTS
    Procs = {p1, p2}
    NoProc = NoProc
    Keys = {a, b}
    Kinds = {"search"}
    MaxEntries = 2
    Weight <- Uniform
    Envelope = 1
    MaxBytes = 4
    MaxTime = 1
    MaxChanges = 1
SYMMETRY ProcSymmetry
INVARIANTS TypeOK LockHeldWhileSaving HitIsCurrent
PROPERTIES NoLostUpdate
