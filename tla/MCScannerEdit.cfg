SPECIFICATION Spec
CONSTANTS
    Folders = {f1, f2}
    Scans = {s1, s2}
    None = None
    MaxChanges = 3
    MaxEdits = 1
    MaxFaults = 1
INVARIANT
    EditsSurvive
SYMMETRY Symmetry
