SPECIFICATION Spec
CONSTANTS
    Cells <- MCCells
    Values = {0, 1}
    FirstCells <- MCFirstCells
    Extended <- MCExtended
    MaxSerial = 0
    MaxCursors = 0
    MaxGroups = 2
    MaxOps = 1
    MaxSaves = 4
    MaxUndo = 2
INVARIANTS
    MarksAreExact
PROPERTIES
    EnvironmentsHold
