SPECIFICATION Spec
CONSTANTS
    Cells <- MCCells
    Values = {0}
    FirstCells <- MCFirstCells
    Extended <- MCExtended
    MaxSerial = 4
    MaxCursors = 2
    MaxGroups = 1
    MaxOps = 1
    MaxSaves = 2
    MaxUndo = 1
INVARIANTS
    CheckpointsAreExact
PROPERTIES
    SettlesOnOneHistory
    LaneContract
