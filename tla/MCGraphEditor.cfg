SPECIFICATION EditorSpec
CONSTANTS
    MaxId = 3
    MaxSamples = 2
    Pane = {1}
    Foreign <- ForeignWorkspaces
    MaxSessionBytes = 6
    MaxSnapshots = 2
    MaxBytes = 11
    Watched = {2}
    Texts = {1}
    Windows = {2}
    MaxEdits = 3
    MaxVisits = 2
    Shapes <- EditorShapes
    Wirings <- EditorWirings
    MaxWitness = 6
INVARIANTS
    SessionIsWhole
    IdentitiesAreUnique
    GraphIsRight
PROPERTIES
    ChangesAreOffered
    ImplementsTimeline
    GraphEnds
CHECK_DEADLOCK FALSE
