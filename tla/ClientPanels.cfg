SPECIFICATION PanelsSpec
CONSTANTS
    TabThreads = {a, b}
    Paths = {"blank", "notes"}
    Ext <- MCExt
    EmptyPaths = {"blank"}
    Agent = Agent
    None = None
    MaxReads = 2
    TreeThreads = {a, b}
    FirstViewed = a
    FirstShown = a
    Root = "/"
    Dirs = {"src", "lib"}
    Files = {"main"}
    Parent <- MCParent
    MaxLoads = 3
    MaxMoves = 2
    HEADER_HEIGHT = 40
    HANDLE_HEIGHT = 6
    MIN_CONTENT_HEIGHT = 60
    COLLAPSE_THRESHOLD = 55
    Containers = {240, 432}
    Deltas <- MCDeltas
    MaxDrags = 3
    EqualShare = EqualShare
INVARIANTS
    PanelsTypeOK
    TabsConsistent
    ViewerShowsItsFile
    PanelTellsTheTruth
    HeightsFit
CHECK_DEADLOCK FALSE
