SPECIFICATION Spec
CONSTANTS
    Home = Home
    Trunk = Trunk
    Feature = Feature
    Project = Project
    Root = Root
    Detached = Detached
    None = None
    Settings <- RingSettings
    Layouts <- MCLayouts
    MaxSessions = 4
    MaxOps = 2
CHECK_DEADLOCK FALSE
INVARIANTS
    NotStranded
