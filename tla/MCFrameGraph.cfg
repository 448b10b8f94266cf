\* A root and three other frames, so that trees have branches and chains;
\* stamps and a duration for which the older of two transforms expires.
SPECIFICATION Spec
CONSTANTS
    world = world
    base = base
    arm = arm
    camera = camera
    Names       <- MCNames
    Root        = world
    Instants    = {1, 3}
    Durations   = {1}
    Transforms  <- MCTransforms
    Compose     <- Product
    Invert      <- Inverted
    Identity    <- Unit
    Interpolate <- Nearer
SYMMETRY Others
INVARIANTS
    TypeOK
    NamesMatchFrames
    Rooted
    ListsAgree
    EdgesHaveData
    NearestIsNearest
    LeavesAreChildless
    LookupTotal
    BranchesCompose
    RefusalsLeaveNoTrace
PROPERTY
    ImplementsTree
