\* Two driven joints, a timer that may fire at every tick, TF at every second.
SPECIFICATION Spec
CONSTANTS
    base = base
    arm = arm
    hand = hand
    tip = tip
    waist = waist
    wrist = wrist
    finger = finger
    world = world
    LinkNames  <- MCLinkNames
    JointNames <- MCJointNames
    NoName     = NoName
    World      <- world
    WorldToRoot <- Still
    JointTransform <- At
    Multiplier <- MCMultiplier
    Offset     <- MCOffset
    Robot      <- MCRobot
    Period     = 2
    Capacity   = 2
    MaxDrives  = 1
    QuietFrom  = 5
    MaxClock   = 7
    Names      <- MCNames
    Root       <- world
    Instants   <- MCInstants
    Transforms <- MCTransforms
    Durations  <- MCDurations
    Compose    <- Then
    Invert     <- Backwards
    Identity   <- Still
    Interpolate <- Nearer
INVARIANTS
    TypeOK
    NeverRefused
    TreeIsRobot
    SnapshotsAreWhole
PROPERTY
    Converges
CHECK_DEADLOCK FALSE
