\* A robot with a joint that mimics another.
SPECIFICATION Spec
CONSTANTS
    base = base
    arm = arm
    hand = hand
    tip = tip
    waist = waist
    wrist = wrist
    finger = finger
    stranger = stranger
    world = world
    LinkNames  <- MCLinkNames
    JointNames <- MCJointNames
    NoName     = NoName
    World      <- world
    WorldToRoot <- Still
    JointTransform <- At
    Multiplier <- MCMultiplier
    Offset     <- MCOffset
    Robot      <- MCRobot
    Period     = 2
    Capacity   = 4
    Instants   <- MCInstants
    JointStateLists <- MCLists
    MaxHeard   = 4
INVARIANT
    MimicsAreShown
CHECK_DEADLOCK FALSE
