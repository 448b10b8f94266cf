\* A description that is abandoned in the middle of its links.
SPECIFICATION Spec
CONSTANTS
    base = base
    arm = arm
    hand = hand
    waist = waist
    elbow = elbow
    wrist = wrist
    LinkNames  <- MCLinkNames
    JointNames <- MCJointNames
    NoName     = NoName
    MaxJoints  = 3
    MaxLinks   = 3
SYMMETRY Renamings
INVARIANT
    ValidMeansParsed
CHECK_DEADLOCK FALSE
