\* Three joints and three links in any order, with cycles, second parents,
\* repeated names, several roots and links that are missing.
SPECIFICATION Spec
CONSTANTS
    base = base
    arm = arm
    hand = hand
    waist = waist
    elbow = elbow
    wrist = wrist
    LinkNames  <- MCLinkNames
    JointNames <- MCJointNames
    NoName     = NoName
    MaxJoints  = 3
    MaxLinks   = 3
SYMMETRY Renamings
INVARIANTS
    TypeOK
    NeighboursAgree
    TransformsArePublishable
    PublishedIffInChain
    ValidModelsHaveLeaders
CHECK_DEADLOCK FALSE
