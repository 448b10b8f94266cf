\* Lookups between frames on different branches: three frames suffice.
SPECIFICATION Spec
CONSTANTS
    world = world
    base = base
    arm = arm
    camera = camera
    Names       <- MCNames
    Root        = world
    Instants    = {1, 3}
    Durations   = {1}
    Transforms  <- MCTransforms
    Compose     <- Product
    Invert      <- Inverted
    Identity    <- Unit
    Interpolate <- Nearer
SYMMETRY Others
INVARIANT
    LookupsCompose
