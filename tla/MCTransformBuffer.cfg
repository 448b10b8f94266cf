\* Five instants, two transforms, durations that disable expiry (-1, 0) and
\* windows shorter than the span of the instants.
SPECIFICATION Spec
CONSTANTS
    Instants   <- MCInstants
    Durations  <- MCDurations
    Transforms = {a, b}
    Interpolate <- Blend
INVARIANTS
    TypeOK
    Sorted
    LatestRetained
    WindowFaithful
    AnswersAsIfNothingExpired
PROPERTY
    ImplementsStore
