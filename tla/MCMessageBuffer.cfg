\* Each of the 59 classes with empty, one-element and two-element vectors and
\* strings, a string long enough for a second length byte, strings that are not
\* ASCII or not UTF-8, and every cut.
SPECIFICATION Spec
CHECK_DEADLOCK FALSE
CONSTANTS
    Beyond = Beyond
    Outgoing <- MCOutgoing
    Depth = 5
    Sizes = {0, 1, 2}
INVARIANTS
    RoundTrip
    SizesAreExact
    CutMessagesAreRefused
