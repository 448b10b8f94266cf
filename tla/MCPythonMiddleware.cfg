SPECIFICATION Spec
CHECK_DEADLOCK FALSE
CONSTANTS
    gui = gui
    p1 = p1
    p2 = p2
    Subscriber <- gui
    Publishers = {p1, p2}
    Language <- MCLanguage
    Plans <- MCPlans
    HeadLength = 2
    BodyLength = 2
    Lengths = {0, 3}
    MaxMessages <- MCMaxMessages
INVARIANTS
    BelievedIsKnown
    AnnouncedOnce
    DeliversInOrder
PROPERTIES
    KeepsSpinning
    EventuallyDelivered
    ForgetsTheClosed
