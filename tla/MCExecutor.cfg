SPECIFICATION Spec
CONSTANTS
    Resource = {r1, r2, r3}
    Plans <- AllPlans
INVARIANTS
    TypeOK
    NoCallBelowFailure
    SoundReport
    NoSilentLoss
    NoCallInLaterLayer
PROPERTIES
    Terminates
    ImplementsContract
CHECK_DEADLOCK FALSE
