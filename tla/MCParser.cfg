SPECIFICATION Spec
CONSTANTS
    Texts <- MCTexts
    MaxErrors = 3
INVARIANTS
    WrittenIsRead
    AcceptedIsRead
    ErrorCostsOneAttribute
PROPERTY Terminates
CHECK_DEADLOCK FALSE
