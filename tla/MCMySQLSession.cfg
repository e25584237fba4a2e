SPECIFICATION Spec
CONSTANTS
    Cases <- MCCases
    Declared <- MCDeclared
INVARIANTS
    SessionIsAsDeclared
    DiscoveredIsHeld
    EqualMeansSame
PROPERTY Ends
CHECK_DEADLOCK FALSE
