SPECIFICATION Spec
CONSTANTS
    Blocks <- MCBlocks
    Lives <- MCLives
    Declared <- MCDeclared
    Env <- MCEnv
INVARIANTS
    FormIsStable
    ReplacedHasEdge
    ResolvedAsDeclared
    DiffsAreExact
CHECK_DEADLOCK FALSE
