\* A plugin that must run before itself is accepted when the subtraction wraps.
SPECIFICATION Spec
CONSTANTS
    N = 3
    Ghost = 0
    Decls <- UpToThree
    UsizeMax = 7
INVARIANT
    SelfReferenceRejected
CHECK_DEADLOCK FALSE
