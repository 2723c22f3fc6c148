\* Two programs, two bytes of output each in a pipe of two, and two lines.
CONSTANTS
    MaxExecs = 2
    MaxOut = 2
    Cap = 2
    MaxLines = 2
SPECIFICATION Spec
CHECK_DEADLOCK FALSE
INVARIANTS OutputExact OneChild
PROPERTIES PromptReturns ChildrenCleaned
