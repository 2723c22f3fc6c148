\* One program and two lines.
CONSTANTS
    MaxExecs = 1
    MaxOut = 1
    Cap = 1
    MaxLines = 2
SPECIFICATION Spec
CHECK_DEADLOCK FALSE
PROPERTY CleanedInTheEnd
