\* A ring of four cells, so three bytes fit.
CONSTANTS
    Byte <- MCBytes
    Zero = 0
    Size = 4
    Messages <- MCMessages
    Requests = {0, 1, 2, 3, 4}
SPECIFICATION Spec
INVARIANT SpaceAccounted
PROPERTY IsFifo
