\* A line of one command, and one that ends in '&'.
SPECIFICATION WSpec
CONSTANTS
    Tasks  = {1, 2, 3, 4}
    BUFLEN = 5
    Typed <- TypedLines
INVARIANT
    RunsWhatWasTyped
CHECK_DEADLOCK FALSE
