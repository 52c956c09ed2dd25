SPECIFICATION Spec
CONSTANTS
    Requests = {h1, h2}
    Browsers = {b1}
    MaxLinks = 3
    MaxSessions = 2
    MaxRows = 4
    MaxTurn = 1
SYMMETRY RequestSymmetry
INVARIANTS
    LinksBounded
    NewestLinkWorks
    EndedStaysEnded
    StaysSignedIn
CHECK_DEADLOCK FALSE
