SPECIFICATION Spec
CONSTANTS
    Stream = {s1, s2}
    NoStream = NoStream
    NoContent = NoContent
    a = a
    b = b
    Answers <- MCAnswers
INVARIANTS
    OwnUsage
CHECK_DEADLOCK FALSE
