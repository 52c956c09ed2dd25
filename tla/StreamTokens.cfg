SPECIFICATION Spec
CONSTANTS
    Stream = {s1, s2}
    NoStream = NoStream
    NoContent = NoContent
    a = a
    b = b
    Answers <- MCAnswers
INVARIANTS
    ChunkingInvisible
    CountOfLastEnded
PROPERTIES
    WaitsEnd
CHECK_DEADLOCK FALSE
