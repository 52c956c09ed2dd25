SPECIFICATION Spec
CONSTANTS
    Agent = {a1, a2, a3, a4}
    Connection = {c1, c2, c3}
SYMMETRY GraphSymmetry
INVARIANTS
    RefusedIffCyclic
    AcceptedRuns
    EveryAgentAfterItsParents
    InputsAreParents
CHECK_DEADLOCK FALSE
