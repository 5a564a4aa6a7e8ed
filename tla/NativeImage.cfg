SPECIFICATION Spec
CONSTANTS
    MaxSide = 5
    MaxGray = 3
    Scale = 27720
    Lit = {p, q}
    Missing = Missing
    Failed = Failed
    Undefined = Undefined
CHECK_DEADLOCK FALSE
INVARIANTS
    ShiftIsCyclic
    SpectrumInOrder
    DpcIgnoresShading
    
