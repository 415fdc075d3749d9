SPECIFICATION Spec
CONSTANTS
    MAX_JUMP = 3
    Programs <- Short
    Residues <- MCResidues
INVARIANT JumpsReachLabels
