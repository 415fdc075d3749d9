SPECIFICATION Spec
CONSTANTS
    MAX_JUMP = 3
    Programs <- Long
    Residues <- MCResidues
INVARIANT AssemblesLongPrograms
