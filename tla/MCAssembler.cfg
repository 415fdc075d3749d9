SPECIFICATION Spec
CONSTANTS
    MAX_JUMP = 3
    Programs <- MCPrograms
    Residues <- MCResidues
INVARIANTS
    TypeOK
    OutputMeansSource
    LabelsAccepted
    LinesAccepted
