SPECIFICATION Spec
CONSTANTS
    Names = {cpu, mem}
    MaxId = 3
SYMMETRY Symmetry
INVARIANT
    FiledByMetric
