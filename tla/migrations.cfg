SPECIFICATION Spec
CONSTANTS
    Shipments = {s1, s2}
    None = None
INVARIANTS WhatSurvives FailsOnlyOver
PROPERTIES AllOrNothing
SYMMETRY Symmetry
