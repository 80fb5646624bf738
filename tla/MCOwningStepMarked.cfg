SPECIFICATION Spec
CONSTANTS
    Paths = 1
    MaxItems = 3
    MaxSteps = 2
INVARIANT OwningStepMarked
