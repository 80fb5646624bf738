SPECIFICATION Spec
CONSTANTS
    Count = 3
    MaxJobs = 2
    MaxSteps = 2
    StepCodes = {0, 502}
    PlanCodes = {0, 201}
    Bodies = {{}, {1, 2}}
    None = None
INVARIANTS
    
    StreamIsPrefix
PROPERTIES
    ContractSpec
    RunEnds
