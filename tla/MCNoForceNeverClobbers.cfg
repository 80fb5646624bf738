SPECIFICATION Spec
CONSTANTS
    Recorders = {w1, w2}
    Replayers = {r1}
    Configs = {c1, c2}
    Old = Old
    None = None
PROPERTY
    NoForceNeverClobbers
