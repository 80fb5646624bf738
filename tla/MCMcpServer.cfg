SPECIFICATION MCSpec
CONSTANTS
    Calls = {k1, k2}
    Hosts = {"a", "b"}
    Patterns = {"a", "*"}
    Matching <- MCMatching
    ClientLists <- MCClientLists
    Foreign <- MCForeign
    Invalid = Invalid
    None = None
    MaxEdits = 2
INVARIANTS
    NoOrphans
    ClientNeverWidens
    ClientNarrows
PROPERTIES
    CallsAnswered
    ServerExits
CHECK_DEADLOCK FALSE
