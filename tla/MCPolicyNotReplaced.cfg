SPECIFICATION Spec
CONSTANTS
    Calls = {k1}
    Hosts = {"a", "b"}
    Patterns = {"a", "*"}
    Matching <- MCMatching
    ClientLists <- MCClientLists
    Foreign <- MCForeign
    Invalid = Invalid
    None = None
    MaxEdits = 2
INVARIANT
    PolicyNotReplaced
CHECK_DEADLOCK FALSE
