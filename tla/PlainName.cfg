SPECIFICATION Spec
CONSTANTS
    Builders = {b1}
    Sizes = {1, 2}
    MaxVersions = 1
    MaxTime = 2
    MaxBuilds = 2
    IndexNames = {"plain"}
INVARIANT NameIsAccepted
CHECK_DEADLOCK FALSE
