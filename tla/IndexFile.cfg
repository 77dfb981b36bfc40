SPECIFICATION Spec
CONSTANTS
    Builders = {b1, b2}
    Sizes = {1, 2}
    MaxVersions = 2
    MaxTime = 2
    MaxBuilds = 2
    IndexNames = {"uri"}
INVARIANTS
    TypeOK
    LoadedIndexIsOfThisFile
    MetadataIsOfOneVersion
    OneBuildPerIndex
PROPERTY WholeIndexIsNotTouched
SYMMETRY Symmetry
CHECK_DEADLOCK FALSE
