SPECIFICATION Spec
CONSTANTS
    Disks <- MCDisks
    Virtual <- MCVirtual
    Contents <- MCContents
    Specs = {"auto", "label", "path"}
    Flaky = FALSE
    MaxBoots = 2
INVARIANTS
    VolumeFoundAgain
PROPERTIES
    RecognisedKept
CHECK_DEADLOCK FALSE
