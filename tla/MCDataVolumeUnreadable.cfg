SPECIFICATION Spec
CONSTANTS
    Disks <- MCPlainDisks
    Virtual = {}
    Contents <- MCContents
    Specs = {"auto", "label", "path"}
    Flaky = TRUE
    MaxBoots = 1
PROPERTY
    FilesystemsKept
CHECK_DEADLOCK FALSE
