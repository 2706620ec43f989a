\* Two analyses and two builds: of two analyses at once, or of one whose abandoned thread
\* still writes while it is retried.  One crash and one failing session at any point.
SPECIFICATION Spec
CONSTANTS
    MaxAnalyses = 2
    MaxBuilds = 2
    MaxImages = 2
    MaxCrashes = 1
    MaxFaults = 1
INVARIANTS
    ImagesTypeOK
    HeldImagesOnDisk
    OnlyMarkingLeaks
PROPERTIES
    ReferencedImagesKept
CHECK_DEADLOCK FALSE
