\* One analysis, and a session that may fail: the one that commits the deletion, say.
SPECIFICATION Spec
CONSTANTS
    MaxAnalyses = 1
    MaxBuilds = 1
    MaxImages = 1
    MaxCrashes = 0
    MaxFaults = 1
INVARIANT ShownResultsHaveImages
CHECK_DEADLOCK FALSE
