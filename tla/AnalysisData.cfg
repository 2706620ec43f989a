\* Ten worlds: requests, videos, moving and overlapping objects, identifiers, rooms, edges,
\* images, answers, pages.
SPECIFICATION Spec
CONSTANTS
    None = None
    Malformed = Malformed
    Grid = 32
    FrameRate = 3
    FrameMin = 2
    FrameMax = 3
    VideoMin = 300
    VideoMax = 1500
    LlmMaxImages = 2
    MaxRiskFactors = 2
    MinAnalysis = 1
    MaxAnalysis = 2
    MinRecommendations = 1
    MaxRecommendations = 2
    PageSizeMax = 2
    Worlds <- MCWorlds
INVARIANTS
    FramesUsedOnce
    UnionAreaExact
    EachDetectionOnce
    OrderIrrelevant
    ModelSeesTheResult
    MarkedIffCostly
    ExamplesFollowRules
    ResultFitsTables
    RepairsAccountForChanges
    PagesPartition
CHECK_DEADLOCK FALSE
