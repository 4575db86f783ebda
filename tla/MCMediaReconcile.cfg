SPECIFICATION Spec
CONSTANTS
    Path = {1, 2, 3}
    ExtraPath = {3}
    None = None f1 = f1 f2 = f2
    Content <- Files
    ShowDir <- Shows
    FirstPath <- Placed
    MaxMoves = 2
    MaxActs = 2
    MaxScans = 2
INVARIANTS ScanConverges UserStateFollowsFile MatchFollowsFile
PROPERTIES UnmountLosesNothing EarnedStaysInBooks
CHECK_DEADLOCK FALSE
