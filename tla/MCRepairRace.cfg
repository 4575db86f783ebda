SPECIFICATION Spec
CONSTANTS
    Kinds = {"video", "music", "mp3"}
    Damages <- Harm
    MaxPuts = 1
INVARIANT OriginalStands
CHECK_DEADLOCK FALSE
