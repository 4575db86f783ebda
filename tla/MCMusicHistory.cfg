SPECIFICATION Spec
CONSTANTS
    Paths = {"p1", "p2", "p3"}
    DirOf <- FolderOf
    Disks <- Folder
    EditArtists = {"DJ", "Else"}
    Wanted = {"1"}
    MaxPlays = 1
    MaxLyrics = 0
    MaxChanges = 1
INVARIANT HistorySurvivesEdits
CHECK_DEADLOCK FALSE
