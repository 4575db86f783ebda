SPECIFICATION MCSpec
CONSTANTS
    Procs = {"p1", "p2", "p3"} Locks = TRUE
    Server = {"s1", "s2"} Asker = {1, 2}
    Modes = {"m0", "m1"} Asks = {"r1", "r2"}
    Screens <- MCScreens
    Kinds = {"video", "music", "mp3"} MaxPuts = 1
    Damages <- MCDamages
    Feeds = {"f1", "f2"} Works = {1, 2} Cap = 1 MaxIds = 2
    Upstreams <- Weeks
    Albums = {"a1"} Artists = {"b1"} Groups = {"g1"} MaxActs = 2
    Files = {"f1", "f2"} TitleOf <- OneTitle EraOf <- EachYear Dated = {"f1"}
    Ids = {i1, i2} Star = "p1"
    Episodes = {"e1", "e2", "e3", "e4"} SeasonOf <- MCSeasons NumberOf <- MCNumbers RowOf <- MCRows
    Reports <- MCReports MaxReports = 3
    Films <- MCFilms Audiobooks <- MCAudiobooks Requests <- MCRequests
    NoisePresets <- MCPresets
    Songs <- MCSongs Playlist <- MCPlaylist Similar <- MCSimilar Wishes <- MCWishes
    PerArtist = 2 IncludeAll = 1 MixTarget = 3 MixCap = 1 MixSeedCap = 2
    Paths = {"p1", "p2", "p3"} DirOf <- Folders Disks <- Pairs EditArtists = {"DJ"}
    Wanted = {"1", "2"} MaxPlays = 0 MaxLyrics = 1 MaxChanges = 1
SYMMETRY IdsAlike
INVARIANTS
    TypesOK
    NothingLeftBehind
    LoopsSeamlessly
    AnsweredFromAskedServer
    QueueHoldsWhatWasAsked
    ScanReflectsTree
    EntryFollowsFile
    ChoicesStand
    DecisionsStand
    UnkeptIsUndone
    OneInstance
    VerdictFollowsFile
    HeardStaysHeard
    StreamKeepsDecision
    CardPlays
CHECK_DEADLOCK FALSE
