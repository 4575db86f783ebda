------------------------------ MODULE Services ------------------------------
(***************************************************************************)
(* Thirteen components that share nothing with one another, as one         *)
(* specification: a behaviour is one of the component that part names, and *)
(* the variables of the others rest.  A variable that two of them name     *)
(* alike is declared once.                                                 *)
(***************************************************************************)
EXTENDS Naturals, Sequences, FiniteSets

CONSTANTS
    Procs, Locks,                          \* launches
    Server, Asker,                         \* the artist index
    Modes, Asks, Screens,                  \* display modes
    Kinds, Damages, MaxPuts,               \* files under repair
    Feeds, Upstreams, Works, Cap, MaxIds,  \* podcasts
    Albums, Artists, Groups, MaxActs,      \* music to match
    Files, TitleOf, EraOf, Dated, Ids, Star,  \* episodes and films to match
    Episodes, SeasonOf, NumberOf, RowOf, Reports, MaxReports,  \* a show somebody watches
    Films, Audiobooks, Requests,           \* sources to play
    NoisePresets,                          \* effect chains
    Songs, Playlist, Similar, PerArtist, IncludeAll,
    MixTarget, MixCap, MixSeedCap, Wishes, \* hesplay's queue
    Paths, DirOf, Disks, EditArtists, Wanted,
    MaxPlays, MaxLyrics, MaxChanges        \* the music library

VARIABLES
    part,      \* the component that runs
    at, pc,    \* of launches and pipelines; pipelines, repairs, films to match and to play
    ask, upstream, moved,  \* of the index, display modes, sources and queues; podcasts; repairs
    kind, row, crossed,    \* of films and repairs, shows; display modes
    files, todo, held, listed, acts,  \* of music and films to match, music, shows
    app, replace, target, lock, sock, url, healthy, victims,
    cache, stale, refreshing, rebuild,
    offered, screen, saved, pending, timers, undo, boot, expected,
    preset, ends, started, alive, reaped, frozen, over, result,
    disk, tmp, verdict, puts, doubt, torn, lost,
    pods, eps, progress, given, work, heard,
    album, artist, phase, force, chosen, rejected, identity, bare,
    art, queued, keys, word, upload, taking,
    rows, clock,
    page, source, reply, stream,
    in, out,
    query, pool, queue, from,
    tree, tracks, albums, plays, lyrics, entries, stage, changes, settled, fresh, clashed, played

Launch == INSTANCE InstanceLaunch
Browse == INSTANCE BrowseIndex
Display == INSTANCE DisplayRevert
Pipeline == INSTANCE NoisePipeline
Repair == INSTANCE IntegrityRepair
Feed == INSTANCE Podcasts
Match == INSTANCE MusicMatch
Video == INSTANCE VideoMatch
Card == INSTANCE ContinueWatching WITH Files <- Episodes, MaxActs <- MaxReports
Play == INSTANCE PlaybackSession WITH Titles <- Films, Books <- Audiobooks, Asks <- Requests
Chain == INSTANCE NoiseChain WITH Presets <- NoisePresets
Queue == INSTANCE MusicQueue WITH Tracks <- Songs
Music == INSTANCE MusicLibrary WITH disk <- tree, rows <- tracks, heard <- played

(* What only one of them uses. *)
launchVars == <<app, replace, target, lock, sock, url, healthy, victims>>
browseVars == <<cache, stale, refreshing, rebuild>>
displayVars == <<offered, screen, saved, pending, timers, undo, boot, expected>>
pipelineVars == <<preset, ends, started, alive, reaped, frozen, over, result>>
repairVars == <<disk, tmp, verdict, puts, doubt, torn, lost>>
feedVars == <<pods, eps, progress, given, work, heard>>
matchVars == <<album, artist, phase, force, chosen, rejected, identity, bare>>
videoVars == <<art, queued, keys, word, upload, taking>>
cardVars == <<rows, clock>>
playVars == <<page, source, reply, stream>>
chainVars == <<in, out>>
queueVars == <<query, pool, queue, from>>
musicVars == <<tree, tracks, albums, plays, lyrics, entries, stage, changes, settled, fresh, clashed, played>>
sharedVars == <<at, pc, ask, upstream, moved, kind, row, crossed, files, todo, held, listed, acts>>
vars == <<part, sharedVars, launchVars, browseVars, displayVars, pipelineVars,
          repairVars, feedVars, matchVars, videoVars, cardVars, playVars,
          chainVars, queueVars, musicVars>>

Parts == {"launch", "browse", "display", "pipeline", "repair", "feed", "match", "video", "card", "play",
          "chain", "queue", "music"}

(* The component that part names begins, the variables of the others hold  *)
(* nothing.                                                                *)
Begun ==
    /\ IF part = "launch" THEN Launch!Init
       ELSE /\ app = 0 /\ replace = 0 /\ target = 0 /\ lock = 0 /\ sock = 0 /\ url = 0
            /\ healthy = 0 /\ victims = 0
    /\ IF part = "browse" THEN Browse!Init
       ELSE cache = 0 /\ stale = 0 /\ refreshing = 0 /\ rebuild = 0
    /\ IF part = "display" THEN Display!Init
       ELSE /\ offered = 0 /\ screen = 0 /\ saved = 0 /\ pending = 0 /\ timers = 0 /\ undo = 0
            /\ boot = 0 /\ expected = 0
    /\ IF part = "pipeline" THEN Pipeline!Init
       ELSE /\ preset = 0 /\ ends = 0 /\ started = 0 /\ alive = 0 /\ reaped = 0 /\ frozen = 0
            /\ over = 0 /\ result = 0
    /\ IF part = "repair" THEN Repair!Init
       ELSE /\ disk = 0 /\ tmp = 0 /\ verdict = 0 /\ puts = 0 /\ doubt = 0 /\ torn = 0 /\ lost = 0
    /\ IF part = "feed" THEN Feed!Init
       ELSE pods = 0 /\ eps = 0 /\ progress = 0 /\ given = 0 /\ work = 0 /\ heard = 0
    /\ IF part = "match" THEN Match!Init
       ELSE /\ album = 0 /\ artist = 0 /\ phase = 0 /\ force = 0 /\ chosen = 0 /\ rejected = 0
            /\ identity = 0 /\ bare = 0
    /\ IF part = "video" THEN Video!Init
       ELSE art = 0 /\ queued = 0 /\ keys = 0 /\ word = 0 /\ upload = 0 /\ taking = 0
    /\ IF part = "card" THEN Card!Init ELSE rows = 0 /\ clock = 0
    /\ IF part = "play" THEN Play!Init ELSE page = 0 /\ source = 0 /\ reply = 0 /\ stream = 0
    /\ IF part = "chain" THEN Chain!Init ELSE in = 0 /\ out = 0
    /\ IF part = "queue" THEN Queue!Init ELSE query = 0 /\ pool = 0 /\ queue = 0 /\ from = 0
    /\ IF part = "music" THEN Music!Init
       ELSE /\ tree = 0 /\ tracks = 0 /\ albums = 0 /\ plays = 0 /\ lyrics = 0 /\ entries = 0
            /\ stage = 0 /\ changes = 0 /\ settled = 0 /\ fresh = 0 /\ clashed = 0 /\ played = 0
    /\ IF part \in {"launch", "pipeline"} THEN TRUE ELSE at = 0
    /\ IF part \in {"pipeline", "repair", "video", "play", "queue"} THEN TRUE ELSE pc = 0
    /\ IF part \in {"browse", "display", "play", "queue"} THEN TRUE ELSE ask = 0
    /\ IF part \in {"browse", "feed"} THEN TRUE ELSE upstream = 0
    /\ IF part \in {"browse", "repair", "music"} THEN TRUE ELSE moved = 0
    /\ IF part \in {"repair", "video", "card"} THEN TRUE ELSE kind = 0
    /\ IF part \in {"repair", "video"} THEN TRUE ELSE row = 0
    /\ IF part \in {"display", "video"} THEN TRUE ELSE crossed = 0
    /\ IF part \in {"match", "video"} THEN TRUE ELSE files = 0 /\ held = 0 /\ listed = 0
    /\ IF part \in {"match", "video", "music"} THEN TRUE ELSE todo = 0
    /\ IF part \in {"match", "video", "card"} THEN TRUE ELSE acts = 0

(* It takes a step, and the others rest. *)
Turn ==
    /\ UNCHANGED part
    /\ IF part = "launch" THEN Launch!Next ELSE UNCHANGED launchVars
    /\ IF part = "browse" THEN Browse!Next ELSE UNCHANGED browseVars
    /\ IF part = "display" THEN Display!Next ELSE UNCHANGED displayVars
    /\ IF part = "pipeline" THEN Pipeline!Next ELSE UNCHANGED pipelineVars
    /\ IF part = "repair" THEN Repair!Next ELSE UNCHANGED repairVars
    /\ IF part = "feed" THEN Feed!Next ELSE UNCHANGED feedVars
    /\ IF part = "match" THEN Match!Next ELSE UNCHANGED matchVars
    /\ IF part = "video" THEN Video!Next ELSE UNCHANGED videoVars
    /\ IF part = "card" THEN Card!Next ELSE UNCHANGED cardVars
    /\ IF part = "play" THEN Play!Next ELSE UNCHANGED playVars
    /\ IF part = "chain" THEN Chain!Next ELSE UNCHANGED chainVars
    /\ IF part = "queue" THEN Queue!Next ELSE UNCHANGED queueVars
    /\ IF part = "music" THEN Music!Next ELSE UNCHANGED musicVars
    /\ IF part \in {"launch", "pipeline"} THEN TRUE ELSE UNCHANGED at
    /\ IF part \in {"pipeline", "repair", "video", "play", "queue"} THEN TRUE ELSE UNCHANGED pc
    /\ IF part \in {"browse", "display", "play", "queue"} THEN TRUE ELSE UNCHANGED ask
    /\ IF part \in {"browse", "feed"} THEN TRUE ELSE UNCHANGED upstream
    /\ IF part \in {"browse", "repair", "music"} THEN TRUE ELSE UNCHANGED moved
    /\ IF part \in {"repair", "video", "card"} THEN TRUE ELSE UNCHANGED kind
    /\ IF part \in {"repair", "video"} THEN TRUE ELSE UNCHANGED row
    /\ IF part \in {"display", "video"} THEN TRUE ELSE UNCHANGED crossed
    /\ IF part \in {"match", "video"} THEN TRUE ELSE UNCHANGED <<files, held, listed>>
    /\ IF part \in {"match", "video", "music"} THEN TRUE ELSE UNCHANGED todo
    /\ IF part \in {"match", "video", "card"} THEN TRUE ELSE UNCHANGED acts

Init == part \in Parts /\ Begun
Next == part \in Parts /\ Turn
Spec == Init /\ [][Next]_vars
-----------------------------------------------------------------------------
(* Each component holds what its variables are for: the type invariants,   *)
(* among them that rows refer to rows that exist and that a slot, an id, a *)
(* path and a position belong to one.                                      *)
TypesOK ==
    /\ part = "pipeline" => Pipeline!TypeOK
    /\ part = "browse" => Browse!TypeOK
    /\ part = "queue" => Queue!TypeOK
    /\ part = "music" => Music!TypeOK
    /\ part = "match" => Match!TypeOK
    /\ part = "video" => Video!TypeOK
    /\ part = "play" => Play!TypeOK
    /\ part = "card" => Card!TypeOK
    /\ part = "display" => Display!TypeOK
    /\ part = "launch" => Launch!TypeOK
    /\ part = "repair" => Repair!TypeOK
    /\ part = "feed" => Feed!TypeOK

(* What the components promise, as their modules state it: a session of    *)
(* noise leaves nothing behind (cmd/hesplay/noise.go); ...                 *)
NothingLeftBehind == part = "pipeline" => Pipeline!NothingLeftBehind
(* a request is answered from the server it asked (browse.go); ...         *)
AnsweredFromAskedServer == part = "browse" => Browse!AnsweredFromAskedServer
(* what a person chose for an album stands (internal/match); ...           *)
ChoicesStand == part = "match" => Match!ChoicesStand
(* a display mode nobody kept is undone (web/handlers_display.go); ...     *)
UnkeptIsUndone == part = "display" => Display!UnkeptIsUndone
(* one instance has the database and is found (cmd/hespera); ...           *)
OneInstance == part = "launch" => Launch!OneInstance
(* a verdict is about the file that is there (internal/integrity); ...     *)
VerdictFollowsFile == part = "repair" => Repair!VerdictFollowsFile
(* what was heard stays ticked (web/handlers_podcasts.go); ...             *)
HeardStaysHeard == part = "feed" => Feed!HeardStaysHeard
(* the card of a show plays (web/handlers_core.go); ...                    *)
CardPlays == part = "card" => Card!CardPlays
(* a client is sent what was decided (web/handlers_stream_tv.go); ...      *)
StreamKeepsDecision == part = "play" => Play!StreamKeepsDecision
(* the noise loops without a seam (cmd/hesplay/noise.go); ...              *)
LoopsSeamlessly == part = "chain" => Chain!LoopsSeamlessly
(* what plays is what was asked for (web/handlers_music.go); ...           *)
QueueHoldsWhatWasAsked == part = "queue" => Queue!QueueHoldsWhatWasAsked
(* and the playlist follows a file that moves (internal/scan).             *)
EntryFollowsFile == part = "music" => Music!EntryFollowsFile
=============================================================================
