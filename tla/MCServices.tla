----------------------------- MODULE MCServices -----------------------------
(***************************************************************************)
(* TLC instances of the components that share nothing with one another:    *)
(* those of Services, and the music library and the films a second time,   *)
(* in v1, v2, ...  Each behaviour is one of one component.                 *)
(***************************************************************************)
EXTENDS Services, Integers, TLC

VARIABLES v1, v2, v3, v4, v5, v6, v7, v8, v9, v10, v11, v12, v13, v14, v15

(* A recording: its song, artist, album artist and compilation flag. *)
File(s, a, b, c) == [song |-> s, artist |-> a, albumArtist |-> b, comp |-> c]
Gone == [song |-> "gone"]
Track(a, l, s, p) == [artist |-> a, album |-> l, song |-> s, pop |-> p]

Trees ==
    {[p1 |-> File("1", "A", "DJ", "unset"), p2 |-> File("2", "B", "DJ", "unset"),
      p3 |-> File("3", "C", "", "unset"), p4 |-> File("4", "A", "", "unset")],
     [p1 |-> File("1", "A", "DJ", "unset"), p2 |-> Gone, p3 |-> Gone,
      p4 |-> File("2", "B", "DJ", "unset")]}
Pairs ==
    {[p1 |-> File("1", "A", "DJ", "unset"), p2 |-> File("2", "B", "DJ", "unset"), p3 |-> Gone]}
MCSongs ==
    << Track(1, 1, "x", 3), Track(1, 1, "y", 1), Track(1, 2, "x", 3), Track(1, 2, "z", 0),
       Track(2, 3, "x", 0) >>
IdsAlike == Permutations(Ids)
OneTitle == [f \in Files |-> "t"]
EachYear == [f \in Files |-> f]
MCSeasons == [f \in Episodes |-> IF f \in {"e1", "e2"} THEN 1 ELSE 2]
MCNumbers == [f \in Episodes |-> IF f = "e4" THEN 2 ELSE 1]   \* e1 and e2 are copies
MCRows == [f \in Episodes |-> IF f \in {"e1", "e4"} THEN 1 ELSE 2]
MCReports == {<<40, FALSE>>, <<92, FALSE>>, <<92, TRUE>>, <<97, FALSE>>, <<97, TRUE>>}

(* What is played, and how it is asked for. *)
Audio(c, d, l) == [codec |-> c, default |-> d, lang |-> l]
Caption(t, d, l) == [text |-> t, default |-> d, lang |-> l]
Picture(c) == [codec |-> c, px |-> 1, pic |-> FALSE]
Cover == [codec |-> "mjpeg", px |-> 2, pic |-> TRUE]
Unflagged == [codec |-> "mjpeg", px |-> 0, pic |-> FALSE]
Source(c, v, a, s, b, p) ==
    [container |-> c, videos |-> v, audio |-> a, subs |-> s, big |-> b, probed |-> p]
Tracks ==
    { <<>>, <<Audio("aac", FALSE, "en")>>, <<Audio("ac3", TRUE, "en")>>,
      <<Audio("aac", FALSE, "en"), Audio("ac3", TRUE, "fr")>>,
      <<Audio("ac3", TRUE, "en"), Audio("aac", FALSE, "fr")>> }
Captions ==
    { <<>>, <<Caption(TRUE, FALSE, "en")>>,
      <<Caption(FALSE, TRUE, "fr"), Caption(TRUE, FALSE, "fr")>> }
MCFilms ==
    {Source(c, v, a, s, FALSE, TRUE) : c \in {"mp4", "mkv"}, a \in Tracks, s \in Captions,
        v \in {<<Picture("h264")>>, <<Picture("hevc")>>, <<Cover, Picture("h264")>>}}
    \cup {Source("mp4", <<Picture("h264")>>, a, <<>>, TRUE, p) : a \in Tracks, p \in BOOLEAN}
    \cup {Source("mkv", <<Unflagged, Picture("h264")>>, <<Audio("aac", FALSE, "en")>>, <<>>, FALSE, TRUE)}
    \cup {Source("webm", <<Picture("vp9")>>, <<Audio("opus", TRUE, "en")>>, s, FALSE, TRUE) :
            s \in Captions}
MCAudiobooks ==
    {Source(c, v, a, <<>>, FALSE, p) : c \in {"m4b", "mp3"}, v \in {<<>>, <<Cover>>},
        a \in Tracks \ {<<>>}, p \in BOOLEAN}
MCRequests ==
    [aud: 0 .. 2, sub: -1 .. 2, mode: {"auto", "direct_stream"}, hint: {"none", "web-safari"},
     ua: {"web-chrome", "web-safari"}, lang: {"none", "fr"}, subsOn: BOOLEAN]

Weeks ==
    {[f1 |-> {"g1", "g2"}, f2 |-> {}], [f1 |-> {"g1"}, f2 |-> {"g3"}]}
MCScreens == {{"m0", "m1"}, {}}
MCDamages == SUBSET {"container", "gap", "frames"}

MCPresets ==
    [type : {"none", "sox", "ffmpeg", "unknown"}, wave : {0, 4, 25, 70, 700},
     type2 : {"none", "sox", "ffmpeg"}, wave2 : {0, 45, 100, 650}, offset2 : {0, 7, 900},
     floor : {"none", "sox", "ffmpeg"}, floorWave : {0, 100, 3000}, floorOffset : {0, 25},
     fade : {0, 6}]

(* What people ask of hesplay: by id, by a name some rows match, from a track. *)
Results == UNION {[1 .. n -> [id : 1 .. 2, exact : BOOLEAN, fits : BOOLEAN]] : n \in 0 .. 2}
MCWishes ==
    [verb : {"popular", "all", "album", "artist", "mix", "song", "playlist", "bogus"}, by : {"id"},
     id : {1, 2, 9}, rows : {<<>>}, numeric : {0}, shuffle : BOOLEAN, from : {0, 2}]
    \cup [verb : {"album", "artist", "mix", "song", "playlist"}, by : {"name"}, id : {0},
          rows : Results, numeric : {0, 2}, shuffle : {FALSE}, from : {0}]
    \cup [verb : {"radio"}, by : {"id"}, id : DOMAIN MCSongs, rows : {<<>>}, numeric : {0},
          shuffle : {FALSE}, from : {0}]
MCPlaylist == <<4, 1, 1>>
MCSimilar == [a \in {2} |-> 1]

Folders == [p \in Paths |-> IF p = "p3" THEN "d2" ELSE "d1"]

-----------------------------------------------------------------------------
(* A library of four files that is scanned and not touched otherwise.      *)
Tree == INSTANCE MusicLibrary WITH
    Paths <- {"p1", "p2", "p3", "p4"}, DirOf <- [p \in {"p1", "p2", "p3", "p4"} |-> IF p = "p4" THEN "d2" ELSE "d1"],
    Disks <- Trees, EditArtists <- {"DJ"}, Wanted <- {}, MaxPlays <- 0, MaxLyrics <- 0, MaxChanges <- 0,
    disk <- v1, rows <- v2, albums <- v3, plays <- v4, lyrics <- v5, entries <- v6, stage <- v7, todo <- v8,
    changes <- v9, settled <- v10, fresh <- v11, moved <- v12, clashed <- v13, heard <- v14

(* One film, and people who upload and clear its picture at once.          *)
Cinema == INSTANCE VideoMatch WITH
    Files <- {"f1"}, TitleOf <- [f \in {"f1"} |-> "t"], EraOf <- [f \in {"f1"} |-> "y"], Dated <- {},
    Ids <- {"i1"}, MaxActs <- 3,
    kind <- v1, row <- v2, art <- v3, files <- v4, pc <- v5, todo <- v6, held <- v7, listed <- v8,
    queued <- v9, keys <- v10, acts <- v11, upload <- v12, taking <- v13, word <- v14, crossed <- v15
slots == <<v1, v2, v3, v4, v5, v6, v7, v8, v9, v10, v11, v12, v13, v14, v15>>

Blank ==
    /\ v1 = 0 /\ v2 = 0 /\ v3 = 0 /\ v4 = 0 /\ v5 = 0 /\ v6 = 0 /\ v7 = 0
    /\ v8 = 0 /\ v9 = 0 /\ v10 = 0 /\ v11 = 0 /\ v12 = 0 /\ v13 = 0 /\ v14 = 0 /\ v15 = 0

MCInit ==
    /\ \/ part \in Parts /\ Blank
       \/ part = "tree" /\ Tree!Init /\ v15 = 0
       \/ part = "cinema" /\ Cinema!Init /\ v1 = "movie"
    /\ Begun
MCNext ==
    /\ Turn
    /\ \/ part \in Parts /\ UNCHANGED slots
       \/ part = "tree" /\ Tree!Next /\ UNCHANGED v15
       \/ part = "cinema" /\ Cinema!Next
MCSpec == MCInit /\ [][MCNext]_<<vars, slots>>
-----------------------------------------------------------------------------
(* What a person decided of an episode or a film stands (internal/tmdb).   *)
DecisionsStand ==
    (part = "video" => Video!DecisionsStand) /\ (part = "cinema" => Cinema!DecisionsStand)
(* A scan of the music library leaves what the files say (internal/scan).  *)
ScanReflectsTree == (part = "tree" => Tree!ScanReflectsTree) /\ (part = "music" => Music!ScanReflectsTree)
=============================================================================
