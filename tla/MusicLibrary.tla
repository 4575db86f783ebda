----------------------------- MODULE MusicLibrary -----------------------------
(***************************************************************************)
(* The music library of one root (internal/scan, match/dedup.go and        *)
(* writeback.go, web/handlers_music*.go): the scan that brings the rows to *)
(* the files, decides what is a compilation and carries a moved track's    *)
(* history, lyrics and playlist entry; the tag editor, Rescan, the tag     *)
(* writeback and the merge of duplicates; plays, lyrics and the playlist.  *)
(* A file is its recording and its tags (its bytes, size and mtime with    *)
(* them).  All albums here bear one title and year, so an album artist     *)
(* names an album; albums of other titles never meet these.                *)
(***************************************************************************)
EXTENDS Integers, FiniteSetsExt, SequencesExt, Orders

CONSTANTS
    Paths, DirOf,  \* the audio files' paths and [path -> albumDirKey]
    Disks,         \* the trees the library starts from
    EditArtists,   \* album artists a person may type
    Wanted,        \* the recordings a person plays and lists
    MaxPlays, MaxLyrics, MaxChanges   \* bounds: plays, lyrics, changes of files and tags

VARIABLES
    disk,      \* [path -> file, Gone if there is none]
    rows,      \* music_tracks: [id, path, seen, artist, album]
    albums,    \* music_albums: [id, artist, comp]
    plays,     \* play_history: [track, artist, album, of], of the recording played
    lyrics,    \* the tracks with a row in lyrics_cache
    entries,   \* the playlist: [track -> position]
    stage,     \* of the scan job: "idle", "files", "finalize", "relink", "prune", "cleanup", "done"
    todo,      \* the walk's paths not processed yet
    changes,
    settled,   \* history: no file changed since the scan began
    fresh,     \* history: nothing was ever scanned before this scan
    moved,     \* history: files on the playlist that were not at their row's path when it began
    clashed,   \* history: files not relinked: both rows had lyrics, or two rows have no file
    heard      \* history: recordings played and not removed since

data == <<rows, albums, plays, lyrics, entries>>
history == <<settled, fresh, moved, clashed, heard>>
vars == <<disk, data, stage, todo, changes, history>>

Gone == [song |-> "gone"]
VA == "Various Artists"
Present == {p \in Paths : disk[p] # Gone}
NewId(S) == CHOOSE i \in 1 .. Cardinality(S) + 1 : i \notin {r.id : r \in S}
On(rs, a) == {r \in rs : r.album = a}

-----------------------------------------------------------------------------
(* What the tags say of the album: a tag marks a compilation, an album     *)
(* artist that is only the track's stands for Various Artists on one.      *)
Marked(f) == (f.comp = "yes" \/ f.albumArtist = VA) /\ f.comp # "no"
AlbumArtist(f) ==
    LET name == IF f.albumArtist = "" THEN f.artist ELSE f.albumArtist
    IN IF Marked(f) /\ name = f.artist THEN VA ELSE name

(* ensureAlbum, then the upsert of the track's row. *)
WithFile(st, p, f) ==
    LET same == {a \in st.albums : a.artist = AlbumArtist(f)}
        id == IF same = {} THEN NewId(st.albums) ELSE (CHOOSE a \in same : TRUE).id
        old == {r \in st.rows : r.path = p}
        row == [id |-> IF old = {} THEN NewId(st.rows) ELSE (CHOOSE r \in old : TRUE).id,
                path |-> p, seen |-> f, artist |-> f.artist, album |-> id]
    IN [albums |-> (st.albums \ same)
                   \cup {[id |-> id, artist |-> AlbumArtist(f), comp |-> Marked(f)]},
        rows |-> (st.rows \ old) \cup {row}, plays |-> st.plays]

Dirs(rs) == {DirOf[r.path] : r \in rs}

(* Mutated form: every album of the same title is taken for a fragment. *)
ColocatedAlways(st, ids, sib) == TRUE

(* albumTrackDirs: some file of the two lies in the same album folder. *)
Colocated(st, ids, sib) ==
    Dirs({r \in st.rows : r.album \in ids}) \cap Dirs(On(st.rows, sib)) # {}

(* One candidate of finalizeCompilations: with no artist of most of its    *)
(* tracks it becomes Various Artists, or joins the one there is (an empty  *)
(* one is deleted, and its history cascades), with its fragments.          *)
Promoted(st, a) ==
    LET own == On(st.rows, a)
        most == Max({Cardinality({r \in own : r.artist = x}) : x \in {r.artist : r \in own}} \cup {0})
        other == {v \in st.albums : v.artist = VA /\ v.id # a}
        filled == {v \in other : On(st.rows, v.id) # {}}
        target == IF filled # {} THEN (CHOOSE v \in filled : TRUE).id ELSE a
        kept == {v \in st.albums : v.id # target /\ v \notin other \ filled}
        fragments == {v.id : v \in {w \in kept : w.id # a /\ Colocated(st, {a, target}, w.id)}}
        merge == fragments \cup (IF target = a THEN {} ELSE {a})
    IN IF own = {} \/ 2 * most > Cardinality(own) THEN st
       ELSE [albums |-> kept \cup {[id |-> target, artist |-> VA, comp |-> TRUE]},
             rows |-> {IF r.album \in merge THEN [r EXCEPT !.album = target] ELSE r : r \in st.rows},
             plays |-> {x \in st.plays : x.album \notin {v.id : v \in other \ filled}}]

(* finalizeCompilations: the candidates are read once, in order of id. *)
Finalized(st) ==
    LET ids == InOrder({a.id : a \in {b \in st.albums :
                  ~b.comp /\ Cardinality({r.artist : r \in On(st.rows, b.id)}) > 1}})
        after[n \in 0 .. Len(ids)] == IF n = 0 THEN st ELSE Promoted(after[n - 1], ids[n])
    IN after[Len(ids)]

(* cleanupEmptyAlbums: albums, then artists, nothing refers to; the rows   *)
(* of play_history that do cascade.                                        *)
Cleaned(st) ==
    LET kept == {a \in st.albums : On(st.rows, a.id) # {}}
        artists == {a.artist : a \in kept} \cup {r.artist : r \in st.rows}
    IN [st EXCEPT !.albums = kept,
                  !.plays = {x \in @ : x.album \in {a.id : a \in kept} /\ x.artist \in artists}]

Store == [rows |-> rows, albums |-> albums, plays |-> plays]
Becomes(st) ==
    /\ rows' = st.rows /\ albums' = st.albums /\ plays' = st.plays
    /\ UNCHANGED <<lyrics, entries>>

-----------------------------------------------------------------------------
(* ScanMusic: the walk fixes the paths; each file is then read on its own. *)
Orphan(r) == disk[r.path] = Gone
BeginScan ==
    /\ stage \in {"idle", "done"}
    /\ stage' = "files" /\ todo' = Present /\ settled' = TRUE
    /\ fresh' = (fresh /\ rows = {})
    /\ moved' = {r.seen : r \in {s \in rows : Orphan(s) /\ s.id \in DOMAIN entries}}
    /\ clashed' = {} /\ UNCHANGED <<disk, data, changes, heard>>

(* A file that is gone, unreadable or unchanged leaves the rows alone. *)
Known(p) == \E r \in rows : r.path = p /\ r.seen = disk[p]
ScanFile(p) ==
    /\ stage = "files" /\ p \in todo
    /\ todo' = todo \ {p}
    /\ IF disk[p] = Gone \/ Known(p) THEN UNCHANGED data
       ELSE Becomes(WithFile(Store, p, disk[p]))
    /\ UNCHANGED <<disk, changes, stage, history>>
ScanFileFails(p) ==
    /\ stage = "files" /\ p \in todo
    /\ todo' = todo \ {p} /\ settled' = FALSE
    /\ UNCHANGED <<disk, data, changes, stage, fresh, moved, clashed, heard>>

(* An empty walk over a library with rows looks like an unmounted root. *)
EndFiles(none) ==
    /\ stage = "files" /\ todo = {}
    /\ none => Present = {}
    /\ stage' = IF none /\ rows # {} THEN "idle" ELSE "finalize"
    /\ UNCHANGED <<disk, data, changes, todo, history>>
Finalize ==
    /\ stage = "finalize" /\ stage' = "relink" /\ Becomes(Finalized(Store))
    /\ UNCHANGED <<disk, changes, todo, history>>

(* Mutated form: only a rename within the folder is recognised. *)
HeirsInFolder(r) == {s \in rows : s.seen = r.seen /\ ~Orphan(s) /\ DirOf[s.path] = DirOf[r.path]}

(* relinkMovedTracks: one orphan and one survivor with the same bytes. *)
Heirs(r) ==
    LET alike == {s \in rows : s.seen = r.seen}
    IN IF Cardinality({s \in alike : Orphan(s)}) = 1 /\ Cardinality({s \in alike : ~Orphan(s)}) = 1
       THEN {s \in alike : ~Orphan(s)} ELSE {}

(* transferTrackState: one transaction, which fails as a whole when both   *)
(* tracks have a row in lyrics_cache (UNIQUE(track_id, provider_key)).     *)
Heir(id) ==
    LET from == {r \in rows : Orphan(r) /\ id \in {h.id : h \in Heirs(r)}}
    IN {r.id : r \in {o \in from : ~(o.id \in lyrics /\ id \in lyrics)}}
Relink ==
    /\ stage = "relink" /\ stage' = "prune"
    /\ LET given == {o \in {r.id : r \in rows} : \E h \in {r.id : r \in rows} : o \in Heir(h)}
           to(o) == CHOOSE h \in {r.id : r \in rows} : o \in Heir(h)
           now(t) == IF t \in given THEN to(t) ELSE t
           stays == {t \in DOMAIN entries : t \notin given}
           gets == {to(o) : o \in given \cap DOMAIN entries}
           twice(r) == \E o \in rows : o # r /\ Orphan(o) /\ o.seen = r.seen
       IN /\ plays' = {[x EXCEPT !.track = now(x.track)] : x \in plays}
          /\ lyrics' = {now(t) : t \in lyrics}
          /\ clashed' = {r.seen : r \in {o \in rows : /\ Orphan(o) /\ o.id \notin given
                                                     /\ (Heirs(o) # {} \/ twice(o))}}
          /\ entries' = [t \in stays \cup gets |->
                IF t \in stays THEN entries[t]
                ELSE entries[CHOOSE o \in given \cap DOMAIN entries : to(o) = t]]
    /\ UNCHANGED <<disk, rows, albums, changes, todo, settled, fresh, moved, heard>>

(* pruneMissingTracks: everything that refers to the row cascades. *)
Prune ==
    /\ stage = "prune" /\ stage' = "cleanup"
    /\ rows' = {r \in rows : ~Orphan(r)}
    /\ LET left == {r.id : r \in rows'}
       IN /\ plays' = {x \in plays : x.track \in left}
          /\ lyrics' = lyrics \cap left
          /\ entries' = [t \in DOMAIN entries \cap left |-> entries[t]]
    /\ UNCHANGED <<disk, albums, changes, todo, history>>
Cleanup ==
    /\ stage = "cleanup" /\ stage' = "done" /\ Becomes(Cleaned(Store))
    /\ UNCHANGED <<disk, changes, todo, history>>

(* The job is cancelled, or the process dies, between two steps. *)
Cancel ==
    /\ stage \notin {"idle", "done"} /\ stage' = "idle" /\ todo' = {}
    /\ fresh' = FALSE /\ UNCHANGED <<disk, data, changes, settled, moved, clashed, heard>>

-----------------------------------------------------------------------------
(* ScanFiles after a tag edit or on Rescan: always a full read, no relink  *)
(* and no prune.  The album editor writes every file that is there.        *)
Rescanned(st, paths, d) ==
    LET after[n \in 0 .. Len(paths)] ==
            IF n = 0 THEN st
            ELSE IF d[paths[n]] = Gone THEN after[n - 1]
            ELSE WithFile(after[n - 1], paths[n], d[paths[n]])
    IN Cleaned(Finalized(after[Len(paths)]))
Retagged(S, name) == [p \in Paths |-> IF p \in S /\ disk[p] # Gone
                                      THEN [disk[p] EXCEPT !.albumArtist = name] ELSE disk[p]]
Edit(S, name) ==
    /\ changes < MaxChanges /\ \E p \in S : disk[p] # Gone
    /\ disk' = Retagged(S, name) /\ changes' = changes + 1
    /\ \E paths \in SetToSeqs({p \in S : disk[p] # Gone}) : Becomes(Rescanned(Store, paths, disk'))
    /\ settled' = FALSE /\ fresh' = FALSE /\ UNCHANGED <<stage, todo, moved, clashed, heard>>
AlbumPaths(a) == {r.path : r \in On(rows, a)}
AlbumEdit(a, name) == AlbumPaths(a) # {} /\ Edit(AlbumPaths(a), name)
TrackEdit(r, name) == Edit({r.path}, name)
Rescan(a) ==
    /\ AlbumPaths(a) # {}
    /\ \E paths \in SetToSeqs(AlbumPaths(a)) : Becomes(Rescanned(Store, paths, disk))
    /\ settled' = FALSE /\ fresh' = FALSE /\ UNCHANGED <<disk, changes, stage, todo, moved, clashed, heard>>

(* RunTagWriteback, writebackAlbumTracks: the rows' names into the files;  *)
(* the next scan reads them back.                                          *)
Writeback(a) ==
    /\ changes < MaxChanges /\ AlbumPaths(a.id) # {}
    /\ disk' = [p \in Paths |->
          IF disk[p] # Gone /\ p \in AlbumPaths(a.id)
          THEN [disk[p] EXCEPT !.albumArtist = a.artist,
                               !.artist = (CHOOSE r \in rows : r.path = p).artist]
          ELSE disk[p]]
    /\ changes' = changes + 1 /\ settled' = FALSE
    /\ UNCHANGED <<data, stage, todo, fresh, moved, clashed, heard>>

(* MergeAlbums: tracks and history move, the source is deleted. *)
MergeAlbums(target, source) ==
    /\ target # source /\ On(rows, source.id) # {}
    /\ LET rs == {IF r.album = source.id THEN [r EXCEPT !.album = target.id] ELSE r : r \in rows}
           ps == {IF x.album = source.id THEN [x EXCEPT !.album = target.id] ELSE x : x \in plays}
           artists == {a.artist : a \in albums \ {source}} \cup {r.artist : r \in rs}
       IN Becomes([rows |-> rs, albums |-> albums \ {source},
                   plays |-> {x \in ps : x.artist \in artists}])
    /\ settled' = FALSE /\ fresh' = FALSE /\ UNCHANGED <<disk, changes, stage, todo, moved, clashed, heard>>

-----------------------------------------------------------------------------
(* musicPlayEvent. *)
Play(r) ==
    /\ Cardinality(plays) < MaxPlays
    /\ plays' = plays \cup {[track |-> r.id, artist |-> r.artist, album |-> r.album, of |-> r.seen.song]}
    /\ heard' = heard \cup {r.seen.song}
    /\ UNCHANGED <<disk, rows, albums, lyrics, entries, stage, todo, changes, settled, fresh, moved, clashed>>

(* musicLyricsFetch: hits and misses are cached. *)
Lyrics(r) ==
    /\ r.id \notin lyrics /\ Cardinality(lyrics) < MaxLyrics /\ lyrics' = lyrics \cup {r.id}
    /\ UNCHANGED <<disk, rows, albums, plays, entries, stage, todo, changes, history>>

(* Mutated form: a new entry goes where the count says the end is. *)
EndOfCount == Cardinality(DOMAIN entries) + 1

End == Max({entries[t] : t \in DOMAIN entries} \cup {0}) + 1

(* The position of an entry when they are numbered anew from 1. *)
Rank(t, listed) == Cardinality({s \in listed : entries[s] <= entries[t]})

(* Adding what is there already changes nothing. *)
AddTrack(r) ==
    /\ r.id \notin DOMAIN entries
    /\ entries' = [t \in DOMAIN entries \cup {r.id} |-> IF t = r.id THEN End ELSE entries[t]]
    /\ UNCHANGED <<disk, rows, albums, plays, lyrics, stage, todo, changes, history>>
RemoveTrack(t) ==
    /\ LET left == DOMAIN entries \ {t} IN entries' = [s \in left |-> Rank(s, left)]
    /\ moved' = moved \ {r.seen : r \in {s \in rows : s.id = t}}
    /\ UNCHANGED <<disk, rows, albums, plays, lyrics, stage, todo, settled, fresh, changes, clashed, heard>>
MoveTrack(t, by) ==    \* at the edge nothing is committed
    \E u \in DOMAIN entries :
        LET now(s) == Rank(s, DOMAIN entries)
        IN  /\ now(u) = now(t) + by
            /\ entries' = [s \in DOMAIN entries |->
                              IF s = t THEN now(u) ELSE IF s = u THEN now(t) ELSE now(s)]
            /\ UNCHANGED <<disk, rows, albums, plays, lyrics, stage, todo, changes, history>>
DeletePlaylist ==
    /\ entries # <<>> /\ entries' = <<>> /\ moved' = {}
    /\ UNCHANGED <<disk, rows, albums, plays, lyrics, stage, todo, settled, fresh, changes, clashed, heard>>

(* A file is moved or deleted outside the program. *)
Relocate(p, q) ==
    /\ changes < MaxChanges /\ disk[p] # Gone /\ disk[q] = Gone
    /\ disk' = [disk EXCEPT ![q] = disk[p], ![p] = Gone]
    /\ changes' = changes + 1 /\ settled' = FALSE
    /\ UNCHANGED <<data, stage, todo, fresh, moved, clashed, heard>>
Unlink(p) ==
    /\ changes < MaxChanges /\ disk[p] # Gone
    /\ disk' = [disk EXCEPT ![p] = Gone]
    /\ changes' = changes + 1 /\ settled' = FALSE /\ heard' = heard \ {disk[p].song}
    /\ UNCHANGED <<data, stage, todo, fresh, moved, clashed>>

Init ==
    /\ disk \in Disks /\ rows = {} /\ albums = {} /\ plays = {} /\ lyrics = {} /\ entries = <<>>
    /\ stage = "idle" /\ todo = {} /\ changes = 0
    /\ settled = FALSE /\ fresh = TRUE /\ moved = {} /\ clashed = {} /\ heard = {}

Next ==
    \/ BeginScan \/ Finalize \/ Relink \/ Prune \/ Cleanup \/ Cancel
    \/ \E none \in BOOLEAN : EndFiles(none)
    \/ \E p \in Paths : ScanFile(p) \/ ScanFileFails(p) \/ Unlink(p)
    \/ \E p, q \in Paths : Relocate(p, q)
    \/ \E a \in albums, name \in EditArtists : AlbumEdit(a.id, name)
    \/ \E r \in rows, name \in EditArtists : TrackEdit(r, name)
    \/ \E a \in albums : Rescan(a.id) \/ Writeback(a)
    \/ \E a, b \in albums : MergeAlbums(a, b)
    \/ \E r \in {s \in rows : s.seen.song \in Wanted} : Play(r) \/ Lyrics(r) \/ AddTrack(r)
    \/ \E t \in DOMAIN entries : RemoveTrack(t) \/ \E by \in {1, -1} : MoveTrack(t, by)
    \/ DeletePlaylist

Spec == Init /\ [][Next]_vars
-----------------------------------------------------------------------------
(* Rows refer to rows that exist, and a path, an album artist and a        *)
(* playlist position belong to one row each.                               *)
TypeOK ==
    /\ \A r \in rows : r.path \in Paths /\ \E a \in albums : a.id = r.album
    /\ \A r, s \in rows : r.path = s.path \/ r.id = s.id => r = s
    /\ \A a, b \in albums : a.id = b.id \/ a.artist = b.artist => a = b
    /\ \A x \in plays : x.track \in {r.id : r \in rows} /\ x.album \in {a.id : a \in albums}
    /\ lyrics \cup DOMAIN entries \subseteq {r.id : r \in rows}
    /\ \A s, t \in DOMAIN entries : entries[s] = entries[t] => s = t
    /\ todo \subseteq Paths

(* A reference for the grouping of a tree that is scanned from nothing:    *)
(* files of one album artist, except that the albums nobody dominates and  *)
(* their fragments in the same folders are one compilation.                *)
GroupOf(name) == {p \in Present : AlbumArtist(disk[p]) = name}
Names == {AlbumArtist(disk[p]) : p \in Present}
Mixed(name) ==
    LET by(x) == Cardinality({p \in GroupOf(name) : disk[p].artist = x})
    IN /\ \A p \in GroupOf(name) : ~Marked(disk[p])
       /\ \A p \in GroupOf(name) : 2 * by(disk[p].artist) <= Cardinality(GroupOf(name))
Folders(names) == {DirOf[p] : p \in {q \in Present : AlbumArtist(disk[q]) \in names}}
Compiled ==
    LET mixed == {n \in Names : Mixed(n)}
    IN IF mixed = {} THEN {}
       ELSE mixed \cup {n \in Names : n = VA \/ Folders({n}) \cap Folders(mixed \cup {VA}) # {}}
TogetherInTree(p, q) ==
    LET m == AlbumArtist(disk[p])
        n == AlbumArtist(disk[q])
    IN m = n \/ {m, n} \subseteq Compiled

(* A scan that nobody disturbs leaves a row for every file and no other,   *)
(* with what the file says now; and a first scan groups the tree the same  *)
(* in whatever order the walk meets the files, never absorbing an album of *)
(* the same title that lies elsewhere.                                     *)
RowsAreFiles == {<<r.path, r.seen>> : r \in rows} = {<<p, disk[p]>> : p \in Present}
ScanReflectsTree ==
    stage = "done" /\ settled =>
        /\ RowsAreFiles
        /\ fresh => \A r, s \in rows : (r.album = s.album) <=> TogetherInTree(r.path, s.path)

(* The playlist entry of a file that moved follows it: if it was on the    *)
(* playlist at a path that is gone, and lies at one other path when the    *)
(* undisturbed scan ends, it is on the playlist; unless both rows had      *)
(* lyrics, or two of its rows have lost their file (it moved again after a *)
(* scan that was cut short), which relinkMovedTracks takes for ambiguous.  *)
Followed(f) ==
    Cardinality({p \in Present : disk[p] = f}) = 1 =>
        \E r \in rows : r.seen = f /\ r.id \in DOMAIN entries
EntryFollowsFile == stage = "done" /\ settled => \A f \in moved \ clashed : Followed(f)

(* "(playlist membership survives a move)" (docs/media-source-of-truth.md: *)
(* 146), whatever else is known of the two rows.                           *)
EntrySurvivesMove == stage = "done" /\ settled => \A f \in moved : Followed(f)

(* "The DB is authoritative only for derived/added state: ... and          *)
(* user-generated state (playback progress, play history, ...)"            *)
(* (docs/media-source-of-truth.md:19): what was played is known as long as *)
(* its file is there.                                                      *)
HistorySurvivesEdits == heard \subseteq {x.of : x \in plays}
=============================================================================
