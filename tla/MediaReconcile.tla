--------------------------- MODULE MediaReconcile ---------------------------
(***************************************************************************)
(* One scan of a tv, movie, photo, book or audiobook library against the   *)
(* disk: walk the files, reset the extras, carry the user's state of moved *)
(* files to their new rows (relink), delete the rows of missing files      *)
(* (prune).  Meanwhile files move, vanish or get unmounted, players report *)
(* progress, users mark and match, and the scan may be cut short.  The     *)
(* five scanners share their shape; what differs is named after the kind.  *)
(***************************************************************************)
EXTENDS Integers

CONSTANTS
    Path,       \* paths a media file of the library can have, in walking order
    ExtraPath,  \* those inside an extras directory
    ShowDir,    \* the show folders a scoped series scan can walk (sets of paths)
    Content,    \* media files, whatever their path
    FirstPath,  \* where each file is at first
    None,       \* no file, no row, no progress
    MaxMoves,   \* bound: changes of the disk
    MaxActs,    \* bound: beacons, marks and matches
    MaxScans    \* bound: scans started

ASSUME PathAssumption == /\ Path \subseteq Nat
                         /\ ExtraPath \subseteq Path
                         /\ ShowDir \subseteq SUBSET Path
                         /\ FirstPath \in [Content -> Path]
                         /\ \A c, d \in Content : FirstPath[c] = FirstPath[d] => c = d
ASSUME NoneAssumption ==
    LET progress == [pos : {0, 1}, done : BOOLEAN]
    IN  None \notin Content \cup progress
             \cup [sig : Content, extra : BOOLEAN, matched : BOOLEAN,
                   prog : progress \cup {None}]
ASSUME BoundsAssumption == MaxMoves \in Nat /\ MaxActs \in Nat /\ MaxScans \in Nat

Kinds == {"tv", "movie", "photo", "book", "audiobook"}

VARIABLES
    kind,      \* the type of the library
    sigOf,     \* (file_size_bytes, mtime_unix) of each file: kept by a plain mv
    disk,      \* the file at each path
    mounted,   \* the library root shows its files
    row,       \* the file, identity and progress rows of each path
    pc,        \* phase of the scan
    scope,     \* the paths under the root it walks
    todo,      \* paths or rows the phase has still to look at
    saw,       \* processed > 0
    orphans, survivors,  \* the rows of relinkMovedFiles
    stale,     \* the rows of pruneMissingFiles
    moves, acts, scans,
    owner,     \* history: the file each row was last scanned from
    said,      \* history: the progress the user last reported for each file
    known,     \* history: files the user or the matcher matched
    gap,       \* history: files whose state the design may lose
    quiet,     \* history: the disk has not changed since the scan started
    synced,    \* history: nor since a quiet full scan ended
    dark       \* history: the root has been unmounted since the scan started

diskVars == <<disk, mounted, moves>>
scanner == <<pc, scope, todo, saw, orphans, survivors, stale, scans>>
history == <<owner, said, known, gap, quiet, synced, dark>>
fixed == <<kind, sigOf>>
vars == <<fixed, diskVars, row, scanner, acts, history>>

HasExtras == kind \in {"tv", "movie"}
HasMatch == kind \in {"tv", "movie"}

Phases == {"idle", "walk", "stat", "transfer", "check", "delete"}
Progress == [pos : {0, 1}, done : BOOLEAN] \cup {None}
Sig == {sigOf[c] : c \in Content}
Row == [sig : Sig, extra : BOOLEAN, matched : BOOLEAN, prog : Progress]

Rows == {p \in Path : row[p] # None}
OnDisk(p) == mounted /\ disk[p] # None
RowsOf(c) == {p \in Rows : owner[p] = c}
Twins(c) == {d \in Content \ {c} : sigOf[d] = sigOf[c]}
Done(g) == g # None /\ g.done

(* What the upsert makes of the file at p: a row that exists keeps its     *)
(* identity and progress, also when its file was replaced.                 *)
Upserted(p, old, extra) ==
    [sig |-> sigOf[disk[p]],
     extra |-> extra,
     matched |-> old # None /\ old.matched,
     prog |-> IF old = None THEN None ELSE old.prog]

Unchanged(p, old) == old # None /\ old.sig = sigOf[disk[p]]

(* A tv or movie file that is unchanged has its extras flag refreshed. *)
RefreshExtra(old, extra) == [old EXCEPT !.extra = extra]

IngestTVFile(p, old) ==
    IF Unchanged(p, old) THEN RefreshExtra(old, p \in ExtraPath)
                         ELSE Upserted(p, old, p \in ExtraPath)

UpsertMovieFile(p, old) == Upserted(p, old, p \in ExtraPath)

IngestMovieFile(p, old) ==
    IF Unchanged(p, old) THEN RefreshExtra(old, p \in ExtraPath) ELSE UpsertMovieFile(p, old)

(* The others leave an unchanged file alone and know no extras. *)
UpsertPhoto(p, old) == Upserted(p, old, FALSE)

IngestPhoto(p, old) == IF Unchanged(p, old) THEN old ELSE UpsertPhoto(p, old)

ScanBookFile(p, old) == IF Unchanged(p, old) THEN old ELSE Upserted(p, old, FALSE)

ScanAudiobookFile(p, old) == IF Unchanged(p, old) THEN old ELSE Upserted(p, old, FALSE)

(* Mutated form: a row that exists is left as it is. *)
ScannedOnce(p, old) ==
    IF old # None THEN old ELSE Upserted(p, old, HasExtras /\ p \in ExtraPath)

Scanned(p, old) ==
    CASE kind = "tv" -> IngestTVFile(p, old)
      [] kind = "movie" -> IngestMovieFile(p, old)
      [] kind = "photo" -> IngestPhoto(p, old)
      [] kind = "book" -> ScanBookFile(p, old)
      [] kind = "audiobook" -> ScanAudiobookFile(p, old)

(* A library just scanned, nothing watched or matched yet. *)
Init ==
    /\ kind \in Kinds
    /\ sigOf \in {[c \in Content |-> c], [c \in Content |-> CHOOSE d \in Content : TRUE]}
    /\ disk = [p \in Path |-> IF \E c \in Content : FirstPath[c] = p
                              THEN CHOOSE c \in Content : FirstPath[c] = p ELSE None]
    /\ mounted = TRUE
    /\ owner = disk
    /\ row = [p \in Path |-> IF disk[p] = None THEN None ELSE Scanned(p, None)]
    /\ pc = "idle" /\ scope = {} /\ todo = {} /\ saw = FALSE
    /\ orphans = {} /\ survivors = {} /\ stale = {}
    /\ moves = 0 /\ acts = 0 /\ scans = 0
    /\ said = [c \in Content |-> None]
    /\ known = {} /\ gap = {}
    /\ quiet = FALSE /\ synced = TRUE /\ dark = FALSE

-----------------------------------------------------------------------------
(* The walk, in the order of the paths.  A scan of a tv library may be     *)
(* scoped to a show's folder.                                              *)
StartScan(s) ==
    /\ pc = "idle" /\ scans < MaxScans
    /\ s = Path \/ (kind = "tv" /\ s \in ShowDir)
    /\ pc' = "walk" /\ scope' = s /\ todo' = s /\ saw' = FALSE
    /\ orphans' = {} /\ survivors' = {} /\ stale' = {}
    /\ scans' = scans + 1
    /\ quiet' = TRUE
    /\ dark' = ~mounted
    \* a file out of the scope of its row, and one with two rows behind it
    /\ LET away(c) == {p \in RowsOf(c) : disk[p] # c}
           left == {c \in Content : away(c) \cap s # {} /\ \A p \in s : disk[p] # c}
       IN  gap' = gap \cup {c \in Content : \E p, q \in away(c) : p # q}
                      \cup left \cup UNION {Twins(c) : c \in left}
    /\ UNCHANGED <<fixed, diskVars, row, acts, owner, said, known, synced>>

Visit(p) ==
    /\ pc = "walk" /\ p \in todo
    /\ \A q \in todo : p <= q
    /\ todo' = todo \ {p}
    /\ \/ /\ OnDisk(p)
          /\ row' = [row EXCEPT ![p] = Scanned(p, row[p])]
          /\ owner' = [owner EXCEPT ![p] = disk[p]]
          /\ saw' = TRUE
       \/ ~OnDisk(p) /\ UNCHANGED <<row, owner, saw>>
    /\ UNCHANGED <<fixed, diskVars, pc, scope, orphans, survivors, stale, scans, acts,
                   said, known, gap, quiet, synced, dark>>

(* Nothing found while the library has rows: the destructive tail is off. *)
EndWalkEmpty ==
    /\ pc = "walk" /\ todo = {}
    /\ ~saw /\ Rows # {}
    /\ pc' = "idle"
    /\ UNCHANGED <<fixed, diskVars, row, scope, todo, saw, orphans, survivors, stale,
                   scans, acts, history>>

(* The extras lose their match, in the whole library. *)
ResetExtras ==
    [p \in Path |-> IF row[p] # None /\ row[p].extra
                    THEN [row[p] EXCEPT !.matched = FALSE] ELSE row[p]]

(* Mutated form: no look at what the walk found. *)
EndWalkTrusting ==
    /\ pc = "walk" /\ todo = {}
    /\ pc' = "stat" /\ todo' = Rows \cap scope
    /\ row' = IF HasExtras THEN ResetExtras ELSE row
    /\ UNCHANGED <<fixed, diskVars, scope, saw, orphans, survivors, stale, scans, acts,
                   history>>

(* Otherwise the extras are reset and the rows under the root are listed. *)
EndWalk ==
    /\ pc = "walk" /\ todo = {}
    /\ saw \/ Rows = {}
    /\ pc' = "stat" /\ todo' = Rows \cap scope
    /\ row' = IF HasExtras THEN ResetExtras ELSE row
    /\ UNCHANGED <<fixed, diskVars, scope, saw, orphans, survivors, stale, scans, acts,
                   history>>

-----------------------------------------------------------------------------
(* relinkMovedFiles: one stat per row, then one transfer per pair.         *)
RelinkStat(p) ==
    /\ pc = "stat" /\ p \in todo
    /\ todo' = todo \ {p}
    /\ IF OnDisk(p) THEN survivors' = survivors \cup {p} /\ UNCHANGED orphans
                    ELSE orphans' = orphans \cup {p} /\ UNCHANGED survivors
    /\ UNCHANGED <<fixed, diskVars, row, pc, scope, saw, stale, scans, acts, history>>

SameSig(S, o) == {p \in S : row[p].sig = row[o].sig}

(* Mutated form: takes any survivor with the signature. *)
PairedAny(o, p) == p \in SameSig(survivors, o)

(* Exactly one orphan and one survivor have the signature. *)
Paired(o, p) == SameSig(survivors, o) = {p} /\ SameSig(orphans, o) = {o}

EndStat ==
    /\ pc = "stat" /\ todo = {}
    /\ pc' = "transfer"
    /\ todo' = {o \in orphans : \E p \in survivors : Paired(o, p)}
    /\ UNCHANGED <<fixed, diskVars, row, scope, saw, orphans, survivors, stale, scans,
                   acts, history>>

(* tv, movie and photo: the orphan's progress replaces the survivor's.     *)
Overwritten(from, to) == IF from = None THEN to ELSE from

(* Mutated form: the last writer decides here too. *)
MergedLast(from, to) == IF from = None THEN to ELSE from

(* book and audiobook: likewise, but completed is never taken back.        *)
Merged(from, to) ==
    IF from = None THEN to ELSE [from EXCEPT !.done = from.done \/ Done(to)]

(* transferFileState: the match if there is one, and the progress.  A clip *)
(* has only the latter, as has a book, whose transfer is in the relink.    *)
TransferTVState(from, to) ==
    [to EXCEPT !.matched = @ \/ from.matched, !.prog = Overwritten(from.prog, @)]

TransferMovieState(from, to) ==
    [to EXCEPT !.matched = @ \/ from.matched, !.prog = Overwritten(from.prog, @)]

TransferPhotoState(from, to) == [to EXCEPT !.prog = Overwritten(from.prog, @)]

RelinkBook(from, to) == [to EXCEPT !.prog = Merged(from.prog, @)]

RelinkAudiobook(from, to) == [to EXCEPT !.prog = Merged(from.prog, @)]

(* Mutated form: an orphan's match stays behind. *)
CarriedProgressOnly(from, to) ==
    IF kind \in {"book", "audiobook"} THEN RelinkBook(from, to)
                                      ELSE TransferPhotoState(from, to)

Carried(from, to) ==
    CASE kind = "tv" -> TransferTVState(from, to)
      [] kind = "movie" -> TransferMovieState(from, to)
      [] kind = "photo" -> TransferPhotoState(from, to)
      [] kind = "book" -> RelinkBook(from, to)
      [] kind = "audiobook" -> RelinkAudiobook(from, to)

Transfer(o) ==
    /\ pc = "transfer" /\ o \in todo
    /\ todo' = todo \ {o}
    /\ \E p \in survivors :
         /\ Paired(o, p)
         /\ row' = [row EXCEPT ![p] = Carried(row[o], row[p])]
    /\ UNCHANGED <<fixed, diskVars, pc, scope, saw, orphans, survivors, stale, scans,
                   acts, history>>

EndTransfer ==
    /\ pc = "transfer" /\ todo = {}
    /\ pc' = "check" /\ todo' = Rows \cap scope
    /\ UNCHANGED <<fixed, diskVars, row, scope, saw, orphans, survivors, stale, scans,
                   acts, history>>

-----------------------------------------------------------------------------
(* pruneMissingFiles: one stat per row, then the DELETEs.                  *)
PruneStat(p) ==
    /\ pc = "check" /\ p \in todo
    /\ todo' = todo \ {p}
    /\ stale' = IF OnDisk(p) THEN stale ELSE stale \cup {p}
    /\ UNCHANGED <<fixed, diskVars, row, pc, scope, saw, orphans, survivors, scans, acts,
                   history>>

EndCheck ==
    /\ pc = "check" /\ todo = {}
    /\ pc' = "delete"
    /\ UNCHANGED <<fixed, diskVars, row, scope, todo, saw, orphans, survivors, stale,
                   scans, acts, history>>

(* The identity and the progress of a row go with it. *)
DeleteRows(gone) ==
    /\ pc = "delete" /\ stale # {}
    /\ row' = [p \in Path |-> IF p \in gone THEN None ELSE row[p]]
    /\ stale' = stale \ gone
    /\ UNCHANGED <<fixed, diskVars, pc, scope, todo, saw, orphans, survivors, scans, acts,
                   history>>

(* One transaction for all of them ... *)
PruneTVFiles == kind = "tv" /\ DeleteRows(stale)
PruneMovieFiles == kind = "movie" /\ DeleteRows(stale)
PrunePhotos == kind = "photo" /\ DeleteRows(stale)

(* ... or one DELETE after the other. *)
PruneBook(p) == kind = "book" /\ p \in stale /\ DeleteRows({p})
PruneAudiobook(p) == kind = "audiobook" /\ p \in stale /\ DeleteRows({p})

EndScan ==
    /\ pc = "delete" /\ stale = {}
    /\ pc' = "idle"
    /\ synced' = (synced \/ (quiet /\ scope = Path))
    /\ UNCHANGED <<fixed, diskVars, row, scope, todo, saw, orphans, survivors, stale,
                   scans, acts, owner, said, known, gap, quiet, dark>>

(* A cancel, an error of the walk, a panic, a crash of the process. *)
Abort ==
    /\ pc # "idle"
    /\ pc' = "idle"
    /\ UNCHANGED <<fixed, diskVars, row, scope, todo, saw, orphans, survivors, stale,
                   scans, acts, history>>

-----------------------------------------------------------------------------
(* The users.  A player reports to the row it was opened with.             *)
Reported(old, done) == [pos |-> 1, done |-> done \/ Done(old)]

\* Two rows of one file are one too many to write to.
Writes(p) ==
    /\ acts < MaxActs /\ p \in Rows
    /\ acts' = acts + 1
    /\ gap' = IF RowsOf(owner[p]) = {p} THEN gap ELSE gap \cup {owner[p]}
    /\ UNCHANGED <<fixed, diskVars, scanner, owner, quiet, synced, dark>>

Reports(p, done) ==
    /\ Writes(p)
    /\ row' = [row EXCEPT ![p].prog = Reported(@, done)]
    /\ said' = [said EXCEPT ![owner[p]] = Reported(@, done)]
    /\ UNCHANGED known

TVPlaybackProgress(p, done) == kind = "tv" /\ Reports(p, done)
MoviePlaybackProgress(p, done) == kind = "movie" /\ Reports(p, done)
PhotoPlaybackProgress(p, done) == kind = "photo" /\ Reports(p, done)
BookReadingProgress(p, done) == kind = "book" /\ Reports(p, done)
AudiobookPlaybackProgress(p, done) == kind = "audiobook" /\ Reports(p, done)

(* Both ways zero the position. *)
MarkWatched(p, done) ==
    /\ Writes(p)
    /\ row[p].matched
    /\ row' = [row EXCEPT ![p].prog = [pos |-> 0, done |-> done]]
    /\ said' = [said EXCEPT ![owner[p]] = [pos |-> 0, done |-> done]]
    /\ UNCHANGED known

TVMarkWatched(p, done) == kind = "tv" /\ MarkWatched(p, done)
MovieMarkWatched(p, done) == kind = "movie" /\ MarkWatched(p, done)

Match(p) ==
    /\ Writes(p)
    /\ HasMatch /\ ~row[p].extra /\ ~row[p].matched
    /\ row' = [row EXCEPT ![p].matched = TRUE]
    /\ known' = known \cup ({owner[p]} \ {disk[q] : q \in ExtraPath})
    /\ UNCHANGED said

-----------------------------------------------------------------------------
(* The disk. *)
Scanning == pc # "idle"

Changes(lost) ==
    /\ moves < MaxMoves
    /\ moves' = moves + 1
    /\ quiet' = FALSE /\ synced' = FALSE
    /\ gap' = gap \cup lost
    /\ UNCHANGED <<fixed, row, scanner, acts, owner, said>>

\* Moved during a scan, moved as one of two look-alikes, or to another's row.
Move(p, q) ==
    /\ mounted /\ disk[p] # None /\ disk[q] = None
    /\ disk' = [disk EXCEPT ![p] = None, ![q] = disk[p]]
    /\ Changes((IF Scanning \/ Twins(disk[p]) # {} THEN {disk[p]} ELSE {})
               \cup (IF Scanning THEN Twins(disk[p]) ELSE {})
               \cup (IF row[q] # None /\ owner[q] # disk[p] THEN {disk[p], owner[q]} ELSE {}))
    /\ known' = IF q \in ExtraPath THEN known \ {disk[p]} ELSE known
    /\ UNCHANGED <<mounted, dark>>

\* The look-alike that stays inherits the state of the one that goes.
Delete(p) ==
    /\ mounted /\ disk[p] # None
    /\ disk' = [disk EXCEPT ![p] = None]
    /\ Changes(Twins(disk[p]))
    /\ UNCHANGED <<mounted, known, dark>>

Remount ==
    /\ mounted' = ~mounted
    /\ Changes(IF Scanning THEN Content ELSE {})
    /\ dark' = FALSE
    /\ UNCHANGED <<disk, known>>

ScannerStep ==
    \/ \E p \in Path : Visit(p) \/ RelinkStat(p) \/ Transfer(p) \/ PruneStat(p)
    \/ EndWalkEmpty \/ EndWalk \/ EndStat \/ EndTransfer
    \/ EndCheck \/ EndScan
    \/ PruneTVFiles \/ PruneMovieFiles \/ PrunePhotos
    \/ \E p \in Path : PruneBook(p) \/ PruneAudiobook(p)

Next ==
    \/ \E s \in {Path} \cup ShowDir : StartScan(s)
    \/ ScannerStep
    \/ Abort
    \/ \E p \in Path, done \in BOOLEAN :
         \/ TVPlaybackProgress(p, done) \/ MoviePlaybackProgress(p, done)
         \/ PhotoPlaybackProgress(p, done)
         \/ BookReadingProgress(p, done) \/ AudiobookPlaybackProgress(p, done)
         \/ TVMarkWatched(p, done) \/ MovieMarkWatched(p, done)
    \/ \E p \in Path : Match(p) \/ Delete(p)
    \/ \E p, q \in Path : Move(p, q)
    \/ Remount

Spec == Init /\ [][Next]_vars

-----------------------------------------------------------------------------
TypeOK ==
    /\ kind \in Kinds /\ sigOf \in [Content -> Content]
    /\ disk \in [Path -> Content \cup {None}] /\ mounted \in BOOLEAN
    /\ row \in [Path -> Row \cup {None}]
    /\ \A p \in Rows : /\ row[p].extra => HasExtras
                       /\ row[p].matched => HasMatch
    /\ pc \in Phases /\ scope \subseteq Path /\ todo \subseteq scope /\ saw \in BOOLEAN
    /\ orphans \subseteq scope /\ survivors \subseteq scope /\ stale \subseteq scope
    /\ moves \in 0..MaxMoves /\ acts \in 0..MaxActs /\ scans \in 0..MaxScans
    /\ owner \in [Path -> Content \cup {None}] /\ said \in [Content -> Progress]
    /\ known \subseteq Content /\ gap \subseteq Content
    /\ quiet \in BOOLEAN /\ synced \in BOOLEAN /\ dark \in BOOLEAN

(* A full scan of a disk that holds still leaves exactly one row per file, *)
(* with its present signature and extras flag, whatever aborted or scoped  *)
(* scans came before.                                                      *)
ScanConverges ==
    synced => /\ Rows = {p \in Path : OnDisk(p)}
              /\ \A p \in Rows : /\ row[p].sig = sigOf[disk[p]]
                                 /\ row[p].extra = (HasExtras /\ p \in ExtraPath)

(* After such a scan the progress the user last reported for a file is on  *)
(* the row of the path where the file now is: relink carries it over moves *)
(* and renames, over aborted and repeated scans, next to running players.  *)
UserStateFollowsFile ==
    synced => \A p \in Path : OnDisk(p) /\ disk[p] \notin gap =>
                                 row[p] # None /\ row[p].prog = said[disk[p]]

(* So is its match, as long as it did not become an extra. *)
MatchFollowsFile ==
    synced => \A p \in Path :
                OnDisk(p) /\ p \notin ExtraPath /\ disk[p] \in known \ gap =>
                    row[p] # None /\ row[p].matched

(* The extras of a scanned library are in no episode list, count or        *)
(* Continue Watching: none is matched.                                     *)
ExtrasStayUnmatched == synced => \A p \in Rows : row[p].extra => ~row[p].matched

(* A scan of a root that stays unmounted deletes nothing. *)
UnmountLosesNothing ==
    [][dark => \A p \in Path : row[p] # None => row'[p] # None]_vars

EarnedLost(p) == row[p] # None /\ row'[p] # None /\ Done(row[p].prog) /\ ~Done(row'[p].prog)

(* Relinking a book or an audiobook never takes a completed mark back.     *)
EarnedStaysInBooks ==
    [][\A p \in Path : EarnedLost(p) => kind \notin {"book", "audiobook"}]_vars

(* "completed" is earn-only for every kind: the progress stream can set it *)
(* and only markWatched clears it.                                         *)
EarnedStaysEarned ==
    [][\A p \in Path : EarnedLost(p) => MarkWatched(p, FALSE)]_vars
=============================================================================
