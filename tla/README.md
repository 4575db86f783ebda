# Hespera in TLA+

Hespera is a self-hosted media server: one Go process (`cmd/hespera`) serves a
web application over one SQLite database, indexes libraries of music, tv,
movies, photos, books and audiobooks from disk, transcodes on demand with
ffmpeg, and keeps what its user watched, read and heard. A second binary
(`cmd/hesplay`) is a headless player with a remote control and a schedule.

This directory models the parts whose correctness depends on the order in which
things happen, checks the models with TLC and proves invariants of the core with
TLAPS. Everything is translated from the source; `PROJECT.json` maps each
definition to the lines it stands for.

## 1. The system

### Components and their state

| component | source | state it keeps | operations |
|---|---|---|---|
| job service | `internal/jobs/jobs.go` | table `scan_jobs`, the channel `queue` (128), the map `cancels`, `enqueueMu`, `interruptedLibs` | New (reconcile, prune), Enqueue, EnqueueUnique, RequestCancel, ShouldYield, worker/runJob, Shutdown |
| cosmetic sweeps | `*/thumbs.go`, `scan/loudness.go`, trickplay | rows without a thumbnail or a loudness | handle an item, poll ShouldYield, yield, resume |
| filesystem watcher | `internal/watch/watch.go` | inotify watch set, `roots`, `timers`, events of fsnotify | New, loop, rootSync, bump, fire |
| scan chain and boot resume | `web/handlers_settings.go` | `app_settings`, `libraries` | EnqueueLibraryScan, the executors of scan jobs, resumeInterruptedJobs |
| scanners | `tvscan`, `moviescan`, `photoscan`, `bookscan`, `audiobookscan`, `scan` | file rows, identities, progress | walk and upsert, extras reset, relink of moved files, prune |
| progress and watched handlers | `web/handlers_stream_*.go`, `handlers_tv.go`, `handlers_movies.go`, `handlers_books.go`, `handlers_audiobooks.go` | `*_progress` rows | progress beacon, mark watched, match |
| HLS segments | `video/ffmpeg.go`, `web/handlers_stream_tv.go` | cache directories, `segBuilds`, two semaphores | EnsureSegment, build, PruneCache |
| match pipeline, tmdb matcher | `internal/match`, `internal/tmdb` | match status of tracks, episodes, movies | match, re-check, skip, manual choice |
| integrity | `internal/integrity` | integrity columns, the files themselves | check, repair |
| metadata fetch | `web/handlers_person.go` | `metaFetch` map | begin once, fetch, finish |
| display | `internal/display`, `web/handlers_display.go` | the mode, the pending change and its timer | set, confirm, revert |
| instances | `cmd/hespera`, `internal/singleton` | flock, socket, `app.url` | attach, replace, serve, quit |
| player and remote | `cmd/hesplay` | the one audio slot, sessions, the latch of the schedule, pipes and processes of noise | play, jump, next, pause, stop, noise, schedule, stall guard |
| browse index | `cmd/hesplay/browse.go` | one cached list of artists, whose server it is, the refresh flag | ensure, build |
| music pages | `web/handlers_music*.go` | playlists, play history, lyrics, tags in the files | queue, mix, edit, rescan, unmatch, reassign, merge |
| Continue Watching | `web/handlers_tv.go`, `handlers_movie.go` | none: it reads the progress rows | the card of a show, of a film, up-next |
| podcasts | `internal/podcast`, `web/handlers_podcasts.go` | feeds, episodes, progress | subscribe, refresh, unsubscribe |
| artwork gc | `internal/thumbgc` | artwork files | sweep |
| playback decision | `internal/playback`, `web/handlers_stream_*.go`, `handlers_audiobooks.go` | none between requests: the stored probe and the URL | session, Decide, stream |
| the rest | router, middleware, csrf, rate limit, path guard, subtitles, update check, browser window, hescli, page handlers, JavaScript players | | see `components` in `PROJECT.json` |

### How they interact

* A **scan** starts from a button, from the watcher's `fire`, from a new
  library, or from the boot resume; each one calls `jobs.Enqueue`. The single
  worker runs its executor, and when that succeeds it chains the follow-ups
  (match, thumbnails, loudness, trickplay) with `EnqueueUnique`, each a row of
  its own.
* **Sweeps** ask `ShouldYield` between two items and give way to queued work
  that is not cosmetic; the worker puts the yielded row back in line.
* At **boot**, `jobs.New` cancels what the last process left queued or running
  and remembers the libraries, `watch.New` compares directory times with the
  end of the last completed scan (read from the job table), and
  `resumeInterruptedJobs` enqueues scans for the remembered libraries. The
  three share the table, and what one deletes the other no longer sees.
* The **watcher** looks at the same table before it fires: a library with an
  active scan-type job is skipped.
* **Scanners** write the rows that players and users write at the same time:
  relink copies progress and matches from the row of a moved file to its new
  row, prune deletes rows, and beacons land in between.
* A **match job** asks providers about rows it listed, waits, and stores what
  it found, while people decide about the same rows on the review pages; it
  ends by sweeping the pictures that no row names. Pages that find metadata
  missing enqueue fetches, one per title, behind a key held in memory.
* An **integrity job** replaces a file in place; the scan after it decides by
  size, time and checksum whether that is still the file of the row.
* A **playback session** judges a track and publishes a URL; the stream is a
  later request that derives the plan again from the stored probe, so the two
  have to agree without sharing anything.
* **hesplay** resolves a verb and a name against the server's search and lets
  the server build the queue; its slot is replaced by requests of the remote and
  by the schedule alike.
* **Launches** of the server find one another through `app.url`, a socket, a
  lock on the data directory and a list of processes.
* **Players** fetch HLS segments; concurrent requests share a build, builds
  share two semaphores with every other ffmpeg of the process, and the pruner
  removes directories under all of them.

### What is hard

Interleavings of single SQL statements (a job row's status and its cancel
flag; the flag and the in-memory cancel function), bounded queues and
semaphores, a process that stops anywhere, timers that fire while they are
re-armed, walks that have passed a directory when it changes, rows paired by
file signature while files move and players report, answers that arrive after
somebody decided otherwise, loops that end after their successor began, timers
that undo what has been kept, and rules that are written twice (in SQL and Go,
in two programs, in a decision and in the stream that carries it out).
`PROJECT.json` lists these
hazards with their lines and the property that covers each.

### What correct means

* *job service*: no row hangs; a cancel reaches whatever runs and sticks; an
  accepted job runs; duplicates stay bounded; every job ends although sweeps
  yield; rows only move along their life cycle, restarts included.
* *watcher*: a change of a watched library reaches the index, except where the
  code deliberately lets it go.
* *scanners*: after a full scan of a quiet disk the rows are the files; the
  user's state follows a file however it moves; an unmounted root loses
  nothing; extras stay unmatched.
* *segments*: a served segment is whole; one build per segment; slots do not
  leak; every waiting request is answered.
* *hesplay*: one engine; a stop lasts to the end of its window; the remote tells
  what plays; noise leaves no process behind and loops without a seam; a verb
  plays what it says.
* *music and matching*: a scan gives a row to every file and the same grouping
  in any order of files; a playlist entry follows its file; what a person
  decided, and the pictures rows name, outlive every job.
* *the rest*: a display mode nobody kept is undone; one instance per data
  directory, which later launches find; a verdict is about the file that is
  there; what was heard stays ticked; the stream is what was decided; a card
  plays.

## 2. The modules

| module | models | uses |
|---|---|---|
| `JobLifecycle` | what the job service promises about a row (abstract) | |
| `JobService` | `internal/jobs` statement by statement, with its callers, cancellers and restarts | `JobLifecycle` by INSTANCE |
| `JobServiceProofs` | theorems about `JobService` | `JobService`, TLAPS |
| `LibraryWatch` | watcher, debounce timers, scan jobs of one library, boot reconcile and resume | |
| `LibraryWatchProofs` | theorem about `LibraryWatch` | `LibraryWatch`, TLAPS |
| `MediaReconcile` | one scan at a time of a library of any of five kinds, the disk, players and users | |
| `MediaReconcileProofs` | theorems about the rows of a library | `MediaReconcile`, TLAPS |
| `UserStateProofs` | theorems about the users' progress and matches | `MediaReconcileProofs` |
| `SegmentCache` | HLS segment builds, semaphores, clients, pruner | |
| `SegmentCacheProofs` | theorems about `SegmentCache` | `SegmentCache`, TLAPS |
| `NoiseSchedule` | windows, latch and decision of the noise schedule, as operators | |
| `PlayerSession` | hesplay's slot, sessions, engines, requests and reconciler | `NoiseSchedule` |
| `PlayerSessionProofs` | theorems about `PlayerSession` and `NoiseSchedule` | `PlayerSession`, TLAPS |
| `Orders` | the elements of a finite set of numbers in order | |
| `NoisePipeline` | pipes and processes of one noise session | |
| `NoiseChain` | preset to effect chain: buffer, swells, repeats | |
| `BrowseIndex` | the cached artist index and its rebuild | |
| `MusicQueue` | verb and name to query, query to queue, mixes | `Orders` |
| `MusicLibrary` | music scan, compilations, tag edits, merges, plays, playlist | `Orders` |
| `MusicMatch` | match job of albums and artists, covers, people's choices | |
| `VideoMatch` | match job of shows and films, metadata fetches, review pages | |
| `DisplayRevert` | provisional display modes | |
| `InstanceLaunch` | several processes over one data directory | |
| `IntegrityRepair` | check, repair and scan of one file | |
| `Podcasts` | subscriptions, refreshes, progress | |
| `PlaybackSession` | session, decision and stream of a title or audiobook | |
| `ContinueWatching` | cards and up-next from the progress rows | |
| `Services` | the thirteen components from `NoisePipeline` to `ContinueWatching` as one specification with their properties | these by INSTANCE |
| `ServicesProofs` | theorems about `InstanceLaunch`, `BrowseIndex`, `DisplayRevert`, `NoisePipeline`, `ContinueWatching`, `PlaybackSession`, `MusicQueue` and `NoiseChain` | `Services`, the library's theorems, TLAPS |
| `CatalogProofs` | theorems about `IntegrityRepair`, `Podcasts`, `MusicMatch`, `VideoMatch` and `MusicLibrary`, and the types of all of `Services` | `ServicesProofs` |
| `MCServices` | an instance of `Services`, and the music library a second time with another tree | `Services`, `MusicLibrary` by INSTANCE |
| the other `MC...` modules | the instances TLC checks | |

Operators named "Mutated form" are plausible mistakes in the definition that
follows them. No specification uses them; they are there to show that the
properties notice (section 5).

### JobService

`row` is the `scan_jobs` table (status `absent` before the insert and after the
prune), `queue` the channel, `cancels` the domain of the map of cancel
functions, `ctxDone` the context of the run in progress, `mutex` the holder of
`enqueueMu`. A step is one SQL statement, one channel operation or one critical
section, so `wpc` is a place in `runJob`, `epc[c]` one in `enqueue` and
`cpc[k]` one in `RequestCancel`:

    idle -Pop-> popped -CheckPopped-> mark -MarkRunning-> register
      -RegisterCancel-> recheck -RecheckCancel-> exec -...-> returned
      -Settle-> finish | requeue -...-> repush -> unregister -> idle

The executor is `ExecOk`/`ExecFail` for an ordinary job and
`SweepItem`/`SweepYield`/`SweepEnd` for a sweep: it fails, panics or returns
the context's error at any point, and a scan may leave the sweeps of its
library new items. A sweep lists its pending items once, when it starts (`rest`),
and looks at one before it first polls; an item it has looked at is done with, or
stays pending (`left`) for another run, as it does when the file is gone, ffmpeg's
gate is busy or a measure fails, in every run for ever if need be. `SweepEnd` is
the end of the list, or the size cap of the sprites. `Boot` is `New`: nothing
else of the process runs before it returns, so its two statements are one step,
and the age cutoff of the prune is any set of finished rows. `Shutdown` cancels
the registered contexts and leaves the worker going; `Crash` is the end of the
process, by exit or kill, and keeps only the table. `fresh`, `joined` and
`timely` are history variables: rows that were accepted, joined, or cancelled
in time.

A failing SQL statement is not modelled: the code logs it, and the next start
reconciles the row.

### LibraryWatch

One library. `disk[d]` counts the files added to a directory and `index[d]`
what the last visit of a walk saw of it, so a directory is stale when they
differ. Timers are `time.AfterFunc`: `entry` is the map entry, `armed` counts
armed timers, `fired` the goroutines that have started and not yet dropped the
entry, `firing` those that have. `Reset` on a timer whose goroutine is already
under way arms it again, so both counts can exceed one. A walk lists the
children of the root when it visits it (`todo`); `series` are the scan jobs of
one show's folder, which count as scan-type jobs as well. `excused` is history:
the changes the code lets go knowingly (the watcher switched off, a scan that
failed or was cancelled, a resume switched off or a root not mounted, a boot
that finds no newer directory, a fire skipped for a scan that has passed the
directory). Removing or re-pointing a library, an overflow of the inotify queue
and in-place edits of a file are outside.

### MediaReconcile

`row[p]` is a file row with its identity and progress, `sigOf` the pair (size,
mtime) of a file, which a plain `mv` keeps; two files may share one. The scan
goes walk, (extras reset), stat, transfer, check, delete, one file or row per
step, and files move, are replaced, vanish or get unmounted at any of them. The
five scanners have this shape in common; `Scanned`, `Carried` and the `Prune`
actions dispatch to what differs: photos, books and audiobooks have no extras,
books and audiobooks merge progress instead of overwriting it and delete row by
row. `Abort` is a cancel, an error, a panic or a crash. The history variable
`owner` remembers which file a row was scanned from, `said` what the user last
reported for a file, and `gap` the files whose state the design may lose: a
file whose two rows were both written to, one that moved while a scan looked
for it, one with a twin of the same signature, one moved out of the scope of
its row. `UserStateFollowsFile` and `MatchFollowsFile` speak of all others.
A watched mark falls on a matched row, which is what the season and film pages list;
the handler itself takes any file id (`handlers_tv.go:816`).

### SegmentCache

`final` and `temp` are the files of a segment, `segBuilds` the map of builds in
progress, `segBusy` and `gateBusy` the two semaphores, `others` the other
ffmpeg processes that share the gate. A build takes the segment cap, then the
gate, makes the directory, runs ffmpeg into the temp file, renames, closes its
channel (`ready`), gives the slots back and leaves the map; the panic path
gives them back before it closes the channel. A client waits on the channel of
the build it started or joined, or gives up. The pruner measures directories
and later removes by what it measured. File ages are `fresh`, `idle` (older
than the grace window) and `old` (older than the maximum age).

`Crash` assumes that the ffmpeg children end with the server: nothing in the
code ensures this (`video/ffmpeg.go:590` starts ffmpeg without a parent-death
signal), so a kill of the server alone may leave one that goes on writing the
temp file of a later build. `WholeSegmentsOnly` does not speak of that case.

### PlayerSession, NoiseSchedule

`slot` is the controller's `cancel`/`done`, `actions`, `kind` and
`noiseScheduled`; `gen` its generation; `shown` and `tracks` what it publishes;
`seam` the pause function of noise; `ses[s]` a session with its loop, the action
in its channel and its engine process. `stop()` is two steps, `Take` (out of the
slot, cancelled) and `Wait` (for the loop); `start()` and `startNoise()` go on to
`Install`. `apc[a]` is where each request or the reconciler is in that; the loop of
a session goes

    begin -> top -> start -> await -> (top ...) -> unlist -> unshow -> retire -> close

with `EngineEnds`, `Stalls`, `TrackOver`, `ActionTaken` and `Killed` at `await`.
`handlePause` decides what to do while it has the lock and does it without: for a queue it
sets the flag, then asks the engine (`PauseFlag`, `PauseAnswered`); noise it signals first
and sets the flag afterwards (`PauseSignal`, `PauseStored`), and between any two of these
steps the session may be replaced. `NoiseSchedule` has `contains`,
`endsAt`, `activeWindow` and `decideNoise` over minutes of a day whose length is a
constant, and `ScheduledUntil`, the end of the occurrence that began on one of the
days around, as the reference (`ScheduleFollowsOccurrences` compares the two). Every day has
that length: where the clocks change `endsAt` (`schedule.go:170`) adds minutes to midnight and
may be an hour off, which is not modelled. `overlapped` records that two actors replaced the
session at once, `raced` that a pause met a change of engine or another pause since the
track or session that is shown began (the next track and the next session reset it, unless
a pause is still under way), `hush` until when the noise a person stopped was scheduled.
Stall detection is a step that may happen whenever the flag is down; mpv's protocol is not modelled.

### NoisePipeline, NoiseChain

`NoisePipeline` runs the script of a preset (pipe, generator, shaper, owner of the
device, for the body and the floor) step by step; each may fail, each process may
quit or be killed, the session may be cancelled or frozen by a pause at any time.
`NoiseChain` is `normalize`, the buffer length and the effects of a chain, in half
seconds, against a reference that measures the loop in the finished chain.

### BrowseIndex, MusicQueue

`BrowseIndex` has one action per critical section of `ensure` and `build`, in the
request or behind it, and `Repoint` for `handleServer`; `moved` records that the
server changed under way. `MusicQueue` follows one request from `resolveQueueQuery`
over `buildPlayerQueue` to the start; a shuffle is any permutation, of the server for a
query that asks for it and of the player for whatever it was given (`Shuffled`), a mix is drawn
track by track, a name is what the rows of the search say of it, and `Wishes` are the
questions people may ask.

### MusicLibrary

`disk` are the files with their tags, `rows`, `albums`, `plays`, `lyrics` and
`entries` the tables. The scan is `BeginScan`, one `ScanFile` per path in any order
(`ScanFileFails` when it cannot be read), `EndFiles`, `Finalize` (compilations),
`Relink`, `Prune`, `Cleanup`; between any two of them files move or vanish
and people edit, rescan, write tags back, merge duplicates, play and change the
playlist. All albums have one title and year, as the merge looks only at those.
`settled` records that nothing disturbed the scan, `fresh` that it was the first,
`moved` the files that were on the playlist when they moved, `clashed` those whose
history the relink does not carry over: both rows had lyrics, or two rows of the file
have lost it.

### MusicMatch, VideoMatch

In both, `held` is what the job has read or found and not stored yet: the steps in
between are where people act. `MusicMatch` has the phases enrich, match, refetch and
sweep over `album` and `artist` rows, cover files with an age, and the handlers of the
review, art, identity and reassign pages. `VideoMatch` has the match job (`Search`,
gate, `Download`, `Record`, `Cast`, `Store`), the fetch jobs with their keys, the sweep and
the review pages of shows and films. One worker runs one job at a time. `chosen`,
`rejected`, `identity` and `word` are what people decided and nobody took back; a
decision made after the job listed the row is recorded only where the code
guards it. `crossed` is art changed during a download, or by two people at once, and `bare`
are covers named again by tags without being written. `Reassign` is one step; the code's is an UPDATE, a
wait for the network and an UPDATE of what is still missing (`handlers_music.go:1325`).

What people do to the art of a film is statement by statement. An upload is `Upload` (the
check of the row), `UploadFile` (the rename to the one name a title's picture has),
`UploadRead` (the SELECT of the old path), `UploadRow` (the upsert) and `UploadRemove`; a clear
is `ClearArt`, `ClearRow`, `ClearFile`, an unmatch `Unmatch` and `UnmatchArt`;
`HandlerFails` ends either early, with what it has done. One upload and one clear or unmatch
are under way at a time, interleaved with each other, the job, the fetches and the sweep; two
uploads at once are left out, and a picture has one format. `upload.alone` says that no clear
or unmatch of the title has overlapped the upload.

### DisplayRevert, InstanceLaunch

`displayModeApply` is `Ask`, `Claim` (the pending slot), `SetMode` (xrandr, without a lock),
`Arm` (the timer); `revertDisplayMode` takes the slot, then restores, also without
a lock. `crossed` records that two requests, or a request and a restart, a swap of screens
or a refused restore, overlapped. A process of `InstanceLaunch` goes

    new -> probe -> oracle -> replace -> wait -> lock -> db -> bind -> listen -> serve -> down -> gone

and may attach, refuse or die on the way. A signal of `--replace` is `ShutDown` or
`Die`, which any process may take at any time. `Locks` says whether the file system
supports the lock; the instance has it.

### IntegrityRepair, Podcasts

A file is known by who put it, what is damaged in it and whether a remux wrote
it. `RepairFile` is `CheckContainer`, `Remux`, `Verify`, `Rename`, then `Audit` and `Record`;
`Crash` stops it anywhere; `Scan` decides by size and time, and by checksum for a
moved track. A work of `Podcasts` fetches, then upserts and stores or only stores, with
unsubscriptions, restarts and new publications in between; ids are given by
AUTOINCREMENT.

### PlaybackSession, ContinueWatching

A behaviour of `PlaybackSession` is one request, `TitleSession` or `BookSession`, and one
stream, `StreamFile`, `StreamRemux`, `StreamAudio`, `StreamBurnIn` or `StreamSegments`; the second
knows only the URL of the reply and the stored probe. `Decide` is translated with the
profiles it reads. In `ContinueWatching` the actions are the beacons and the watched marks;
the query, `continueTarget`, up-next and the film query are operators over the
rows, one for each copy of a rule in the code.

## 3. The runs

| run | question | instance | distinct states |
|---|---|---|---|
| `jobs_safety` | safety and refinement of the job service | 2 callers, 1 canceller, 3 rows, a queue of 1, 2 items per sweep, 2 starts | 6,048,793 (up to symmetry) |
| `jobs_liveness` | does every job end | 3 rows of a scan, a cosmetic sweep and a sweep that counts as interactive, 2 items each that may fail in every run, 2 starts, no cancels | 1,095,794 |
| `watch` | are changes forgotten | root and 1 directory, 2 changes, 2 starts, 2 s | 468,378 |
| `reconcile` | do rows converge, does state follow files | 5 kinds, 2 files, 3 paths (1 in an extras directory), 2 moves, 2 acts, 2 scans | 5,042,803 |
| `segments` | files, slots and builds | 2 clients, 2 builds, 2 segments of one asset, 1 slot each | 4,896,901 (up to symmetry) |
| `segments_liveness` | are clients answered | 2 clients on 1 segment | 67,734 |
| `player` | hesplay's slot | one remote, the reconciler, 2 sessions of 2 tracks, a day of 3 minutes with a window that wraps it | 3,783,828 |
| `services` | the components of `MCServices` | see below | 3,059,880 (up to symmetry) |
| `watch_skip`, `player_two_engines`, `history_edits`, `repair_overwrites` | the findings of section 6 | smaller instances | violations |

In `Services` and `MCServices` each behaviour is a behaviour of the one component that
`part` names, while the variables of the others rest; a property `P` of component `C`
is `part = "c" => C!P`. `MCServices` adds two parts with variables of their own, `v1` to `v15`:
`tree`, a music library of four files that is scanned and not touched otherwise, and `cinema`,
one film whose picture people upload and clear up to three times:

| part | instance | states | property |
|---|---|---|---|
| pipeline | every preset, every failing step | 1,339 | `NothingLeftBehind` |
| chain | 25,920 presets around each limit | 51,840 | `LoopsSeamlessly` |
| browse | 2 servers, 2 requests | 13,346 | `AnsweredFromAskedServer` |
| queue | 5 tracks of 2 artists on 3 albums, all verbs, shuffled or not, mixes of 3 | 3,916 | `QueueHoldsWhatWasAsked` |
| tree | 4 files in 2 folders, two trees, walked in any order | 326,135 | `ScanReflectsTree` |
| music | 2 files, 3 paths, a change, lyrics, a playlist | 191,187 | `ScanReflectsTree`, `EntryFollowsFile` |
| match | 1 album, 1 artist, 1 release group, 2 acts of people | 263,071 | `ChoicesStand` |
| video | 2 files of one title and different eras, 2 ids, 2 acts | 1,128,550 | `DecisionsStand` |
| cinema | 1 film, 1 id, 3 acts | 112,490 | `DecisionsStand` |
| display | 2 modes, 2 requests, a screen that may vanish | 96,196 | `UnkeptIsUndone` |
| launch | 3 processes, each with and without a window and `--replace` | 397,548 | `OneInstance` |
| repair | video, music and mp3, every set of damages, 1 replacement | 17,524 | `VerdictFollowsFile` |
| feed | 2 feeds, 2 works at a time, a cap of 1 episode, 2 ids | 322,772 | `HeardStaysHeard` |
| play | sources of every container, codec, default and subtitle that matter to `Decide`, all requests | 64,896 | `StreamKeepsDecision` |
| card | 2 seasons of 2 episodes, 3 acts, reports on both sides of each threshold | 69,070 | `CardPlays` |

**Why these bounds are enough to be interesting.** A queue of one and two
callers fill the queue both for an enqueue and for the requeue of a yield; three
rows are a running one, a queued one and a third that is refused or joins; two
starts put a crash in every state and the reconcile after it. Two items make a
sweep yield once and resume. In `LibraryWatch` two changes are a directory that
appears and a file added to it later, or two files; two seconds separate
before from at-or-after the last scan. Three paths and two moves make chains
(a to b, b to c), swaps of two files and a move into the extras directory, and
two scans are an aborted or scoped one and a full one after it. One slot of each
kind makes every build wait for every other. Two sessions of hesplay are a
session and the one that replaces it with its late end; two works on a podcast
are a refresh that outlives it and a subscription that brings it back; two
seasons of two episodes are the end of a season and what comes after; three
launches are an instance, one that replaces it and one that comes in between.
What larger instances could add for the job service is settled by the proofs of section 4.

**Symmetry** is declared for callers, clients, builds and segments in the safety
runs, and for the ids of titles in `services`: no operator tells them apart, and `CHOOSE` is
never applied to them.
**Deadlock** is checked except where the bounds let the instance come to rest: in
`reconcile` (moves, acts and scans), in `services` and the two violation runs of
its components (a session that returned, a queue that was built, acts used up).
In the other modules a
running process can always shut down, be toggled or take a request, so the
absence of deadlock says little there; that work gets done is what the liveness
runs show.

**Fairness.** `JobService!FairSpec`: the worker is one goroutine that is never
blocked for good (executors take a context and return), a caller that has
inserted goes on to push or to fail its row, a canceller goes on to poke, and a
process that ended is started again. Whether anyone enqueues or cancels is left
open. `LibraryWatch!FairSpec`: the watcher's loop, its timers and the worker
run, and the process starts again; crashes, scans by hand and toggles are free.
`SegmentCache!FairSpec`: builds and clients run; every wait of a build has a
timeout and every encode ends, which is why weak fairness of `BuildStep` is
enough although slots can be taken by others at any time. The other modules
state no fairness and claim no liveness.

**Deepest properties.** `NoStrandedJob` relates the table to the queue and to
the position of every goroutine; `TimelyCancelSticks` follows a cancel across
yields and requeues; `RowsFollowLifecycle` is a refinement; `EveryJobEnds`
fails as soon as two cosmetic sweeps, whose items may fail in every run, count for
one another as waiting work; `NoForgottenChange` and
`ChangesAreIndexed` cover every order of events, timers and walks;
`UserStateFollowsFile` covers repeated moves, twins, aborted and scoped scans;
`RegisteredBuildIsLive` says that no caller ever joins a build that has already
failed it; `LatchHolds` follows a stop through windows that wrap midnight,
late loops and a reconciler that acts on old news; `ScanReflectsTree` compares
the compilation merge with a definition that knows no order; `StreamKeepsDecision`
compares two derivations of one plan; `DecisionsStand` follows a picture through an upload, a
clear, a download and a sweep that take turns statement by statement; `CardPlays` the SQL and the Go of one
rule, and both with the order of the episodes; `QueueHoldsWhatWasAsked` a queue with
the question, through a resolver, a query and a draw; `LoopsSeamlessly` what an effect
chain is made of with what is heard; `EntryFollowsFile` follows an entry through rows
that are promoted, merged, relinked and pruned.

## 4. The proofs

The proofs hold for every value of the constants: any number of callers, rows,
builds, sessions, files, directories, launches, any capacity and any number of
steps. Each proof module has one inductive invariant per component; it is larger
than the properties it gives, because a property says what must not happen and
the invariant has to say what everybody knows on the way there. Each was checked
by TLC on the small instance before it was proved. Each action has a lemma, and
one theorem puts the lemmas together.

| module | theorem | establishes |
|---|---|---|
| `JobServiceProofs` | `JobsTypeCorrect` | `TypeOK` |
| | `NoJobStranded` | `NoStrandedJob` |
| | `CancelsReachExecutors` | `CancelReachesExecutor` |
| | `TimelyCancelsStick` | `TimelyCancelSticks` |
| | `AcceptedJobsRun` | `AcceptedJobRuns` |
| | `PileStaysBounded` | `PileUpBounded` |
| | `JobsFollowLifecycle` | `RowsFollowLifecycle`: the refinement of `JobLifecycle` |
| `SegmentCacheProofs` | `TypeCorrect` | `TypeOK` |
| | `SlotsNeverLeak` | `SlotsAccounted` |
| | `BuildsAreRegistered` | `RegisteredBuildIsLive` |
| | `NeverPartial` | `WholeSegmentsOnly` |
| `PlayerSessionProofs` | `TypeCorrect` | `TypeOK` |
| | `NewestInReach` | `NewestIsReachable` |
| | `OneEngine` | `OneEngineWhenSerial` |
| | `StoppedStaysOff` | `LatchHolds` |
| | `RemoteIsTrue` | `RemoteTellsTruth` |
| | `ScheduleIsRight` | the schedule's arithmetic gives the window the clock is in, for every valid window and time |
| `LibraryWatchProofs` | `ChangesAreRemembered` | `NoForgottenChange` |
| `MediaReconcileProofs` | `Converges` | `ScanConverges` |
| | `UnmountedKeepsRows` | `UnmountLosesNothing` |
| | `BooksStayCompleted` | `EarnedStaysInBooks` |
| | `ScannersAgree` | the upserts of the five scanners make the same row of a file |
| `UserStateProofs` | `ProgressFollowsFile` | `UserStateFollowsFile` |
| | `IdentityFollowsFile` | `MatchFollowsFile` |
| `ServicesProofs` | `LaunchesOnce` | `OneInstance` |
| | `AskedServerAnswers` | `AnsweredFromAskedServer` |
| | `UnkeptModesAreUndone` | `UnkeptIsUndone` |
| | `NoiseLeavesNothing` | `NothingLeftBehind` |
| | `CardsPlay` | `CardPlays` |
| | `StreamsKeepDecisions` | `StreamKeepsDecision` |
| | `QueuesHoldWhatWasAsked` | `QueueHoldsWhatWasAsked` |
| | `NoiseLoopsSeamlessly` | `LoopsSeamlessly` |
| `CatalogProofs` | `VerdictsFollowFiles` | `VerdictFollowsFile` |
| | `HeardEpisodesStay` | `HeardStaysHeard` |
| | `ChoicesAreKept` | `ChoicesStand` |
| | `DecisionsAreKept` | `DecisionsStand` |
| | `PlaylistFollowsFiles` | `EntryFollowsFile` of the music library |
| | `ScansLeaveARowPerFile` | the half of `ScanReflectsTree` about rows: an undisturbed scan leaves a row for each file and no other |
| | `ScansGroupLikeTree` | `ScanReflectsTree` of every orderly tree: a first scan groups its files in one way, whatever the order of the walk |
| | `EveryTypeHolds` | `TypesOK`: the type invariant of each component of `Services` but the chains, which have none |

### The job service: who holds a row that is not finished?

`NoStrandedJob` alone is not inductive, since it says a row is held by someone
but not that only one holds it: a worker that finishes a row must know that the
queue does not hold it a second time and that no caller is about to fail it. So

* `UnusedRows`: a row the table has not handed out is untouched, which makes
  the id of an insert new to everybody;
* `WorkerOwns`: the worker's position gives the status of its row, and from
  registration on its cancel function is in the map;
* `CallerOwns`: between the insert and the end of the push a caller holds its
  own row, queued, and nobody else does;
* `QueueOwns`: the queue holds a row at most once, queued, and not one that a
  caller or the worker holds (but for the worker that has just put it back);
* `Down`: a process that is down holds nothing, so `Boot` can cancel every
  pending row;
* `FreshRows` and `TimelyRows`: what the two history variables mean while the
  row is on its way.

`PileUpBounded` has an invariant of its own, `PInv`: what EnqueueUnique has missed
under its lock is at most the one row that runs, and until it inserts nobody else
inserts a deduplicated row and a yield only puts that one back, so two is the limit.

`JobsFollowLifecycle` shows that every step of `JobService` is a step of
`JobLifecycle` or changes none of its variables; it needs `WorkerOwns` (only the
worker's row runs).

### The segment cache: what does a build know?

The properties are nearly inductive; missing is what a build has learnt before it
acts. `BuildsKnow`: until it is forgotten a build has a segment, and one that waits
for the gate has the slot of the segment cap and nothing else. `RequestsKnow`: the
same for a request that has missed. `TempsAreWhole`: what is about to be renamed is
not half written, which is where an ignored ffmpeg error would show. `FewHolders`:
only finitely many builds have a slot, so that the counters of the two semaphores
are cardinalities although any number of builds may wait.

### hesplay: who may replace the session?

`HandOver` is the centre: while no two replacements have overlapped, sessions are
handed over one at a time. The older ones are over, the newest is over before a
successor is installed, and if it is cancelled and not over somebody waits for it.
`SlotOK` (the slot holds the newest session or none), `LoopsOK` (an engine plays only
in the wait of its loop), `Published` (what is shown is the newest session's) and `PauseKept`
(unless a pause is `raced`, the flag and the engine differ only by what a pause that is half
done has still to do) follow the loop; `LatchKept` says that what a stop has hushed
is latched or about to be, and that what the reconciler installs it decided on when
nothing was hushed. `RoomKept` and `ActorsOK` are bookkeeping. `ScheduleIsRight` is
arithmetic modulo the day and the week and needs no behaviour; its hypothesis
`ScheduleAssumption` is what `validate` and `parseHHMM` let through.

### The watcher: where is a change that no scan has seen?

In a pending event, an armed or fired timer, a queued or running job, or in what the
running walk has still to visit: this is `NoForgottenChange`, and it is inductive
together with `WatchesAll`: every directory of a synced library is watched or its
creation is an event on its way, an entry in the timer map is a timer that is
armed, and a walk that does not run has nothing to visit.

### The scanners: what can a step do to a row?

`StepKeepsRows` answers for all five kinds: a row is kept (its signature and its
place stay), or it was scanned from the file that is there now, or it was deleted by
the prune and was stale. All three theorems about rows come from this lemma.
`ScanConverges` needs in addition what a full scan has done so far on a disk that
holds still (`Converging`): what was walked fits its file (`WalkedFit`), what is stale
has no file (`StaleAreGone`), and at the end what has no file is stale (`RestAreStale`).
`UnmountLosesNothing` needs `DarkFindsNothing`: a scan of an unmounted root gets past its
walk only if there are no rows. `ScannersAgree` is why one `Upserted` can stand for the
upserts of five scanners in the rest of the proofs.

### The users' state: where is it while rows are replaced?

A file is *safe* while it is on the disk and the design may not lose its state
(section 3 says when it may). The two properties speak of the end of a scan; the
invariant follows the state through one. Between the steps (`Places`): a content is at
one path, a row has the signature of the file it was scanned from, a file that came
to the row of another took both out of safety, and twins of a safe file do not move.
`StateIsSomewhere`: each safe file has a row with its whole state, and none of its rows
has another. During a scan (`Course`), the rows without a file are being paired with
those of new files: the home of a safe file has been walked (`WalkedAreOwned`) and
survives (`HomesSurvive`), only safe rows at home survive (`SurvivorsAreHome`), an old row
is an orphan (`AwayAreOrphans`) and the only one (`OneAway`), so the state is copied to the
right row (`MovedIsAlone`), and what is deleted afterwards has given its state away
(`StateArrives`, `StaleAreNotCalm`). The hard part is the disk, the players and the
matcher, which go on between any two of these steps: `HomeInScope` and `SafeIsMounted` say
what a file that moves under a scan loses, and therefore what a safe one has not done.

### The services

* `LaunchInv`: with locks, who has the lock is the one owner (`HolderOwns`); a serving
  owner has the socket file and its url in `app.url` or is about to write them
  (`Reachable`); what a launch took for healthy served on the socket or has gone since
  (`FoundBySocket`); and a launch from the desktop does not come to terminate one that
  serves (`NoneInTheWay`).
* `BrowseInv`: until the remote is repointed under it, whatever is under way is for the
  server asked now (`AllForUpstream`), and the flag is up exactly while a rebuild is.
* `DisplayInv`: while no request has crossed another's, what is pending would restore the
  mode that was kept last (`Provisional`), one request sets at a time (`OneSets`), and
  what a timer has taken down is put back (`Undone`).
* `PipelineInv`: each pipe end that is open during the script has a reader yet to be
  started, which gets it closed; after the script the owner has started and the ends
  are closed, so its death ends the others. `InOrder` is what the order of the steps
  promises, shown preset by preset.
* `CardInv`: an episode without a row of progress has no position and is not finished.
  The rest compares definitions: the newest row of the SQL and the first episode of the
  Go are of one season (`NewestInSeason`), and with what the query calls watched and the
  Go calls finished the same (`QueryAgrees`), a card's target is an episode to play. Two
  files of one episode are two rows of it in a fixed order, and card and player go on with
  the same one.
* `PlayInv`: the reply is a function of the request and the stored probe, and the stream
  one of the reply's URL and the probe (`StreamKnown`): nothing else passes between the
  two. So each derivation is opened on its own: the sound that is mapped is the one that
  was judged (`SoundIsJudged`), the picture the first that is not flagged as cover art
  (`PictureIsJudged`), a title that was never
  probed is encoded (`BlindIsEncoded`), and what was decided for a subtitle is what the
  URL asks for (`TitleSubtitles`).
* `RepairInv`: what a check knows of the bytes at each step (`CheckKnows`) holds until the
  file is put again under it; a stamp and a checksum change together (`Stamped`); one
  check runs at a time on a row without verdict (`OneCheck`).
* `FeedInv`: the podcast of an episode is there and its feed named the guid (`Named`), what
  was heard has a ticked row of progress (`Ticked`), and a fetch stores items of the
  feed it asked (`OfItsFeed`), for ids that are given once.
* `MatchInv`: the cover the job holds is on the disk and what it matches is not rejected
  (`JobHolds`), and its sweep has listed, or finds new, every cover that is named
  (`SweepSpares`).
* `VideoInv`: nobody has decided what a job holds or has still to look up (`Undecided`);
  unless a person changed the art of the title meanwhile, a picture on its way is for a
  title without one of a person's, and is on the disk before the row names it
  (`OnItsWay`); an upload has its file on the disk until the row names it, and a clear or an
  unmatch that is under way takes nothing a row names, unless the two have met
  (`HandsPart`: `ManualMarked`, `UploadStands`, `TakingStands`, one of each at most by
  `HandsApart`); and what a row names when the sweep runs, the sweep has read, or it is
  new, or it is a portrait, which the sweep of films does not look at (`SweepHeeds`).

* `QueueInv`: the query is the one the question resolves to, and while a mix is drawn
  (`Mixed`) the queue and the pool are apart, no song is in the queue twice, and no artist
  is above the cap. The rows of a query are `InOrder`, and a sweep without repeats is the
  first of each song (`Firsts`): both are defined by choice instead of recursion, so that
  what they return can be proved of every catalog.
* `NoiseLoopsSeamlessly` needs no history: a chain is made in one step. It is arithmetic
  about swells, trims and repeats. Each part of a chain is a `Piece` with known swells and
  at most one trim, pieces join (`PiecesJoin`), the buffer is a whole number of the swells
  that fit one (`Holds`, `LoopOfTwo`), and what is repeated is all that precedes
  (`RepeatedChain`).
* `LibraryInv`: what rows, plays, lyrics and entries refer to is there, and no two albums
  have one artist (`Shelf`, `Listings`); and, while nobody disturbs the scan (`ScanInv`),
  what is no longer to do is known, a moved file keeps its entry at the row that lost it
  until the relink (`Awaits`), and has it at the row that has the file afterwards
  (`Arrived`). The promotions of compilations and the readings of several files go one
  after the other, as a recursive function: that each keeps `Shelf` is proved from the
  least place where it would not (`Least`, from the well-foundedness of `<`).
* `GroupInv`: until the promotions a first scan has every row on the album its tags say
  (`Filed`), and afterwards two rows share an album exactly if the reference puts them
  together (`Together`). Between the two lies `FinalizingGroups`: an album of the store is
  a group of the tree (`AlbumIsGroup`), one that somebody dominates is left as it is
  (`DominatedStays`), the one that nobody dominates takes in what the reference takes in
  (`MixedGathers`), and before and after it the other candidates change nothing. A library
  nothing was scanned into has no albums, which makes the store of a first scan `Filed`.
* `EveryTypeHolds` adds to each invariant above what its type invariant says more. A
  change that is armed has the mode its timer applies (`DisplayHeld`); nothing of a check
  is left when it is over (`RepairHeld`); ids are given once and a podcast is there once per
  feed (`FeedHeld`); a skipped album has no release group (`MatchHeld`); a row has a title
  exactly when it is matched, and a job has one when it casts or stores (`VideoHeld`); no row
  is newer than the clock (`CardHeld`); there is no reply before an answer (`PlayHeld`).

### What the theorems assume

Apart from the named assumptions of the modules (`JobService`, `SegmentCache`,
`NoiseSchedule`, `MediaReconcile`, each with its reason beside it):

* the mark for "nothing" is not an id, a mode or a process (`LaunchesOnce`,
  `UnkeptModesAreUndone`, `ChoicesAreKept`, and `NoneAssumption` of `MediaReconcile`): in
  the code it is NULL, 0 or the empty string, which no row, mode or process has. Nor is
  the mark for what was skipped, which in the code is a status (`DecisionsAreKept`);
* a person of TMDB is not a title (`DecisionsAreKept`): their ids are in tables of their own;
* a screen offers modes (`UnkeptModesAreUndone`), a damage is one of the three the
  checker looks for (`VerdictsFollowFiles`), and a feed is a finite list of its own
  guids (`HeardEpisodesStay`);
* the copies of one episode are listed in a fixed order (`RowOf`, of `CardsPlay`):
  `sort.Slice` is not stable, but it gives one order for one listing, and everything that
  lists a season calls `seasonEpisodeFiles`. Any number of copies is allowed;
* a library of music has finitely many paths (`PlaylistFollowsFiles`);
* a tree is orderly (`Orderly` of `ScansGroupLikeTree`): the files of one album artist
  agree on the compilation flag, those of Various Artists have it, and at most one album
  artist has an album that nobody dominates. Both trees of `tree` are; without it the
  grouping does depend on the order, which section 6 notes;
* a catalog is a sequence of tracks, a playlist lists ids of tracks, the limits of a mix
  are positive, and a question is one a person can ask (`CatalogKnown` of
  `QueuesHoldWhatWasAsked`); a preset is any words and integers (`PresetsKnown` of
  `NoiseLoopsSeamlessly`);
* the bounds of an instance are numbers, a report is a percent and a flag (`Percents`), a
  mode of playback is one of the four there are (`Modal`): with those above they are the
  hypotheses of `EveryTypeHolds`. TLC has found them all to hold in the instance of
  `services`.

A theorem about `Services` speaks of the behaviours in which the one component runs;
they share nothing, so the rest adds nothing. The properties of hesplay under `raced`
or `overlapped`, of a browse under `moved`, of a mode under `crossed` and of a check
under `doubt` are weaker by what section 3 says of these marks.

### What the attempts showed

* What the flag and the engine say differs while a pause is half done, and a pause of noise
  that is slow enough sets the flag of the session that came after it (`raced`, section 6).
* An upload and a clear of one title that overlap can leave a row that names a picture which
  is gone: nothing in the handlers keeps them apart (section 6).
* Two pauses in flight can leave the flag with the answer of the first and the engine
  with that of the second, with no change of session: `raced` now says so.
* `OneInstance` rests on the lock: on a build without locks nothing keeps a second
  instance out, so the property is about `Locks`.
* `NoForgottenChange` needs that the root of a synced library is watched, which no
  property had said.
* A guard of `FetchFails` in `VideoMatch` was true in every state but one, through the
  precedence of `=>`: a fetch could fail while none ran. It is what the code has now: a
  fetch of details fails, or one of a cast that is all its job asks for.
* The upserts of the five scanners, written differently in the code, make the same
  row of a file.

* `EntryFollowsFile` was false of a file that moves, is scanned by a scan that is cut short,
  and moves again: two rows of one signature have then lost their file, `relinkMovedTracks`
  takes them for ambiguous (`scan/scanner.go:712`) and the entry goes with the prune. One
  change of the disk, the bound of the run, cannot show it; the proof could not get past
  it, and two changes gave TLC the trace. `clashed` now has these files, and with it an
  instance of two changes passes as well (5,961,871 states).
* The type invariant of `MusicQueue` bounded `from` by the catalog; a playlist that lists
  a track twice is longer. It is a number now.
* That a first scan groups a tree in one way is false of some trees. The proof asked for
  `Orderly`; with its first condition dropped TLC finds two files of one album artist, one
  marked and one not, whose album keeps the flag of the file read last.
* The types of `VideoMatch` are not inductive: that a job stores a title, and not the
  person it took for one, rests on what the gate has let through (`JobPlaced`).

### Only model-checked

* `EveryJobEnds`, `CallersAnswered`, `ChangesAreIndexed`: liveness under fairness is out
  of the prover's reach.
* The part `tree` of `MCServices`, a second copy of the module: `ScansGroupLikeTree` is
  stated of the part `music`. Of a tree that is not orderly only the rows are proved
  (`ScansLeaveARowPerFile`); its grouping depends on the order and nothing is claimed of it.
* What the violation runs show: a theorem cannot say it.

## 5. Mutants

Every property of a passing run has a mutant in `PROJECT.json`: the definition
of one action is replaced by its "Mutated form" and TLC finds the property
violated in the same instance: the re-check of the cancel flag left out, the
full queue only logged on a requeue, the duplicate check outside the lock, an
event that only adds a watch, a prune without the look at what the walk found,
a relink that takes any file of the signature, a build that ignores ffmpeg's
error, a request that starts a build beside the one in progress, a panic that
tells nobody, a late loop that clears its successor's slot, a night window that ends
on the wrong day, a failed pipeline whose first process is left, a match that
asks for everything not matched and so takes a skip back, an upload that removes the old
file although it is its own, a start position counted in the shuffled order, a sweep without
its grace period, an id given twice, a launch that asks only `app.url`, a checksum left as it
was before the repair, a track pinned by language for the decision and not for the
stream. Where a property speaks of several rules it has a mutant for each.

## 6. Findings

Disagreements between the code and what its comments or documents say, each shown
by a run that finds the property violated:

1. `watch_skip`: a fire is skipped for a scan that has passed the changed
   directory or walks another folder (`watch.go:295`).
2. `player_two_engines`: two requests to play at once leave two engines playing,
   one of which no stop reaches (`control.go:384`).
3. `history_edits`: an edit of the album artist, or a rescan after one, empties an
   album, and its deletion cascades to the plays of tracks that are still
   there (`scan/scanner.go:866`).
4. `repair_overwrites`: a file put in place while the old one is repaired is
   overwritten by the repair (`video/integrity.go:231`).

Smaller disagreements and surprises met while modelling. Where a property is
named, its module defines it: put it into a configuration of the module's
instance to see the trace.

* *Job service.* EnqueueUnique answers with a queued row that is already
  cancelled and will be dropped (`JoinedRequestRuns`, `jobs.go:223` against 228).
  `book_thumb` and `audiobook_thumb` are missing from the cosmetic types, so two of
  these sweeps do ping-pong (`jobs.go:155` against 163, "excluded so two of them never
  ping-pong yielding to each other"): each looks at one item, yields to the other and
  lists its items again, for ever if the first item of each stays pending, which for
  books takes a gate that is busy each time. `EveryJobEnds` excuses exactly that, with
  `TwoSweepsAskingEachOther`; without its second disjunct the run shows the loop. A
  failing UPDATE of `finishJob` leaves a row running until the next start.
* *Watcher.* The boot prune deletes the scan time that the boot reconcile reads
  (`BootSeesOfflineChanges`, `jobs.go:84` against 60).
* *Scanners.* The relink of a moved tv, movie or clip file takes back a watched
  flag (`EarnedStaysEarned`, `tvscan/scanner.go:587`), and gives a file moved into an
  extras directory its match after the reset of the same scan
  (`ExtrasStayUnmatched`, `tvscan/scanner.go:208`).
* *Music scanner.* `finalizeCompilations` depends on the order of albums when two
  candidates meet one folder; `ensureAlbum` keeps the compilation flag of the file read
  last (`scan/scanner.go:342`), so where the files of an album disagree it depends on the
  walk, although `scan/scanner.go:359` has it "independent of filesystem walk order"; two various-artists albums of the same title and
  year are merged although `scan/scanner.go:507` means to keep them apart; an edited
  file of a promoted compilation splits off at the next scan; a file that moves
  during a scan, or again after one that was cut short, loses its state. A playlist entry is lost when both rows of a
  moved file have lyrics (`EntrySurvivesMove`, against
  `docs/media-source-of-truth.md:146`).
* *Music match.* Several UPDATEs (`match/pipeline.go:741`, 762, 789, 797) do not look
  at the row again and overwrite what a person decided during the search
  (`IdentityStands`); a cover named again by tags without being written can be swept
  (`NeededNeverDeleted`, `thumbgc.go:33`).
* *Video match.* An upload during a download is overwritten
  (`ManualArtStands`, `tmdb/movie.go:338` against 318). A fetch cancelled while it waits keeps
  its key until the restart (`KeyHeldByJob`, `handlers_person.go:57` against 50).
  Clearing art while a fetch of the same key is past its gate drops the refetch. A clear
  that overlaps an upload of the same title can remove the file the row names: it reads the
  path (`handlers_movie.go:1038`), the upload puts the new file under the same name (`:984`)
  and its row, and the clear removes that file (`:1048`). After an unmatch that overlaps
  one, a match can store TMDB's picture again before the upload removes the old one, which has
  that name (`:1012`). `DecisionsStand` excuses such a title until an upload that nobody overlaps.
  The tv review groups by title across eras.
* *Display.* Declining a change does not stop its timer, which can revert a later
  change to the same mode early; declining while xrandr runs strands a mode nobody
  kept; a request that reads the mode during a restore takes a provisional mode for
  the previous one.
* *Launch.* The comment at `attach.go:77` does not hold between bind and the write
  of `app.url` after a crash; two `--replace` launches can terminate each other; the
  wait for the replaced process is shorter than its shutdown may take.
* *Integrity.* A hard error of the check is recorded as sound
  (`integrity.go:181`); a deep check before the cheap one can hide a damaged
  container behind "degraded"; a crash leaves the repaired copy beside the file, where the
  scanners find it.
* *Podcasts.* A `storeEpisodes` that fails leaves a subscription without episodes. The
  comment of `enqueuePodcastRefresh` says it runs in the job queue; it runs in a
  goroutine of its own.
* *hesplay.* A pause can be lost, or stay, across a change of track (`control.go:736`); a pause
  of noise stores its flag without the lock (`control.go:770`), so a session that replaced the
  noise meanwhile is shown as paused while it plays, until its next track, another pause or
  another session; the
  index may be another server's for a request that overlaps the change
  (`NeverAnotherServer`, `browse.go:138` against 101); a mix need not open with its seed
  (`SeedOpensMix`, `handlers_music_mix.go:116`).
* *Playback.* A file played as it is starts with its own default track, whatever
  the reply names (`AppliedIsServed`, `handlers_stream_tv.go:109`). An audiobook
  with a default track that is not the first is not pinned to it; one without a probe is
  remuxed with its sound copied, playable or not. Cover art that is not
  flagged as such and comes first is what ffmpeg's `0:V:0` takes, while the decision judged the
  largest picture (`JudgedIsServed`, `playback/extract.go:49`): `StreamKeepsDecision` says
  nothing of the picture of such a film.
* *Continue Watching.* Two rows of a season updated within one second are not
  told apart. The comment of `tvMarkWatched` says a partial position is kept;
  `markWatched` zeroes it.

## 7. Not modelled, and the plan

Not modelled: parsing and probing (tags, epub, exif, ffprobe, feeds, file
names), scoring of matches, HTTP clients, page rendering, the browser's
players, photo renditions, configuration, and failing SQL statements. Intro detection is
signal processing; of its control it is worth knowing that Play reads the marker
before it claims the key of the job, that a cancelled queued job keeps the key, and that
segments outlive a replaced file.

The plan, in order of what matters most:

1. `JobService`, `JobLifecycle` and its proofs: the spine that everything
   else runs on. *(done)*
2. `LibraryWatch`, `MediaReconcile`, `SegmentCache`. *(done)*
3. `PlayerSession`, `NoiseSchedule`, `NoisePipeline`, `NoiseChain`, `BrowseIndex`,
   `MusicQueue`: hesplay. *(done)*
4. `MusicLibrary`, `MusicMatch`, `VideoMatch`. *(done)*
5. `IntegrityRepair`, `DisplayRevert`, `InstanceLaunch`, `Podcasts`. *(done)*
6. `PlaybackSession`, `ContinueWatching`: two derivations of one rule. *(done)*
7. Proofs: `JobService`, `SegmentCache`, `PlayerSession`, `NoiseSchedule`, `LibraryWatch`,
   `MediaReconcile`, and every property and type invariant of `Services`, the grouping of
   albums for orderly trees. *(done)*
8. The grouping of trees that are not orderly: what it is in the order of the walk.
9. Liveness of hesplay: a request that replaces a session is answered, because
   every loop ends once it is cancelled.
