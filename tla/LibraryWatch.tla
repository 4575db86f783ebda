---------------------------- MODULE LibraryWatch ----------------------------
(***************************************************************************)
(* How a change on disk becomes an index entry: the filesystem watcher     *)
(* (internal/watch), its debounce timers and boot reconcile, the scan jobs *)
(* it triggers, the walk of a scan, and the boot resume of interrupted     *)
(* scans (internal/web).  One library; a directory stands for the files    *)
(* added to it, disk[d] counts them, index[d] is how many the last visit   *)
(* of a walk saw.  The job service appears as a count of queued scans and  *)
(* the one running.                                                        *)
(***************************************************************************)
EXTENDS Integers, FiniteSets

CONSTANTS
    Root, Sub,   \* the library's root, and the directories made below it
    MaxChanges,  \* bound: files added and directories made
    MaxScans,    \* bound: scans waiting in the job queue
    MaxBoots,    \* bound: starts of the process
    MaxTime,     \* bound: seconds of the clock
    Retention    \* seconds a finished scan's job row is kept (30 days)

ASSUME BoundsAssumption ==
    /\ Root \notin Sub
    /\ {MaxChanges, MaxScans, MaxBoots, MaxTime, Retention} \subseteq Nat

Dir == {Root} \cup Sub

VARIABLES
    \* the disk
    made, disk, mtime, clock,
    \* the library row and the index
    present, index,
    \* the process
    up, boots, resume, enabled,
    \* the watcher: roots, watch set, events not yet handled
    synced, watched, events,
    \* the timer in Service.timers, whether it is armed, all armed timers,
    \* fire goroutines before and after they drop the map entry
    entry, entryArmed, armed, fired, firing,
    \* scan jobs: waiting for the whole library, waiting for one show folder,
    \* running, directories the walk has yet to visit,
    \* ended_at of the last one done that the table still holds (0: none)
    queued, series, running, todo, lastScan,
    \* history: ended_at of the last one done
    lastDone,
    \* history: stale directories the code knowingly lets go
    excused

fsVars == <<made, disk, mtime, clock>>
procVars == <<up, boots, resume, enabled>>
watchVars == <<synced, watched, events>>
timerVars == <<entry, entryArmed, armed, fired, firing>>
scanVars == <<queued, series, running, todo, lastScan, lastDone>>
vars == <<fsVars, present, index, procVars, watchVars, timerVars, scanVars, excused>>

Stale == {d \in made : index[d] < disk[d]}
ScanActive == queued > 0 \/ series # {} \/ running

\* What the active scans have not looked at yet.
Ahead == IF queued > 0 \/ Root \in todo THEN Dir ELSE todo \cup series

NoTimers == entry' = FALSE /\ entryArmed' = FALSE /\ armed' = 0 /\ fired' = 0 /\ firing' = 0

Init ==
    /\ made = {Root}
    /\ disk = [d \in Dir |-> IF d = Root THEN 1 ELSE 0]
    /\ mtime = [d \in Dir |-> 1]
    /\ clock = 1
    /\ present \in BOOLEAN
    /\ index = [d \in Dir |-> 0]
    /\ up = FALSE /\ boots = 0 /\ resume = FALSE /\ enabled = TRUE
    /\ synced = FALSE /\ watched = {} /\ events = {}
    /\ entry = FALSE /\ entryArmed = FALSE /\ armed = 0 /\ fired = 0 /\ firing = 0
    /\ queued = 0 /\ series = {} /\ running = FALSE /\ todo = {} /\ lastScan = 0 /\ lastDone = 0
    /\ excused = {}

-----------------------------------------------------------------------------
(* The disk.  Adding a file or a directory moves the mtime of its parent,  *)
(* and emits an event if the parent is watched.                            *)
Tick ==
    /\ clock < MaxTime
    /\ clock' = clock + 1
    /\ UNCHANGED <<made, disk, mtime, present, index, procVars, watchVars, timerVars,
                   scanVars, excused>>

TotalChanges == Cardinality(made \ {Root}) + Cardinality({d \in Dir : disk[d] > 1})

AddFile(d) ==
    /\ d \in made /\ disk[d] < 2 /\ TotalChanges < MaxChanges
    /\ disk' = [disk EXCEPT ![d] = @ + 1]
    /\ mtime' = [mtime EXCEPT ![d] = clock]
    /\ events' = IF d \in watched THEN events \cup {d} ELSE events
    /\ excused' = excused \ {d}
    /\ UNCHANGED <<made, clock, present, index, procVars, synced, watched, timerVars, scanVars>>

(* A directory appears with a file in it: an mv or an extracted archive. *)
MakeDir(d) ==
    /\ d \in Sub \ made /\ TotalChanges < MaxChanges
    /\ made' = made \cup {d}
    /\ disk' = [disk EXCEPT ![d] = 1]
    /\ mtime' = [mtime EXCEPT ![d] = clock, ![Root] = clock]
    /\ events' = IF Root \in watched THEN events \cup {d} ELSE events
    /\ excused' = excused \ {d}
    /\ UNCHANGED <<clock, present, index, procVars, synced, watched, timerVars, scanVars>>

-----------------------------------------------------------------------------
(* bump re-arms the timer of the map entry, or starts a new one.  Reset on *)
(* a timer whose goroutine is already under way arms it a second time.     *)
Bump ==
    /\ entry' = TRUE /\ entryArmed' = TRUE
    /\ armed' = IF entryArmed THEN armed ELSE armed + 1
    /\ UNCHANGED <<fired, firing>>

NoBump == UNCHANGED timerVars

Newest == CHOOSE t \in {mtime[d] : d \in made} : \A d \in made : mtime[d] <= t

(* Mutated form: a library that never finished a scan is not resumed. *)
BootScannedOnly ==
    /\ ~up /\ boots < MaxBoots
    /\ up' = TRUE /\ boots' = boots + 1
    /\ resume' = (ScanActive /\ lastScan > 0)
    /\ queued' = 0 /\ series' = {} /\ running' = FALSE /\ todo' = {}
    /\ synced' = present
    /\ watched' = IF present THEN made ELSE {}
    /\ NoBump
    /\ excused' = IF ScanActive THEN excused ELSE excused \cup Stale
    /\ UNCHANGED <<fsVars, present, index, enabled, events, lastScan, lastDone>>

(* The process starts: pruneOldJobs drops old finished rows and            *)
(* reconcileStaleJobs cancels what was queued or running, then watch.New   *)
(* syncs the roots and rescans a library with a directory newer than its   *)
(* last completed scan.                                                    *)
Boot ==
    /\ ~up /\ boots < MaxBoots
    /\ up' = TRUE /\ boots' = boots + 1
    /\ resume' = ScanActive
    /\ queued' = 0 /\ series' = {} /\ running' = FALSE /\ todo' = {}
    /\ synced' = present
    /\ watched' = IF present THEN made ELSE {}
    /\ lastScan' = IF clock - lastScan > Retention THEN 0 ELSE lastScan
    /\ LET changed == present /\ lastScan' > 0 /\ Newest > lastScan'
       IN  /\ IF changed THEN Bump ELSE NoBump
           /\ excused' = IF changed \/ ScanActive THEN excused ELSE excused \cup Stale
    /\ UNCHANGED <<fsVars, present, index, enabled, events, lastDone>>

(* resumeInterruptedJobs: the root is there and is not empty. *)
Resume ==
    /\ up /\ resume
    /\ resume' = FALSE
    /\ queued' = IF present THEN queued + 1 ELSE queued
    /\ UNCHANGED <<fsVars, present, index, up, boots, enabled, watchVars, timerVars,
                   series, running, todo, lastScan, lastDone, excused>>

(* The job_resume_enabled switch is off, or the root is not mounted yet. *)
ResumeSkip ==
    /\ up /\ resume
    /\ resume' = FALSE
    /\ excused' = excused \cup Stale
    /\ UNCHANGED <<fsVars, present, index, up, boots, enabled, watchVars, timerVars, scanVars>>

Crash ==
    /\ up /\ boots < MaxBoots
    /\ up' = FALSE /\ resume' = FALSE
    /\ watched' = {} /\ events' = {} /\ synced' = FALSE
    /\ NoTimers
    \* a resume that never came leaves its rows cancelled for good
    /\ excused' = IF resume THEN excused \cup Stale ELSE excused
    /\ UNCHANGED <<fsVars, present, index, boots, enabled, scanVars>>

-----------------------------------------------------------------------------
(* The user adds a library; the periodic syncRoots finds it.               *)
AddLibrary ==
    /\ up /\ ~present
    /\ present' = TRUE
    /\ UNCHANGED <<fsVars, index, procVars, watchVars, timerVars, scanVars, excused>>

SyncAdded ==
    /\ up /\ present /\ ~synced
    /\ synced' = TRUE
    /\ watched' = made
    /\ Bump
    /\ excused' = {}
    /\ UNCHANGED <<fsVars, present, index, procVars, events, scanVars>>

(* Mutated form: the directory is watched, what it already holds is not    *)
(* worth a scan.                                                           *)
HandleEventWatchOnly(d) ==
    /\ up /\ d \in events
    /\ events' = events \ {d}
    /\ watched' = watched \cup {d}
    /\ IF d \in watched THEN Bump ELSE NoBump
    /\ UNCHANGED <<fsVars, present, index, procVars, synced, scanVars, excused>>

(* A new directory joins the watch set before the debounce is re-armed. *)
HandleEvent(d) ==
    /\ up /\ d \in events
    /\ events' = events \ {d}
    /\ watched' = watched \cup {d}
    /\ Bump
    /\ UNCHANGED <<fsVars, present, index, procVars, synced, scanVars, excused>>

(* A timer expires: the runtime starts a goroutine that runs fire. *)
Expire ==
    /\ up /\ armed > 0
    /\ armed' = armed - 1
    /\ fired' = fired + 1
    /\ entryArmed' \in {e \in BOOLEAN : (e => entryArmed) /\ (armed = 1 => ~e)}
    /\ UNCHANGED <<fsVars, present, index, procVars, watchVars, entry, firing, scanVars, excused>>

FireForget ==
    /\ up /\ fired > 0
    /\ fired' = fired - 1 /\ firing' = firing + 1
    /\ entry' = FALSE /\ entryArmed' = FALSE
    /\ UNCHANGED <<fsVars, present, index, procVars, watchVars, armed, scanVars, excused>>

(* The rest of fire: switched off, a scan is active, or enqueue. *)
FireOff ==
    /\ up /\ firing > 0 /\ ~enabled
    /\ firing' = firing - 1
    /\ excused' = excused \cup Stale
    /\ UNCHANGED <<fsVars, present, index, procVars, watchVars, entry, entryArmed, armed, fired,
                   scanVars>>

FireSkip ==
    /\ up /\ firing > 0 /\ enabled /\ ScanActive
    /\ firing' = firing - 1
    /\ excused' = excused \cup (Stale \ Ahead)
    /\ UNCHANGED <<fsVars, present, index, procVars, watchVars, entry, entryArmed, armed, fired,
                   scanVars>>

FireEnqueue ==
    /\ up /\ firing > 0 /\ enabled /\ ~ScanActive
    /\ firing' = firing - 1
    /\ queued' = queued + 1
    /\ UNCHANGED <<fsVars, present, index, procVars, watchVars, entry, entryArmed, armed, fired,
                   series, running, todo, lastScan, lastDone, excused>>

(* The watch_enabled switch of the Settings page. *)
Toggle ==
    /\ up
    /\ enabled' = ~enabled
    /\ UNCHANGED <<fsVars, present, index, up, boots, resume, watchVars, timerVars, scanVars, excused>>

-----------------------------------------------------------------------------
(* Scan jobs: requested by hand, for the library or for the folder of one  *)
(* show; the worker walks directory by directory and lists the children of *)
(* the root when it visits the root.  All of them are scan-type jobs.      *)
ManualScan ==
    /\ up /\ present /\ queued + Cardinality(series) < MaxScans
    /\ queued' = queued + 1
    /\ UNCHANGED <<fsVars, present, index, procVars, watchVars, timerVars, series, running,
                   todo, lastScan, lastDone, excused>>

SeriesScan(d) ==
    /\ up /\ present /\ d \in Sub /\ index[d] > 0
    /\ queued + Cardinality(series) < MaxScans
    /\ series' = series \cup {d}
    /\ UNCHANGED <<fsVars, present, index, procVars, watchVars, timerVars, queued, running,
                   todo, lastScan, lastDone, excused>>

StartScan ==
    /\ up /\ queued > 0 /\ ~running
    /\ queued' = queued - 1
    /\ running' = TRUE
    /\ todo' = {Root}
    /\ UNCHANGED <<fsVars, present, index, procVars, watchVars, timerVars, series, lastScan,
                   lastDone, excused>>

StartSeries(d) ==
    /\ up /\ d \in series /\ ~running
    /\ series' = series \ {d}
    /\ running' = TRUE
    /\ todo' = {d}
    /\ UNCHANGED <<fsVars, present, index, procVars, watchVars, timerVars, queued, lastScan,
                   lastDone, excused>>

Visit(d) ==
    /\ up /\ running /\ d \in todo
    /\ index' = [index EXCEPT ![d] = disk[d]]
    /\ todo' = (todo \ {d}) \cup (IF d = Root THEN made \ {Root} ELSE {})
    /\ excused' = excused \ {d}
    /\ UNCHANGED <<fsVars, present, procVars, watchVars, timerVars, queued, series, running, lastScan,
                   lastDone>>

EndScan ==
    /\ up /\ running /\ todo = {}
    /\ running' = FALSE
    /\ lastScan' = clock /\ lastDone' = clock
    /\ UNCHANGED <<fsVars, present, index, procVars, watchVars, timerVars, queued, series, todo, excused>>

(* A scan fails or the user cancels it, waiting or running: nobody retries. *)
AbortScan ==
    /\ up /\ ScanActive
    /\ \/ running /\ running' = FALSE /\ todo' = {} /\ UNCHANGED <<queued, series>>
       \/ queued > 0 /\ queued' = queued - 1 /\ UNCHANGED <<series, running, todo>>
       \/ series # {} /\ series' = {} /\ UNCHANGED <<queued, running, todo>>
    /\ excused' = excused \cup Stale
    /\ UNCHANGED <<fsVars, present, index, procVars, watchVars, timerVars, lastScan, lastDone>>

-----------------------------------------------------------------------------
Disk == Tick \/ \E d \in Dir : AddFile(d) \/ MakeDir(d)

Watcher ==
    \/ SyncAdded \/ Expire \/ FireForget \/ FireOff \/ FireSkip \/ FireEnqueue
    \/ \E d \in Dir : HandleEvent(d)

Scanner == StartScan \/ EndScan \/ \E d \in Dir : Visit(d) \/ StartSeries(d)

User == AddLibrary \/ Toggle \/ ManualScan \/ AbortScan \/ \E d \in Dir : SeriesScan(d)

Next == Disk \/ Boot \/ Resume \/ ResumeSkip \/ Crash \/ Watcher \/ Scanner \/ User

Spec == Init /\ [][Next]_vars

(* The watcher's loops, its timers and the job worker keep running, and    *)
(* the process is started again.                                           *)
FairSpec ==
    /\ Spec
    /\ WF_vars(Boot) /\ WF_vars(Resume \/ ResumeSkip) /\ WF_vars(SyncAdded)
    /\ WF_vars(Expire) /\ WF_vars(FireForget)
    /\ WF_vars(FireOff \/ FireSkip \/ FireEnqueue)
    /\ \A d \in Dir : WF_vars(HandleEvent(d))
    /\ WF_vars(Scanner)

-----------------------------------------------------------------------------
TypeOK ==
    /\ made \in SUBSET Dir /\ Root \in made
    /\ disk \in [Dir -> 0..2] /\ index \in [Dir -> 0..2]
    /\ mtime \in [Dir -> 1..MaxTime] /\ clock \in 1..MaxTime
    /\ {present, up, resume, enabled, synced, entry, entryArmed, running} \subseteq BOOLEAN
    /\ boots \in 0..MaxBoots
    /\ watched \subseteq made /\ events \subseteq made /\ todo \subseteq made
    /\ armed \in Nat /\ fired \in Nat /\ firing \in Nat
    /\ entryArmed => entry /\ armed > 0
    /\ queued \in Nat /\ series \subseteq Sub \cap made /\ lastScan \in 0..MaxTime /\ lastDone \in 0..MaxTime
    /\ excused \subseteq made

(* Something will still look at a stale directory: an event on its way, a  *)
(* timer or a fire in progress, a scan that has yet to visit it, a resume, *)
(* or the sync that will find the library.                                 *)
WillBeSeen(d) ==
    \/ events # {} \/ armed > 0 \/ fired > 0 \/ firing > 0
    \/ ScanActive /\ d \in Ahead
    \/ resume \/ ~synced

(* The watcher never forgets a change of a library it watches, whatever    *)
(* the timers, the events, the scans and the restarts do, except where the *)
(* code lets it go: switched off, a scan that failed or was cancelled, a   *)
(* change the boot reconcile cannot tell, and a fire skipped for a scan    *)
(* that is already past the directory.                                     *)
NoForgottenChange ==
    up /\ present => \A d \in Stale : d \in excused \/ WillBeSeen(d)

(* Every such change is in the index in the end. *)
ChangesAreIndexed ==
    \A d \in Dir : (present /\ d \in Stale) ~> (d \notin Stale \/ d \in excused)

(* "The running scan re-walks the whole root, so it picks the change up    *)
(* anyway": a fire is skipped only for a scan that will still visit every  *)
(* stale directory.                                                        *)
SkippedFireIsCovered == [][FireSkip => Stale \subseteq Ahead]_vars

(* The boot sync fires for a library whose newest directory is later than  *)
(* its last completed scan.                                                *)
BootSeesOfflineChanges ==
    [][Boot /\ present /\ lastDone > 0 /\ Newest > lastDone => armed' > 0]_vars
=============================================================================
