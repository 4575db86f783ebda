-------------------------- MODULE LibraryWatchProofs --------------------------
(***************************************************************************)
(* The watcher never forgets a change, for any number of directories,      *)
(* events, timers, scans and restarts.  What makes it inductive: once the  *)
(* library is synced its root is watched and every directory below it is,  *)
(* or has its event on the way; an armed entry of the timer map is a timer *)
(* that is armed; and a scan that does not run has nothing to visit.       *)
(***************************************************************************)
EXTENDS LibraryWatch, TLAPS

Counts ==
    /\ Root \in made /\ made \subseteq Dir
    /\ disk \in [Dir -> Nat] /\ index \in [Dir -> Nat]
    /\ armed \in Nat /\ fired \in Nat /\ firing \in Nat /\ queued \in Nat
    /\ series \subseteq Sub
WatchesAll ==
    /\ up /\ synced => present /\ Root \in watched /\ made \subseteq watched \cup events
    /\ entryArmed => armed > 0
    /\ ~running => todo = {}
IInv == Counts /\ WatchesAll /\ NoForgottenChange

(* Where a stale directory is looked for. *)
LEMMA StaleIsMade ==
  ASSUME Counts PROVE Root \in Dir /\ Sub \subseteq Dir /\ Stale \subseteq made /\ Stale \subseteq Dir
BY DEF Counts, Stale, Dir

LEMMA InitIInv == Init => IInv
<1>. SUFFICES ASSUME Init PROVE IInv
  OBVIOUS
<1>1. ~up /\ ~running /\ todo = {} /\ ~entryArmed
  BY Zenon DEF Init
<1>2. Counts
  BY DEF Init, Counts, Dir
<1>. QED
  BY <1>1, <1>2 DEF IInv, WatchesAll, NoForgottenChange

(* An armed entry of the map is a timer that will fire. *)
LEMMA BumpArms ==
  ASSUME Counts, WatchesAll, Bump
  PROVE  armed' \in Nat /\ armed' > 0 /\ fired' = fired /\ firing' = firing
BY DEF Counts, WatchesAll, Bump

(* The disk: a change is an event, or one is on its way. *)
LEMMA DiskKeeps == ASSUME IInv, Disk PROVE IInv'
<1>1. CASE Tick
  <2>1. UNCHANGED <<made, disk, present, index, up, resume, synced, watched, events, entryArmed,
                    armed, fired, firing, queued, series, running, todo, excused>>
    BY <1>1 DEF Tick, procVars, watchVars, timerVars, scanVars
  <2>. QED
    BY <2>1 DEF IInv, Counts, WatchesAll, NoForgottenChange, Stale, WillBeSeen, ScanActive, Ahead
<1>2. ASSUME NEW d \in Dir, AddFile(d) \/ MakeDir(d) PROVE IInv'
  <2>1. /\ UNCHANGED <<present, index, up, resume, synced, watched, entryArmed, armed, fired, firing,
                       queued, series, running, todo>>
        /\ excused' = excused \ {d} /\ made \subseteq made' /\ made' \subseteq made \cup {d}
        /\ events \subseteq events'
        /\ disk' \in [Dir -> Nat] /\ \A q \in Dir \ {d} : disk'[q] = disk[q]
    BY <1>2 DEF AddFile, MakeDir, procVars, watchVars, timerVars, scanVars, IInv, Counts
  <2>2. Counts'
    BY <2>1 DEF IInv, Counts
  <2>3. up /\ synced => events' # {} /\ made' \subseteq watched \cup events'
    <3>. SUFFICES ASSUME up /\ synced PROVE events' # {} /\ made' \subseteq watched \cup events'
      OBVIOUS
    <3>1. made \subseteq watched \cup events /\ Root \in watched
      BY DEF IInv, Counts, WatchesAll
    <3>2. CASE AddFile(d)
      BY <3>1, <3>2 DEF AddFile
    <3>3. CASE MakeDir(d)
      BY <3>1, <3>3 DEF MakeDir
    <3>. QED
      BY <1>2, <3>2, <3>3
  <2>4. WatchesAll'
    BY <2>1, <2>3 DEF IInv, WatchesAll
  <2>5. NoForgottenChange'
    BY <2>1, <2>3 DEF NoForgottenChange, WillBeSeen
  <2>. QED
    BY <2>2, <2>4, <2>5 DEF IInv
<1>. QED
  BY <1>1, <1>2 DEF Disk

(* The process: a start rescans, resumes or lets go; a resume queues. *)
LEMMA ProcessKeeps == ASSUME IInv, Boot \/ Resume \/ ResumeSkip \/ Crash PROVE IInv'
<1>1. CASE Boot
  <2>1. /\ UNCHANGED <<made, disk, present, index, fired, firing>>
        /\ queued' = 0 /\ series' = {} /\ todo' = {} /\ watched' = (IF present THEN made ELSE {})
        /\ events' = events
    BY <1>1 DEF Boot, fsVars, Bump, NoBump, timerVars
  <2>2. (synced' <=> present) /\ (resume' <=> ScanActive) /\ up' /\ ~running'
    BY <1>1, Zenon DEF Boot
  <2>3. \/ Bump
        \/ UNCHANGED <<entryArmed, armed>> /\ (ScanActive \/ excused' = excused \cup Stale)
    BY <1>1 DEF Boot, NoBump, timerVars
  <2>4. armed' \in Nat /\ (entryArmed' => armed' > 0) /\ (Bump => armed' > 0)
    BY <2>3, BumpArms DEF IInv, Counts, WatchesAll
  <2>5. Counts'
    BY <2>1, <2>4 DEF IInv, Counts
  <2>6. WatchesAll'
    BY <2>1, <2>2, <2>4 DEF IInv, Counts, WatchesAll
  <2>7. Stale' = Stale
    BY <2>1 DEF Stale
  <2>8. NoForgottenChange'
    BY <2>1, <2>2, <2>3, <2>4, <2>7 DEF NoForgottenChange, WillBeSeen
  <2>. QED
    BY <2>5, <2>6, <2>8 DEF IInv
<1>2. CASE Resume
  <2>1. /\ UNCHANGED <<made, disk, present, index, up, synced, watched, events, entryArmed,
                       armed, fired, firing, series, running, todo, excused>>
        /\ queued' = IF present THEN queued + 1 ELSE queued
    BY <1>2 DEF Resume, fsVars, watchVars, timerVars
  <2>2. Counts' /\ WatchesAll'
    BY <2>1 DEF IInv, Counts, WatchesAll
  <2>3. present => queued' > 0
    BY <2>1 DEF IInv, Counts
  <2>4. Stale' = Stale /\ Stale \subseteq Dir
    BY <2>1, StaleIsMade DEF Stale, IInv
  <2>5. NoForgottenChange'
    BY <2>1, <2>3, <2>4 DEF NoForgottenChange, WillBeSeen, ScanActive, Ahead
  <2>. QED
    BY <2>2, <2>5 DEF IInv
<1>3. CASE ResumeSkip
  <2>1. /\ UNCHANGED <<made, disk, present, index, up, synced, watched, events, entryArmed,
                       armed, fired, firing, queued, series, running, todo>>
        /\ excused' = excused \cup Stale
    BY <1>3 DEF ResumeSkip, fsVars, watchVars, timerVars, scanVars
  <2>. QED
    BY <2>1 DEF IInv, Counts, WatchesAll, NoForgottenChange, Stale
<1>4. CASE Crash
  <2>1. /\ UNCHANGED <<made, disk, index, queued, series, todo>> /\ ~up' /\ ~entryArmed'
        /\ armed' = 0 /\ fired' = 0 /\ firing' = 0
    BY <1>4 DEF Crash, fsVars, scanVars, NoTimers
  <2>2. running' <=> running
    BY <1>4 DEF Crash, scanVars
  <2>. QED
    BY <2>1, <2>2 DEF IInv, Counts, WatchesAll, NoForgottenChange
<1>. QED
  BY <1>1, <1>2, <1>3, <1>4

(* The watcher: what leaves one place is in the next before it is gone. *)
LEMMA WatcherKeeps == ASSUME IInv, Watcher PROVE IInv'
<1>1. CASE SyncAdded
  <2>1. /\ UNCHANGED <<made, disk, present, index, up, resume, events, queued, series, running, todo>>
        /\ watched' = made /\ Bump /\ up /\ present
    BY <1>1 DEF SyncAdded, fsVars, procVars, scanVars
  <2>2. armed' \in Nat /\ armed' > 0 /\ fired' = fired /\ firing' = firing
    BY <2>1, BumpArms DEF IInv
  <2>. QED
    BY <2>1, <2>2 DEF IInv, Counts, WatchesAll, NoForgottenChange, WillBeSeen
<1>2. ASSUME NEW d \in Dir, HandleEvent(d) PROVE IInv'
  <2>1. /\ UNCHANGED <<made, disk, present, index, up, resume, synced, queued, series, running, todo,
                       excused>>
        /\ watched' = watched \cup {d} /\ events' = events \ {d} /\ Bump
    BY <1>2 DEF HandleEvent, fsVars, procVars, scanVars
  <2>2. armed' \in Nat /\ armed' > 0 /\ fired' = fired /\ firing' = firing
    BY <2>1, BumpArms DEF IInv
  <2>. QED
    BY <2>1, <2>2 DEF IInv, Counts, WatchesAll, NoForgottenChange, WillBeSeen
<1>3. CASE Expire
  <2>1. /\ UNCHANGED <<made, disk, present, index, up, resume, synced, watched, events, firing,
                       queued, series, running, todo, excused>>
        /\ armed > 0 /\ armed' = armed - 1 /\ fired' = fired + 1
        /\ entryArmed' => entryArmed /\ armed # 1
    BY <1>3 DEF Expire, fsVars, procVars, watchVars, scanVars
  <2>2. armed' \in Nat /\ fired' \in Nat /\ fired' > 0 /\ (entryArmed' => armed' > 0)
    BY <2>1 DEF IInv, Counts
  <2>. QED
    BY <2>1, <2>2 DEF IInv, Counts, WatchesAll, NoForgottenChange, WillBeSeen
<1>4. CASE FireForget
  <2>1. /\ UNCHANGED <<made, disk, present, index, up, resume, synced, watched, events, armed,
                       queued, series, running, todo, excused>>
        /\ fired > 0 /\ fired' = fired - 1 /\ firing' = firing + 1 /\ ~entryArmed'
    BY <1>4 DEF FireForget, fsVars, procVars, watchVars, scanVars
  <2>2. firing' \in Nat /\ fired' \in Nat /\ firing' > 0
    BY <2>1 DEF IInv, Counts
  <2>. QED
    BY <2>1, <2>2 DEF IInv, Counts, WatchesAll, NoForgottenChange, WillBeSeen
<1>5. CASE FireOff \/ FireSkip
  <2>1. /\ UNCHANGED <<made, disk, present, index, up, resume, synced, watched, events, entryArmed,
                       armed, fired, queued, series, running, todo>>
        /\ firing > 0 /\ firing' = firing - 1 /\ excused \subseteq excused'
        /\ \A d \in Stale : d \in excused' \/ (ScanActive /\ d \in Ahead)
    BY <1>5 DEF FireOff, FireSkip, fsVars, procVars, watchVars, scanVars
  <2>2. firing' \in Nat
    BY <2>1 DEF IInv, Counts
  <2>3. Stale' = Stale /\ (ScanActive' <=> ScanActive) /\ Ahead' = Ahead
    BY <2>1 DEF Stale, ScanActive, Ahead
  <2>4. NoForgottenChange'
    BY <2>1, <2>3 DEF NoForgottenChange, WillBeSeen
  <2>. QED
    BY <2>1, <2>2, <2>4 DEF IInv, Counts, WatchesAll
<1>6. CASE FireEnqueue
  <2>1. /\ UNCHANGED <<made, disk, present, index, up, synced, watched, events, entryArmed,
                       armed, fired, series, running, todo, excused>>
        /\ firing > 0 /\ firing' = firing - 1 /\ queued' = queued + 1
    BY <1>6 DEF FireEnqueue, fsVars, procVars, watchVars
  <2>2. firing' \in Nat /\ queued' \in Nat /\ queued' > 0
    BY <2>1 DEF IInv, Counts
  <2>3. Stale' = Stale /\ Stale \subseteq Dir
    BY <2>1, StaleIsMade DEF Stale, IInv
  <2>4. NoForgottenChange'
    BY <2>2, <2>3 DEF NoForgottenChange, WillBeSeen, ScanActive, Ahead
  <2>. QED
    BY <2>1, <2>2, <2>4 DEF IInv, Counts, WatchesAll
<1>. QED
  BY <1>1, <1>2, <1>3, <1>4, <1>5, <1>6 DEF Watcher

(* A scan looks at no less than it has yet to look at. *)
LEMMA ScannerKeeps == ASSUME IInv, Scanner PROVE IInv'
<1>. Root \in Dir /\ Sub \subseteq Dir /\ Stale \subseteq made /\ Stale \subseteq Dir /\ Root \notin Sub
  BY StaleIsMade, BoundsAssumption DEF IInv
<1>1. CASE StartScan
  <2>1. /\ UNCHANGED <<made, disk, present, index, up, resume, synced, watched, events, entryArmed,
                       armed, fired, firing, series, excused>>
        /\ queued > 0 /\ queued' = queued - 1 /\ todo' = {Root} /\ running'
    BY <1>1 DEF StartScan, fsVars, procVars, watchVars, timerVars
  <2>2. queued' \in Nat /\ Stale' = Stale
    BY <2>1 DEF IInv, Counts, Stale
  <2>3. NoForgottenChange'
    BY <2>1, <2>2 DEF NoForgottenChange, WillBeSeen, ScanActive, Ahead
  <2>. QED
    BY <2>1, <2>2, <2>3 DEF IInv, Counts, WatchesAll
<1>2. ASSUME NEW d \in Dir, StartSeries(d) PROVE IInv'
  <2>1. /\ UNCHANGED <<made, disk, present, index, up, resume, synced, watched, events, entryArmed,
                       armed, fired, firing, queued, excused>>
        /\ d \in series /\ ~running /\ series' = series \ {d} /\ todo' = {d} /\ running'
    BY <1>2 DEF StartSeries, fsVars, procVars, watchVars, timerVars
  <2>2. todo = {} /\ Stale' = Stale
    BY <2>1 DEF IInv, WatchesAll, Stale
  <2>3. Ahead' = Ahead /\ ScanActive'
    BY <2>1, <2>2 DEF IInv, Counts, Ahead, ScanActive
  <2>4. NoForgottenChange'
    BY <2>1, <2>2, <2>3 DEF IInv, NoForgottenChange, WillBeSeen
  <2>. QED
    BY <2>1, <2>4 DEF IInv, Counts, WatchesAll
<1>3. ASSUME NEW d \in Dir, Visit(d) PROVE IInv'
  <2>1. /\ UNCHANGED <<made, disk, present, up, resume, synced, watched, events, entryArmed,
                       armed, fired, firing, queued, series, running>>
        /\ running /\ d \in todo /\ index' = [index EXCEPT ![d] = disk[d]] /\ excused' = excused \ {d}
        /\ todo' = (todo \ {d}) \cup (IF d = Root THEN made \ {Root} ELSE {})
    BY <1>3 DEF Visit, fsVars, procVars, watchVars, timerVars
  <2>2. index' \in [Dir -> Nat] /\ Stale' \subseteq Stale \ {d}
    BY <2>1 DEF IInv, Counts, Stale
  <2>3. ScanActive' /\ \A q \in Stale' : q \in Ahead => q \in Ahead'
    BY <2>1, <2>2 DEF ScanActive, Ahead
  <2>4. NoForgottenChange'
    BY <2>1, <2>2, <2>3 DEF IInv, NoForgottenChange, WillBeSeen
  <2>. QED
    BY <2>1, <2>2, <2>4 DEF IInv, Counts, WatchesAll
<1>4. CASE EndScan
  <2>1. /\ UNCHANGED <<made, disk, present, index, up, resume, synced, watched, events, entryArmed,
                       armed, fired, firing, queued, series, todo, excused>>
        /\ todo = {} /\ running /\ ~running'
    BY <1>4 DEF EndScan, fsVars, procVars, watchVars, timerVars
  <2>2. Stale' = Stale /\ Ahead' = Ahead /\ \A d \in Ahead : ScanActive'
    BY <2>1 DEF Stale, Ahead, ScanActive
  <2>3. NoForgottenChange'
    BY <2>1, <2>2 DEF IInv, NoForgottenChange, WillBeSeen
  <2>. QED
    BY <2>1, <2>3 DEF IInv, Counts, WatchesAll
<1>. QED
  BY <1>1, <1>2, <1>3, <1>4 DEF Scanner

(* People: a scan asked for looks at more, one aborted lets go. *)
LEMMA UserKeeps == ASSUME IInv, User PROVE IInv'
<1>. Root \in Dir /\ Sub \subseteq Dir /\ Stale \subseteq made /\ Stale \subseteq Dir
  BY StaleIsMade DEF IInv
<1>1. CASE AddLibrary
  <2>1. /\ UNCHANGED <<made, disk, index, up, resume, synced, watched, events, entryArmed,
                       armed, fired, firing, queued, series, running, todo, excused>>
        /\ up /\ ~present
    BY <1>1 DEF AddLibrary, fsVars, procVars, watchVars, timerVars, scanVars
  <2>2. ~synced
    BY <2>1 DEF IInv, WatchesAll
  <2>. QED
    BY <2>1, <2>2 DEF IInv, Counts, WatchesAll, NoForgottenChange, WillBeSeen
<1>2. CASE Toggle
  <2>1. UNCHANGED <<made, disk, present, index, up, resume, synced, watched, events, entryArmed,
                    armed, fired, firing, queued, series, running, todo, excused>>
    BY <1>2 DEF Toggle, fsVars, watchVars, timerVars, scanVars
  <2>. QED
    BY <2>1 DEF IInv, Counts, WatchesAll, NoForgottenChange, Stale, WillBeSeen, ScanActive, Ahead
<1>3. ASSUME ManualScan \/ \E d \in Dir : SeriesScan(d) PROVE IInv'
  <2>1. /\ UNCHANGED <<made, disk, present, index, up, resume, synced, watched, events, entryArmed,
                       armed, fired, firing, running, todo, excused>>
        /\ queued' \in {queued, queued + 1} /\ series \subseteq series' /\ series' \subseteq Sub
    BY <1>3 DEF ManualScan, SeriesScan, fsVars, procVars, watchVars, timerVars, IInv, Counts
  <2>2. queued' \in Nat /\ Stale' = Stale /\ (queued > 0 => queued' > 0)
    BY <2>1 DEF IInv, Counts, Stale
  <2>3. (ScanActive => ScanActive') /\ \A d \in Stale : d \in Ahead => d \in Ahead'
    BY <2>1, <2>2 DEF ScanActive, Ahead
  <2>4. NoForgottenChange'
    BY <2>1, <2>2, <2>3 DEF IInv, NoForgottenChange, WillBeSeen
  <2>. QED
    BY <2>1, <2>2, <2>4 DEF IInv, Counts, WatchesAll
<1>4. CASE AbortScan
  <2>1. /\ UNCHANGED <<made, disk, present, index, up, resume, synced, watched, events, entryArmed,
                       armed, fired, firing>>
        /\ excused' = excused \cup Stale
        /\ queued' = queued \/ (queued > 0 /\ queued' = queued - 1)
        /\ series' = series \/ series' = {}
        /\ \/ ~running' /\ todo' = {}
           \/ UNCHANGED <<running, todo>>
    BY <1>4 DEF AbortScan, fsVars, procVars, watchVars, timerVars
  <2>2. queued' \in Nat /\ Stale' = Stale
    BY <2>1 DEF IInv, Counts, Stale
  <2>. QED
    BY <2>1, <2>2 DEF IInv, Counts, WatchesAll, NoForgottenChange
<1>. QED
  BY <1>1, <1>2, <1>3, <1>4 DEF User

LEMMA NextIInv == IInv /\ [Next]_vars => IInv'
<1>. SUFFICES ASSUME IInv, [Next]_vars PROVE IInv'
  OBVIOUS
<1>1. CASE UNCHANGED vars
  BY <1>1 DEF vars, fsVars, procVars, watchVars, timerVars, scanVars, IInv, Counts, WatchesAll,
              NoForgottenChange, Stale, WillBeSeen, ScanActive, Ahead
<1>. QED
  BY <1>1, DiskKeeps, ProcessKeeps, WatcherKeeps, ScannerKeeps, UserKeeps DEF Next

(* A change of a library that is watched (watch.go) is in the index, will  *)
(* be looked at, or was let go where the code lets it go.                  *)
THEOREM ChangesAreRemembered == Spec => []NoForgottenChange
<1>1. IInv => NoForgottenChange
  BY DEF IInv
<1>. QED
  BY <1>1, InitIInv, NextIInv, PTL DEF Spec
=============================================================================
