--------------------------- MODULE UserStateProofs ---------------------------
(***************************************************************************)
(* What a scan of MediaReconcile makes of the users' state: proofs that    *)
(* relinkMovedFiles brings the progress and the match of a file to its new *)
(* row, for every library, disk and show folder.                           *)
(*                                                                         *)
(* The argument.  A scan stats each row, pairs the rows without a file     *)
(* with the rows of new files by size and mtime, copies the state and      *)
(* deletes what is missing; the disk and the users go on meanwhile.  Of a  *)
(* safe file (one the design may not lose) the state is on some row at     *)
(* every moment (StateIsSomewhere) and no row has another.  Such a file    *)
(* does not move under a scan, so that by the time rows are paired its     *)
(* home has been walked (WalkedAreOwned), survives (HomesSurvive) and is   *)
(* paired with its one old row and no other (MovedIsAlone); what is        *)
(* deleted has therefore given its state away (StateArrives).              *)
(***************************************************************************)
EXTENDS MediaReconcileProofs

-----------------------------------------------------------------------------
(* Where the state of a file is.  A file is safe while it is on the disk   *)
(* and the design may not lose its state; a file is calm while one with    *)
(* its signature is safe.                                                  *)

Present(c) == \E p \in Path : disk[p] = c

Safe(c) == c \in Content /\ c \notin gap /\ Present(c)

Calm(e) == e \in Content /\ \E c \in Content : Safe(c) /\ sigOf[c] = sigOf[e]

\* A row that has the whole state of c.
Good(p, c) ==
    /\ p \in RowsOf(c) /\ row[p].prog = said[c]
    /\ c \in known => row[p].matched /\ p \notin ExtraPath

DiskOnce == \A p, q \in Path : disk[p] # None /\ disk[p] = disk[q] => p = q

RowFacts ==
    \A p \in Rows : /\ row[p].sig = sigOf[owner[p]]
                    /\ row[p].extra = (HasExtras /\ p \in ExtraPath)

KnownFacts ==
    /\ known # {} => HasMatch
    /\ \A p \in ExtraPath : disk[p] \notin known

\* A file that came to the row of another took both out of safety.
OwnersInPlace ==
    \A p \in Rows : disk[p] \notin {None, owner[p]} => {disk[p], owner[p]} \subseteq gap

\* Each safe file has a row with its state, and no row with another.
StateIsSomewhere ==
    \A c \in Content : Safe(c) =>
        /\ \A p \in RowsOf(c) : row[p].prog \in {None, said[c]}
        /\ \E p \in RowsOf(c) : Good(p, c)

CalmArePresent == \A e \in Content : Calm(e) => Present(e)

TwinsStay ==
    \A c \in Content : Safe(c) /\ Twins(c) # {} => \A p \in RowsOf(c) : disk[p] = c

\* During a scan.
SafeIsMounted == Scanning /\ gap # Content => mounted \/ dark

HomeInScope ==
    Scanning => \A e \in Content : \A p \in RowsOf(e) \cap scope :
                    Calm(e) /\ disk[p] # e => \E r \in scope : disk[r] = e

OneAway ==
    Scanning => \A c \in Content : Safe(c) =>
                    \A p, q \in RowsOf(c) : disk[p] # c /\ disk[q] # c => p = q

WalkedAreOwned ==
    Scanning /\ mounted =>
        \A r \in scope : Calm(disk[r]) /\ (pc = "walk" => r \notin todo) =>
            r \in Rows /\ owner[r] = disk[r]

HomesSurvive ==
    Moving => \A r \in scope : Calm(disk[r]) =>
                  /\ r \in survivors \/ (pc = "stat" /\ r \in todo)
                  /\ r \notin orphans

SurvivorsAreHome ==
    Moving => \A p \in survivors : Safe(owner[p]) => disk[p] = owner[p]

AwayAreOrphans ==
    Moving => \A c \in Content : Safe(c) =>
                  \A p \in RowsOf(c) \cap scope :
                      disk[p] # c => p \in orphans \/ (pc = "stat" /\ p \in todo)

StateArrives ==
    pc \in {"transfer", "check", "delete"} =>
        \A c \in Content : Safe(c) =>
            \A p \in RowsOf(c) \cap scope : \A q \in Path :
                Good(p, c) /\ disk[q] = c => Good(q, c) \/ (pc = "transfer" /\ p \in todo)

StaleAreNotCalm == Scanning => \A p \in stale : ~Calm(disk[p])

\* What holds between the steps of any scan.
Places == DiskOnce /\ RowFacts /\ KnownFacts /\ OwnersInPlace /\ CalmArePresent /\ TwinsStay

\* What a running scan knows of the safe files.
Course ==
    /\ SafeIsMounted /\ HomeInScope /\ OneAway /\ WalkedAreOwned
    /\ HomesSurvive /\ SurvivorsAreHome /\ AwayAreOrphans
    /\ StateArrives /\ StaleAreNotCalm

UInv == IInv /\ Places /\ StateIsSomewhere /\ Course

-----------------------------------------------------------------------------
(* Safety is only lost.                                                    *)

LEMMA GapGrows ==
    ASSUME [Next]_vars
    PROVE  gap \subseteq gap'
PROOF
  <1>1. ASSUME NEW p \in Path, Writes(p) PROVE gap \subseteq gap'
    BY <1>1 DEF Writes
  <1>2. ASSUME NEW p \in Path, NEW done \in BOOLEAN, Users(p, done)
        PROVE  gap \subseteq gap'
    BY <1>1, <1>2 DEF Users, TVPlaybackProgress, MoviePlaybackProgress,
       PhotoPlaybackProgress, BookReadingProgress, AudiobookPlaybackProgress,
       TVMarkWatched, MovieMarkWatched, Match, Reports, MarkWatched
  <1>3. ASSUME NEW lost, Changes(lost) PROVE gap \subseteq gap'
    BY <1>3 DEF Changes
  <1>4. ASSUME NEW s \in {Path} \cup ShowDir, StartScan(s) PROVE gap \subseteq gap'
    BY <1>4 DEF StartScan
  <1>5. ASSUME ScannerStep \/ Abort PROVE gap' = gap
    BY <1>5 DEF ScannerStep, Abort, Visit, RelinkStat, Transfer, PruneStat, EndWalkEmpty,
       EndWalk, EndStat, EndTransfer, EndCheck, EndScan, PruneTVFiles, PruneMovieFiles,
       PrunePhotos, PruneBook, PruneAudiobook, DeleteRows, history
  <1>6. ASSUME NEW p \in Path, NEW done \in BOOLEAN,
               \/ TVPlaybackProgress(p, done) \/ MoviePlaybackProgress(p, done)
               \/ PhotoPlaybackProgress(p, done)
               \/ BookReadingProgress(p, done) \/ AudiobookPlaybackProgress(p, done)
               \/ TVMarkWatched(p, done) \/ MovieMarkWatched(p, done)
        PROVE  gap \subseteq gap'
    BY <1>2, <1>6 DEF Users
  <1>7. ASSUME NEW p \in Path, Match(p) \/ Delete(p) PROVE gap \subseteq gap'
    BY <1>2, <1>3, <1>7 DEF Users, Delete
  <1>8. ASSUME NEW p \in Path, NEW q \in Path, Move(p, q) PROVE gap \subseteq gap'
    BY <1>3, <1>8 DEF Move
  <1>9. ASSUME Remount PROVE gap \subseteq gap'
    BY <1>3, <1>9 DEF Remount
  <1>10. ASSUME UNCHANGED vars PROVE gap \subseteq gap'
    BY <1>10 DEF vars, history
  <1> QED
    BY <1>4, <1>5, <1>6, <1>7, <1>8, <1>9, <1>10 DEF Next

\* The disk changes by a move, a removal or a mount, or not at all.
DiskOf(p, q) ==
    \/ Move(p, q) /\ disk' = [disk EXCEPT ![p] = None, ![q] = disk[p]]
    \/ Delete(p) /\ disk' = [disk EXCEPT ![p] = None]

LEMMA DiskMoves ==
    ASSUME [Next]_vars
    PROVE  \/ \E p, q \in Path : DiskOf(p, q)
           \/ Remount /\ UNCHANGED disk
           \/ UNCHANGED diskVars
PROOF
  <1>1. ASSUME NEW p \in Path, Match(p) PROVE UNCHANGED diskVars
    BY <1>1, UsersWriteRows DEF Users
  <1>2. ASSUME NEW p \in Path, Delete(p) PROVE DiskOf(p, p)
    BY <1>2 DEF Delete, DiskOf
  <1>3. ASSUME NEW p \in Path, NEW q \in Path, Move(p, q) PROVE DiskOf(p, q)
    BY <1>3 DEF Move, DiskOf
  <1>4. ASSUME Remount PROVE UNCHANGED disk
    BY <1>4 DEF Remount
  <1>5. ASSUME UNCHANGED vars PROVE UNCHANGED diskVars
    BY <1>5 DEF vars
  <1>6. ASSUME NEW s \in {Path} \cup ShowDir, StartScan(s) PROVE UNCHANGED diskVars
    BY <1>6 DEF StartScan
  <1>7. ASSUME ScannerStep \/ Abort PROVE UNCHANGED diskVars
    BY <1>7, ScannerFrame
  <1>8. ASSUME NEW p \in Path, NEW done \in BOOLEAN,
               \/ TVPlaybackProgress(p, done) \/ MoviePlaybackProgress(p, done)
               \/ PhotoPlaybackProgress(p, done)
               \/ BookReadingProgress(p, done) \/ AudiobookPlaybackProgress(p, done)
               \/ TVMarkWatched(p, done) \/ MovieMarkWatched(p, done)
        PROVE  UNCHANGED diskVars
    BY <1>8, UsersWriteRows DEF Users
  <1> QED
    BY <1>1, <1>2, <1>3, <1>4, <1>5, <1>6, <1>7, <1>8 DEF Next

LEMMA NothingComesBack ==
    ASSUME Base, [Next]_vars, NEW c \in Content, Present(c)'
    PROVE  Present(c)
PROOF
  <1>1. PICK r \in Path : disk'[r] = c
    BY DEF Present
  <1>2. c # None
    BY NoneAssumption
  <1>3. ASSUME NEW p \in Path, NEW q \in Path, DiskOf(p, q)
        PROVE  disk[r] = c \/ disk[p] = c
    BY <1>1, <1>2, <1>3 DEF DiskOf, Base, TypeOK
  <1> QED
    BY <1>1, <1>3, DiskMoves DEF Present, diskVars

LEMMA SafeBefore ==
    ASSUME Base, [Next]_vars, NEW c, Safe(c)'
    PROVE  Safe(c)
PROOF BY GapGrows, NothingComesBack DEF Safe

LEMMA CalmBefore ==
    ASSUME Base, [Next]_vars, NEW e, Calm(e)'
    PROVE  Calm(e)
PROOF
  <1>1. PICK c \in Content : Safe(c)' /\ sigOf'[c] = sigOf'[e]
    BY DEF Calm
  <1>2. Safe(c) /\ sigOf' = sigOf /\ e \in Content
    BY <1>1, SafeBefore, DiskTypesKept DEF Calm, fixed
  <1> QED
    BY <1>1, <1>2 DEF Calm

LEMMA SafeIsCalm ==
    ASSUME NEW c, Safe(c)
    PROVE  Calm(c)
PROOF BY DEF Safe, Calm

\* A file that stays calm under a scan stays where it is.
LEMMA CalmStaysPut ==
    ASSUME Base, DiskOnce, [Next]_vars, Scanning, NEW e, Calm(e)'
    PROVE  /\ mounted' = mounted
           /\ \A p \in Path : disk'[p] = e <=> disk[p] = e
PROOF
  <1>1. PICK c \in Content : Safe(c)' /\ sigOf'[c] = sigOf'[e]
    BY DEF Calm
  <1>2. e \in Content /\ e # None /\ sigOf'[c] = sigOf[c] /\ sigOf'[e] = sigOf[e]
    BY NoneAssumption, DiskTypesKept DEF Calm, fixed
  <1>3. c = e \/ c \in Twins(e)
    BY <1>1, <1>2 DEF Twins
  <1>4. c \notin gap' /\ Present(c)'
    BY <1>1 DEF Safe
  <1>5. ASSUME NEW p \in Path, NEW q \in Path, Move(p, q)
        PROVE  mounted' = mounted /\ \A r \in Path : disk'[r] = e <=> disk[r] = e
    <2>1. disk' = [disk EXCEPT ![p] = None, ![q] = disk[p]] /\ mounted' = mounted
          /\ disk[q] = None
      BY <1>5 DEF Move
    <2>2. {disk[p]} \cup Twins(disk[p]) \subseteq gap'
      BY <1>5 DEF Move, Changes
    <2>3. disk[p] # e
      BY <1>3, <1>4, <2>2
    <2> QED
      BY <1>2, <2>1, <2>3 DEF Base, TypeOK
  <1>6. ASSUME NEW p \in Path, Delete(p)
        PROVE  mounted' = mounted /\ \A r \in Path : disk'[r] = e <=> disk[r] = e
    <2>1. disk' = [disk EXCEPT ![p] = None] /\ mounted' = mounted /\ disk[p] # None
      BY <1>6 DEF Delete
    <2>2. Twins(disk[p]) \subseteq gap'
      BY <1>6 DEF Delete, Changes
    <2>3. disk[p] # c
      <3> SUFFICES ASSUME disk[p] = c PROVE FALSE
        OBVIOUS
      <3>1. PICK r \in Path : disk'[r] = c
        BY <1>4 DEF Present
      <3>2. r # p /\ disk[r] = c
        BY <2>1, <3>1, NoneAssumption DEF Base, TypeOK
      <3> QED
        BY <3>2, NoneAssumption DEF DiskOnce
    <2>4. disk[p] # e
      BY <1>3, <1>4, <2>2, <2>3
    <2> QED
      BY <1>2, <2>1, <2>4 DEF Base, TypeOK
  <1>7. ASSUME Remount PROVE FALSE
    <2>1. Content \subseteq gap'
      BY <1>7 DEF Remount, Changes
    <2> QED
      BY <1>4, <2>1
  <1>8. ASSUME NEW p \in Path, NEW q \in Path, DiskOf(p, q)
        PROVE  mounted' = mounted /\ \A r \in Path : disk'[r] = e <=> disk[r] = e
    BY <1>5, <1>6, <1>8 DEF DiskOf
  <1> QED
    BY <1>7, <1>8, DiskMoves DEF diskVars

-----------------------------------------------------------------------------
(* What the steps do to the state in the rows.                             *)

\* Steps of the scanner that only look, or end a phase.
Looks ==
    \/ \E p \in Path : RelinkStat(p) \/ PruneStat(p)
    \/ EndWalkEmpty \/ EndStat \/ EndTransfer \/ EndCheck \/ EndScan \/ Abort

LEMMA LooksLeave ==
    ASSUME Looks
    PROVE  UNCHANGED <<fixed, diskVars, row, owner, said, known, gap, scope>>
PROOF BY DEF Looks, RelinkStat, PruneStat, EndWalkEmpty, EndStat, EndTransfer, EndCheck,
         EndScan, Abort, history

LEMMA Moments ==
    ASSUME [Next]_vars
    PROVE  \/ \E s \in {Path} \cup ShowDir : StartScan(s)
           \/ \E p \in Path : Visit(p)
           \/ EndWalk
           \/ \E o \in Path : Transfer(o)
           \/ \E gone \in SUBSET stale : DeleteRows(gone)
           \/ Looks
           \/ \E p \in Path, done \in BOOLEAN : Users(p, done)
           \/ \E p, q \in Path : DiskOf(p, q)
           \/ Remount
           \/ UNCHANGED vars
PROOF
  <1>1. ASSUME NEW p \in Path, Match(p) PROVE Users(p, TRUE)
    BY <1>1 DEF Users
  <1>2. ASSUME NEW p \in Path, Delete(p) PROVE DiskOf(p, p)
    BY <1>2 DEF Delete, DiskOf
  <1>3. ASSUME NEW p \in Path, NEW q \in Path, Move(p, q) PROVE DiskOf(p, q)
    BY <1>3 DEF Move, DiskOf
  <1>4. ASSUME PruneTVFiles \/ PruneMovieFiles \/ PrunePhotos PROVE DeleteRows(stale)
    BY <1>4 DEF PruneTVFiles, PruneMovieFiles, PrunePhotos
  <1>5. ASSUME NEW p \in Path, PruneBook(p) \/ PruneAudiobook(p)
        PROVE  {p} \in SUBSET stale /\ DeleteRows({p})
    BY <1>5 DEF PruneBook, PruneAudiobook
  <1>6. ASSUME NEW p \in Path, NEW done \in BOOLEAN,
               \/ TVPlaybackProgress(p, done) \/ MoviePlaybackProgress(p, done)
               \/ PhotoPlaybackProgress(p, done)
               \/ BookReadingProgress(p, done) \/ AudiobookPlaybackProgress(p, done)
               \/ TVMarkWatched(p, done) \/ MovieMarkWatched(p, done)
        PROVE  Users(p, done)
    BY <1>6 DEF Users
  <1>7. ASSUME ScannerStep
        PROVE  \/ \E p \in Path : Visit(p)
               \/ EndWalk
               \/ \E o \in Path : Transfer(o)
               \/ \E gone \in SUBSET stale : DeleteRows(gone)
               \/ Looks
    BY <1>4, <1>5, <1>7 DEF ScannerStep, Looks
  <1>8. ASSUME Abort PROVE Looks
    BY <1>8 DEF Looks
  <1> QED
    BY <1>1, <1>2, <1>3, <1>6, <1>7, <1>8 DEF Next

LEMMA DiskLeaves ==
    ASSUME NEW p \in Path, NEW q \in Path, DiskOf(p, q) \/ Remount
    PROVE  UNCHANGED <<fixed, row, scanner, owner, said>> /\ known' \subseteq known
PROOF BY DEF DiskOf, Move, Delete, Remount, Changes

\* A report, a mark or a match of the file of row p.
Wrote(p) ==
    /\ p \in Rows
    /\ gap' = IF RowsOf(owner[p]) = {p} THEN gap ELSE gap \cup {owner[p]}
    /\ row' = [row EXCEPT ![p] = row'[p]]
    /\ row'[p] # None
    /\ row'[p].sig = row[p].sig
    /\ row'[p].extra = row[p].extra
    /\ row[p].matched => row'[p].matched
    /\ row[p].prog = said[owner[p]] => row'[p].prog = said'[owner[p]]
    /\ \A c \in Content : c # owner[p] => said'[c] = said[c]
    /\ known \subseteq known'
    /\ \A c \in known' : c \notin known =>
           /\ c = owner[p] /\ row'[p].matched /\ p \notin ExtraPath
           /\ HasMatch /\ \A q \in ExtraPath : disk[q] # c

LEMMA UsersWrote ==
    ASSUME Base, RowFacts, NEW p \in Path, NEW done \in BOOLEAN, Users(p, done)
    PROVE  Wrote(p)
PROOF
  <1> DEFINE w == /\ p \in Rows
                  /\ gap' = IF RowsOf(owner[p]) = {p} THEN gap ELSE gap \cup {owner[p]}
  <1>1. ASSUME Writes(p) PROVE w
    BY <1>1 DEF Writes
  <1>2. ASSUME p \in Rows
        PROVE  row[p] \in Row /\ row[p] # None /\ owner[p] \in Content
    BY <1>2, RowFields DEF Base, RowsAreOwned, Rows
  <1>3. row \in [Path -> Row \cup {None}] /\ said \in [Content -> Progress]
    BY DEF Base, TypeOK
  <1>4. ASSUME NEW g \in Progress, p \in Rows,
               row' = [row EXCEPT ![p] = [row[p] EXCEPT !.prog = g]]
        PROVE  /\ row' = [row EXCEPT ![p] = row'[p]]
               /\ row'[p] # None /\ row'[p].sig = row[p].sig
               /\ row'[p].extra = row[p].extra /\ row'[p].matched = row[p].matched
               /\ row'[p].prog = g
    <2> DEFINE new == [row[p] EXCEPT !.prog = g]
    <2>1. new \in Row /\ new.sig = row[p].sig /\ new.extra = row[p].extra
          /\ new.matched = row[p].matched /\ new.prog = g
      BY <1>2, <1>4 DEF Row
    <2>2. new # None
      BY <2>1, NoneIsNoRow DEF Base
    <2> HIDE DEF new
    <2>3. row' = [row EXCEPT ![p] = new]
      BY <1>4 DEF new
    <2>4. row'[p] = new
      BY <1>3, <2>3
    <2> QED
      BY <2>1, <2>2, <2>3, <2>4
  <1>5. ASSUME Reports(p, done) PROVE Wrote(p)
    <2>1. p \in Rows /\ w /\ known' = known
          /\ row' = [row EXCEPT ![p] = [row[p] EXCEPT !.prog = Reported(row[p].prog, done)]]
          /\ said' = [said EXCEPT ![owner[p]] = Reported(said[owner[p]], done)]
      BY <1>1, <1>5 DEF Reports, Writes
    <2>2. Reported(row[p].prog, done) \in Progress
      BY <1>2, <2>1, ReportedProgress DEF Row
    <2>3. said'[owner[p]] = Reported(said[owner[p]], done)
      BY <1>2, <1>3, <2>1
    <2>4. \A c \in Content : c # owner[p] => said'[c] = said[c]
      BY <1>3, <2>1
    <2> QED
      BY <1>4, <2>1, <2>2, <2>3, <2>4 DEF Wrote
  <1>6. ASSUME MarkWatched(p, done) PROVE Wrote(p)
    <2> DEFINE g == [pos |-> 0, done |-> done]
    <2>1. p \in Rows /\ w /\ known' = known
          /\ row' = [row EXCEPT ![p] = [row[p] EXCEPT !.prog = g]]
          /\ said' = [said EXCEPT ![owner[p]] = g]
      BY <1>1, <1>6 DEF MarkWatched, Writes
    <2>2. g \in Progress
      BY MarkedProgress
    <2> HIDE DEF g
    <2>3. said'[owner[p]] = g
      BY <1>2, <1>3, <2>1
    <2>4. \A c \in Content : c # owner[p] => said'[c] = said[c]
      BY <1>3, <2>1
    <2> QED
      BY <1>4, <2>1, <2>2, <2>3, <2>4 DEF Wrote
  <1>7. ASSUME Match(p) PROVE Wrote(p)
    <2>1. p \in Rows /\ w /\ said' = said /\ HasMatch /\ ~row[p].extra
          /\ row' = [row EXCEPT ![p] = [row[p] EXCEPT !.matched = TRUE]]
          /\ known' = known \cup ({owner[p]} \ {disk[q] : q \in ExtraPath})
      BY <1>1, <1>7 DEF Match, Writes
    <2> DEFINE new == [row[p] EXCEPT !.matched = TRUE]
    <2>2. new \in Row /\ new.sig = row[p].sig /\ new.extra = row[p].extra
          /\ new.matched = TRUE /\ new.prog = row[p].prog
      BY <1>2, <2>1 DEF Row
    <2>3. new # None
      BY <2>2, NoneIsNoRow DEF Base
    <2>4. p \notin ExtraPath
      BY <2>1 DEF RowFacts, HasMatch, HasExtras
    <2>5. row' = [row EXCEPT ![p] = new]
      BY <2>1
    <2> HIDE DEF new
    <2>6. row'[p] = new
      BY <1>3, <2>5
    <2>7. \A c \in known' : c \notin known =>
              c = owner[p] /\ \A q \in ExtraPath : disk[q] # c
      BY <2>1
    <2>8. known \subseteq known'
      BY <2>1
    <2> HIDE DEF w
    <2>9. row'[p].matched /\ row'[p] # None /\ row'[p].sig = row[p].sig
          /\ row'[p].extra = row[p].extra /\ row'[p].prog = row[p].prog
          /\ row' = [row EXCEPT ![p] = row'[p]]
      BY <2>2, <2>3, <2>5, <2>6
    <2> QED
      BY <2>1, <2>4, <2>7, <2>8, <2>9 DEF Wrote, w
  <1> QED
    BY <1>5, <1>6, <1>7 DEF Users, TVPlaybackProgress, MoviePlaybackProgress,
       PhotoPlaybackProgress, BookReadingProgress, AudiobookPlaybackProgress,
       TVMarkWatched, MovieMarkWatched

\* What a transfer makes of the state of one file.
LEMMA CarriedState ==
    ASSUME kind \in Kinds, NEW from \in Row, NEW to \in Row, NEW g \in Progress,
           from.prog \in {None, g}, to.prog \in {None, g}
    PROVE  /\ Carried(from, to).prog \in {None, g}
           /\ from.prog = g \/ to.prog = g => Carried(from, to).prog = g
           /\ to.matched => Carried(from, to).matched
           /\ HasMatch /\ from.matched => Carried(from, to).matched
PROOF
  <1>1. Overwritten(from.prog, to.prog) = IF from.prog = None THEN to.prog ELSE g
    BY DEF Overwritten
  <1>2. Merged(from.prog, to.prog) = IF from.prog = None THEN to.prog ELSE g
    <2>1. CASE from.prog = None
      BY <2>1 DEF Merged
    <2>2. CASE from.prog # None
      <3>1. from.prog = g /\ g \in [pos : {0, 1}, done : BOOLEAN] /\ g # None
        BY <2>2 DEF Progress
      <3>2. (g.done \/ Done(to.prog)) = g.done
        BY <3>1 DEF Done
      <3>3. [g EXCEPT !.done = g.done] = g
        BY <3>1
      <3>4. Merged(from.prog, to.prog) = [g EXCEPT !.done = g.done \/ Done(to.prog)]
        BY <2>2, <3>1 DEF Merged
      <3> QED
        BY <2>2, <3>2, <3>3, <3>4
    <2> QED
      BY <2>1, <2>2
  <1> DEFINE h == IF from.prog = None THEN to.prog ELSE g
             m == to.matched \/ from.matched
  <1>3. h \in Progress /\ h \in {None, g} /\ (from.prog = g \/ to.prog = g => h = g)
    BY DEF Progress
  <1>4. to.matched \in BOOLEAN /\ from.matched \in BOOLEAN
    BY DEF Row
  <1>5. m \in BOOLEAN /\ (to.matched => m) /\ (from.matched => m)
    BY <1>4
  <1>6. CASE kind \in {"tv", "movie"}
    <2>1. Carried(from, to) = [to EXCEPT !.matched = m, !.prog = h]
      BY <1>1, <1>6 DEF Carried, TransferTVState, TransferMovieState
    <2> HIDE DEF h, m
    <2> DEFINE new == [to EXCEPT !.matched = m, !.prog = h]
    <2>2. new.matched = m /\ new.prog = h
      BY <1>3, <1>5 DEF Row
    <2>3. Carried(from, to) = new
      BY <2>1
    <2> HIDE DEF new
    <2> QED
      BY <1>3, <1>5, <2>2, <2>3
  <1>7. CASE kind \in {"photo", "book", "audiobook"}
    <2>1. Carried(from, to) = [to EXCEPT !.prog = h] /\ ~HasMatch
      BY <1>1, <1>2, <1>7 DEF Carried, TransferPhotoState, RelinkBook, RelinkAudiobook,
         HasMatch
    <2> HIDE DEF h, m
    <2> DEFINE new == [to EXCEPT !.prog = h]
    <2>2. new.matched = to.matched /\ new.prog = h
      BY <1>3 DEF Row
    <2>3. Carried(from, to) = new
      BY <2>1
    <2> HIDE DEF new
    <2> QED
      BY <1>3, <2>1, <2>2, <2>3
  <1> QED
    BY <1>6, <1>7 DEF Kinds

-----------------------------------------------------------------------------
(* Which rows there are, and where the files are.                          *)

Visited(p) ==
    /\ Visit(p) /\ OnDisk(p)
    /\ Rows' = Rows \cup {p}
    /\ \A q \in Path : owner'[q] = IF q = p THEN disk[p] ELSE owner[q]
    /\ \A q \in Path : q # p => row'[q] = row[q]
    /\ UNCHANGED <<fixed, diskVars, said, known, gap, scope>>

Pruned(gone) ==
    /\ DeleteRows(gone)
    /\ Rows' = Rows \ gone
    /\ \A q \in Rows \ gone : row'[q] = row[q]
    /\ UNCHANGED <<fixed, diskVars, owner, said, known, gap, scope>>

SameRowSet == Rows' = Rows /\ owner' = owner

LEMMA VisitedRows ==
    ASSUME Base, NEW p \in Path, Visit(p)
    PROVE  Visited(p) \/ (~OnDisk(p) /\ UNCHANGED <<row, owner>>)
PROOF
  <1>1. CASE OnDisk(p) /\ row' = [row EXCEPT ![p] = Scanned(p, row[p])]
             /\ owner' = [owner EXCEPT ![p] = disk[p]]
    <2> DEFINE new == Scanned(p, row[p])
    <2>1. new # None
      BY <1>1, ScannedRow DEF Base
    <2>2. row' = [row EXCEPT ![p] = new]
      BY <1>1
    <2> HIDE DEF new
    <2>3. Rows' = Rows \cup {p}
      BY <2>1, <2>2 DEF Base, TypeOK, Rows
    <2>4. \A q \in Path : q # p => row'[q] = row[q]
      BY <2>2 DEF Base, TypeOK
    <2>5. \A q \in Path : owner'[q] = IF q = p THEN disk[p] ELSE owner[q]
      BY <1>1 DEF Base, TypeOK
    <2> QED
      BY <1>1, <2>3, <2>4, <2>5 DEF Visited, Visit
  <1> QED
    BY <1>1 DEF Visit

LEMMA PrunedRows ==
    ASSUME Base, NEW gone, DeleteRows(gone)
    PROVE  Pruned(gone)
PROOF BY DEF Base, TypeOK, DeleteRows, Pruned, Rows, history

LEMMA EndWalkRows ==
    ASSUME Base, EndWalk
    PROVE  /\ SameRowSet
           /\ UNCHANGED <<fixed, diskVars, said, known, gap, scope>>
           /\ \A p \in Rows :
                /\ row'[p].prog = row[p].prog
                /\ row[p].matched => row'[p].matched \/ row[p].extra
PROOF
  <1>1. row' = ResetExtras \/ row' = row
    BY DEF EndWalk
  <1>2. owner' = owner /\ UNCHANGED <<fixed, diskVars, said, known, gap, scope>>
    BY DEF EndWalk, history
  <1>3. ASSUME NEW p \in Path, row[p] # None
        PROVE  /\ row'[p] # None /\ row'[p].prog = row[p].prog
               /\ row[p].matched => row'[p].matched \/ row[p].extra
    <2>1. row[p] \in Row
      BY <1>3, RowFields DEF Base
    <2>2. CASE row'[p] = [row[p] EXCEPT !.matched = FALSE] /\ row[p].extra
      <3> DEFINE new == [row[p] EXCEPT !.matched = FALSE]
      <3>1. new \in Row /\ new.prog = row[p].prog
        BY <2>1 DEF Row
      <3>2. new # None
        BY <3>1, NoneIsNoRow DEF Base
      <3>3. row'[p] = new
        BY <2>2
      <3> HIDE DEF new
      <3> QED
        BY <2>2, <3>1, <3>2, <3>3
    <2>3. CASE row'[p] = row[p]
      BY <1>3, <2>3
    <2>4. row'[p] = row[p] \/ (row'[p] = [row[p] EXCEPT !.matched = FALSE] /\ row[p].extra)
      BY <1>1, <1>3 DEF ResetExtras
    <2> QED
      BY <2>2, <2>3, <2>4
  <1>4. ASSUME NEW p \in Path, row[p] = None PROVE row'[p] = None
    BY <1>1, <1>4 DEF ResetExtras
  <1>5. Rows' = Rows
    BY <1>3, <1>4 DEF Rows
  <1> QED
    BY <1>2, <1>3, <1>5 DEF SameRowSet, Rows

LEMMA TransferRowSet ==
    ASSUME Base, NEW o \in Path, Transfer(o)
    PROVE  /\ SameRowSet
           /\ UNCHANGED <<fixed, diskVars, said, known, gap, scope>>
           /\ \E p \in survivors :
                /\ Paired(o, p) /\ p \in Rows /\ o \in Rows
                /\ row'[p] = Carried(row[o], row[p])
                /\ \A q \in Path : q # p => row'[q] = row[q]
PROOF
  <1>1. PICK p \in survivors : Paired(o, p) /\ row' = [row EXCEPT ![p] = Carried(row[o], row[p])]
    BY DEF Transfer
  <1>2. p \in Rows /\ o \in Rows
    BY DEF Transfer, Base, ListedAreRows, Moving
  <1>3. Carried(row[o], row[p]) \in Row
    BY <1>2, CarriedRow, RowFields DEF Base, TypeOK, Rows
  <1>4. Carried(row[o], row[p]) # None
    BY <1>3, NoneIsNoRow DEF Base
  <1>5. row'[p] = Carried(row[o], row[p]) /\ \A q \in Path : q # p => row'[q] = row[q]
    BY <1>1, <1>2 DEF Base, TypeOK, Rows
  <1>6. Rows' = Rows
    BY <1>2, <1>4, <1>5 DEF Rows
  <1> QED
    BY <1>1, <1>2, <1>5, <1>6 DEF SameRowSet, Transfer, history

LEMMA UsersRowSet ==
    ASSUME Base, RowFacts, NEW p \in Path, NEW done \in BOOLEAN, Users(p, done)
    PROVE  SameRowSet /\ Wrote(p)
PROOF
  <1>1. Wrote(p) /\ owner' = owner
    BY UsersWrote, UsersWriteRows
  <1>2. \A q \in Path : q # p => row'[q] = row[q]
    BY <1>1 DEF Wrote, Base, TypeOK
  <1>3. Rows' = Rows
    BY <1>1, <1>2 DEF Wrote, Rows
  <1> QED
    BY <1>1, <1>3 DEF SameRowSet

\* The rows change by a visit or a prune, or not at all.
LEMMA RowSets ==
    ASSUME Base, RowFacts, [Next]_vars
    PROVE  \/ SameRowSet
           \/ \E p \in Path : Visited(p)
           \/ \E gone \in SUBSET stale : Pruned(gone)
PROOF
  <1>1. ASSUME NEW s \in {Path} \cup ShowDir, StartScan(s) PROVE SameRowSet
    BY <1>1 DEF StartScan, SameRowSet, Rows
  <1>2. ASSUME NEW p \in Path, Visit(p) PROVE SameRowSet \/ Visited(p)
    BY <1>2, VisitedRows DEF SameRowSet, Rows
  <1>3. ASSUME EndWalk PROVE SameRowSet
    BY <1>3, EndWalkRows
  <1>4. ASSUME NEW o \in Path, Transfer(o) PROVE SameRowSet
    BY <1>4, TransferRowSet
  <1>5. ASSUME NEW gone \in SUBSET stale, DeleteRows(gone) PROVE Pruned(gone)
    BY <1>5, PrunedRows
  <1>6. ASSUME Looks PROVE SameRowSet
    BY <1>6, LooksLeave DEF SameRowSet, Rows
  <1>7. ASSUME NEW p \in Path, NEW done \in BOOLEAN, Users(p, done) PROVE SameRowSet
    BY <1>7, UsersRowSet
  <1>8. ASSUME NEW p \in Path, NEW q \in Path, DiskOf(p, q) PROVE SameRowSet
    BY <1>8, DiskLeaves DEF SameRowSet, Rows
  <1>9. ASSUME Remount PROVE SameRowSet
    BY <1>9, DiskLeaves, PathAssumption DEF SameRowSet, Rows, Remount, Changes
  <1>10. ASSUME UNCHANGED vars PROVE SameRowSet
    BY <1>10 DEF vars, history, SameRowSet, Rows
  <1> QED
    BY <1>1, <1>2, <1>3, <1>4, <1>5, <1>6, <1>7, <1>8, <1>9, <1>10, Moments

\* A safe file is not removed, and one with twins is not moved.
LEMMA SafeStays ==
    ASSUME Base, DiskOnce, NEW p \in Path, NEW q \in Path, DiskOf(p, q),
           NEW c, Safe(c)'
    PROVE  /\ disk[p] = c => Move(p, q) /\ Twins(c) = {} /\ ~Scanning
           /\ disk[p] # c => \A r \in Path : disk'[r] = c <=> disk[r] = c
PROOF
  <1>1. c \in Content /\ c # None /\ c \notin gap' /\ \E r \in Path : disk'[r] = c
    BY NoneAssumption DEF Safe, Present
  <1>2. CASE Move(p, q) /\ disk' = [disk EXCEPT ![p] = None, ![q] = disk[p]]
    <2>1. disk[q] = None
      BY <1>2 DEF Move
    <2>2. (IF Scanning \/ Twins(disk[p]) # {} THEN {disk[p]} ELSE {}) \subseteq gap'
      BY <1>2 DEF Move, Changes
    <2>3. disk[p] # c => \A r \in Path : disk'[r] = c <=> disk[r] = c
      BY <1>1, <1>2, <2>1 DEF Base, TypeOK
    <2> QED
      BY <1>1, <1>2, <2>2, <2>3
  <1>3. CASE Delete(p) /\ disk' = [disk EXCEPT ![p] = None]
    <2>1. disk[p] # c
      BY <1>1, <1>3 DEF DiskOnce, Base, TypeOK
    <2> QED
      BY <1>1, <1>3, <2>1 DEF Base, TypeOK
  <1> QED
    BY <1>2, <1>3 DEF DiskOf

-----------------------------------------------------------------------------
(* The places of files and rows.                                           *)

LEMMA DiskOnceKept ==
    ASSUME Base, DiskOnce, [Next]_vars
    PROVE  DiskOnce'
PROOF
  <1>1. ASSUME NEW p \in Path, NEW q \in Path, DiskOf(p, q) PROVE DiskOnce'
    BY <1>1 DEF DiskOf, Move, DiskOnce, Base, TypeOK
  <1> QED
    BY <1>1, DiskMoves DEF DiskOnce, diskVars

LEMMA RowFactsKept ==
    ASSUME Base, RowFacts, [Next]_vars
    PROVE  RowFacts'
PROOF
  <1>1. RowsStep /\ sigOf' = sigOf /\ HasExtras' = HasExtras
    BY StepKeepsRows, DiskTypesKept DEF fixed, HasExtras
  <1>2. ASSUME NEW p \in Path, row'[p] # None
        PROVE  /\ row'[p].sig = sigOf[owner'[p]]
               /\ row'[p].extra = (HasExtras /\ p \in ExtraPath)
    <2>1. Kept(p) \/ ScannedNow(p)
      BY <1>1, <1>2 DEF RowsStep, RowStep, PrunedNow
    <2> QED
      BY <1>2, <2>1 DEF Kept, ScannedNow, RowFacts, Rows
  <1> QED
    BY <1>1, <1>2 DEF RowFacts, Rows

LEMMA KnownFactsKept ==
    ASSUME Base, RowFacts, KnownFacts, [Next]_vars
    PROVE  KnownFacts'
PROOF
  <1>1. HasMatch' = HasMatch /\ None \notin known
    BY DiskTypesKept, NoneAssumption DEF fixed, HasMatch, Base, TypeOK
  <1>2. ASSUME UNCHANGED <<disk, known>> PROVE KnownFacts'
    BY <1>1, <1>2 DEF KnownFacts
  <1>3. ASSUME NEW s \in {Path} \cup ShowDir, StartScan(s) PROVE UNCHANGED <<disk, known>>
    BY <1>3 DEF StartScan, diskVars
  <1>4. ASSUME NEW p \in Path, Visit(p) PROVE UNCHANGED <<disk, known>>
    BY <1>4 DEF Visit, diskVars
  <1>5. ASSUME EndWalk PROVE UNCHANGED <<disk, known>>
    BY <1>5, EndWalkRows DEF diskVars
  <1>6. ASSUME NEW o \in Path, Transfer(o) PROVE UNCHANGED <<disk, known>>
    BY <1>6, TransferRowSet DEF diskVars
  <1>7. ASSUME NEW gone, DeleteRows(gone) PROVE UNCHANGED <<disk, known>>
    BY <1>7 DEF DeleteRows, diskVars, history
  <1>8. ASSUME Looks PROVE UNCHANGED <<disk, known>>
    BY <1>8, LooksLeave DEF diskVars
  <1>9. ASSUME NEW p \in Path, NEW done \in BOOLEAN, Users(p, done) PROVE KnownFacts'
    <2>1. Wrote(p) /\ disk' = disk
      BY <1>9, UsersRowSet, UsersWriteRows DEF diskVars
    <2> QED
      BY <1>1, <2>1 DEF Wrote, KnownFacts
  <1>10. ASSUME NEW p \in Path, NEW q \in Path, DiskOf(p, q) PROVE KnownFacts'
    <2>1. known' \subseteq known
      BY <1>10, DiskLeaves
    <2>2. ASSUME NEW r \in ExtraPath PROVE disk'[r] \notin known'
      <3>1. r \in Path
        BY PathAssumption
      <3>2. CASE Delete(p) /\ disk' = [disk EXCEPT ![p] = None]
        BY <1>1, <2>1, <3>1, <3>2 DEF KnownFacts, Base, TypeOK
      <3>3. CASE Move(p, q) /\ disk' = [disk EXCEPT ![p] = None, ![q] = disk[p]]
        <4>1. q \in ExtraPath => disk[p] \notin known'
          BY <3>3 DEF Move
        <4> QED
          BY <1>1, <2>1, <3>1, <3>3, <4>1 DEF KnownFacts, Base, TypeOK
      <3> QED
        BY <1>10, <3>2, <3>3 DEF DiskOf
    <2> QED
      BY <1>1, <2>1, <2>2 DEF KnownFacts
  <1>11. ASSUME Remount PROVE UNCHANGED <<disk, known>>
    BY <1>11 DEF Remount
  <1>12. ASSUME UNCHANGED vars PROVE UNCHANGED <<disk, known>>
    BY <1>12 DEF vars, diskVars, history
  <1> QED
    BY <1>2, <1>3, <1>4, <1>5, <1>6, <1>7, <1>8, <1>9, <1>10, <1>11, <1>12, Moments

LEMMA RowsFollow ==
    ASSUME Base, RowFacts, [Next]_vars, NEW p \in Path, row'[p] # None
    PROVE  \/ p \in Rows /\ owner'[p] = owner[p]
           \/ owner'[p] = disk[p] /\ disk[p] # None /\ UNCHANGED diskVars
PROOF
  <1>1. ASSUME NEW q \in Path, Visited(q)
        PROVE  \/ p \in Rows /\ owner'[p] = owner[p]
               \/ owner'[p] = disk[p] /\ disk[p] # None /\ UNCHANGED diskVars
    BY <1>1 DEF Visited, Rows, OnDisk
  <1>2. ASSUME SameRowSet PROVE p \in Rows /\ owner'[p] = owner[p]
    BY <1>2 DEF SameRowSet, Rows
  <1>3. ASSUME NEW gone \in SUBSET stale, Pruned(gone)
        PROVE  p \in Rows /\ owner'[p] = owner[p]
    BY <1>3 DEF Pruned, Rows
  <1> QED
    BY <1>1, <1>2, <1>3, RowSets

LEMMA OwnersInPlaceKept ==
    ASSUME Base, RowFacts, OwnersInPlace, [Next]_vars
    PROVE  OwnersInPlace'
PROOF
  <1>1. gap \subseteq gap'
    BY GapGrows
  <1> SUFFICES ASSUME NEW p \in Path, row'[p] # None,
                      disk'[p] # None, disk'[p] # owner'[p]
               PROVE  disk'[p] \in gap' /\ owner'[p] \in gap'
    BY DEF OwnersInPlace, Rows
  <1>2. p \in Rows /\ owner'[p] = owner[p]
    BY RowsFollow DEF diskVars
  <1>3. CASE disk'[p] = disk[p]
    BY <1>1, <1>2, <1>3 DEF OwnersInPlace
  <1>4. ASSUME NEW x \in Path, NEW y \in Path, DiskOf(x, y), disk'[p] # disk[p]
        PROVE  disk'[p] \in gap' /\ owner'[p] \in gap'
    <2>1. p = y /\ disk'[p] = disk[x] /\ Move(x, y)
      BY <1>4 DEF DiskOf, Base, TypeOK
    <2>2. {disk[x], owner[y]} \subseteq gap'
      <3>1. (IF row[y] # None /\ owner[y] # disk[x] THEN {disk[x], owner[y]} ELSE {})
                \subseteq gap'
        BY <2>1 DEF Move, Changes
      <3> QED
        BY <1>2, <2>1, <3>1 DEF Rows
    <2> QED
      BY <1>2, <2>1, <2>2
  <1> QED
    BY <1>3, <1>4, DiskMoves DEF diskVars

LEMMA CalmArePresentKept ==
    ASSUME Base, DiskOnce, CalmArePresent, [Next]_vars
    PROVE  CalmArePresent'
PROOF
  <1> SUFFICES ASSUME NEW e \in Content, Calm(e)' PROVE Present(e)'
    BY DEF CalmArePresent
  <1>1. Calm(e)
    BY CalmBefore
  <1>2. PICK r \in Path : disk[r] = e
    BY <1>1 DEF CalmArePresent, Present
  <1>3. e # None
    BY NoneAssumption
  <1>4. ASSUME UNCHANGED disk PROVE Present(e)'
    BY <1>2, <1>4 DEF Present
  <1>5. ASSUME NEW p \in Path, NEW q \in Path, DiskOf(p, q) PROVE Present(e)'
    <2>1. CASE Move(p, q) /\ disk' = [disk EXCEPT ![p] = None, ![q] = disk[p]]
      <3>1. disk'[r] = e \/ disk'[q] = e
        BY <1>2, <1>3, <2>1 DEF Move, Base, TypeOK
      <3> QED
        BY <3>1 DEF Present
    <2>2. CASE Delete(p) /\ disk' = [disk EXCEPT ![p] = None]
      <3>1. PICK c \in Content : Safe(c)' /\ sigOf'[c] = sigOf'[e]
        BY DEF Calm
      <3>2. sigOf' = sigOf
        BY DiskTypesKept DEF fixed
      <3>3. CASE c = e
        BY <3>1, <3>3 DEF Safe
      <3>4. CASE c # e
        <4>1. c \in Twins(e)
          BY <3>1, <3>2, <3>4 DEF Twins
        <4>2. Twins(disk[p]) \subseteq gap' /\ c \notin gap'
          BY <2>2, <3>1 DEF Delete, Changes, Safe
        <4>3. disk'[r] = e
          BY <1>2, <2>2, <4>1, <4>2 DEF Base, TypeOK
        <4> QED
          BY <4>3 DEF Present
      <3> QED
        BY <3>3, <3>4
    <2> QED
      BY <1>5, <2>1, <2>2 DEF DiskOf
  <1> QED
    BY <1>4, <1>5, DiskMoves DEF diskVars

LEMMA TwinsStayKept ==
    ASSUME Base, RowFacts, DiskOnce, TwinsStay, [Next]_vars
    PROVE  TwinsStay'
PROOF
  <1> SUFFICES ASSUME NEW c \in Content, Safe(c)', Twins(c)' # {},
                      NEW p \in Path, row'[p] # None, owner'[p] = c
               PROVE  disk'[p] = c
    BY DEF TwinsStay, RowsOf, Rows
  <1>1. Safe(c) /\ Twins(c) # {}
    BY SafeBefore, DiskTypesKept DEF Twins, fixed
  <1>2. disk[p] = c
    BY <1>1, RowsFollow DEF TwinsStay, RowsOf
  <1>3. ASSUME NEW x \in Path, NEW y \in Path, DiskOf(x, y) PROVE disk'[p] = c
    BY <1>1, <1>2, <1>3, SafeStays
  <1> QED
    BY <1>2, <1>3, DiskMoves DEF diskVars

LEMMA PlacesKept ==
    ASSUME Base, Places, [Next]_vars
    PROVE  Places'
PROOF BY DiskOnceKept, RowFactsKept, KnownFactsKept, OwnersInPlaceKept,
         CalmArePresentKept, TwinsStayKept DEF Places

-----------------------------------------------------------------------------
(* The state of a safe file is somewhere.                                  *)

LEMMA SafeMounted ==
    ASSUME UInv, NEW c, Safe(c), pc \in {"stat", "transfer", "check", "delete"}
    PROVE  mounted
PROOF
  <1>1. gap # Content /\ c \in Content
    BY DEF Safe
  <1>2. mounted \/ dark
    BY <1>1 DEF UInv, Course, SafeIsMounted, Scanning
  <1>3. Rows # {}
    BY <1>1 DEF UInv, StateIsSomewhere, RowsOf
  <1>4. ~dark
    BY <1>3 DEF UInv, IInv, DarkFindsNothing
  <1> QED
    BY <1>2, <1>4

\* The file of a survivor is paired with rows of its own only.
LEMMA PairsAreOwn ==
    ASSUME UInv, pc = "transfer", NEW o \in Path, NEW p \in survivors, Paired(o, p),
           Safe(owner[p])
    PROVE  /\ o \in orphans /\ owner[o] = owner[p]
           /\ disk[p] = owner[p] /\ disk[o] # owner[o]
PROOF
  <1> DEFINE c == owner[p]
             e == owner[o]
  <1>1. o \in orphans /\ o \in Rows /\ p \in Rows /\ o \in scope
    BY DEF Paired, SameSig, UInv, IInv, Base, TypeOK, ListedAreRows, Moving
  <1>2. disk[p] = c
    BY DEF UInv, Course, SurvivorsAreHome, Moving
  <1>3. row[p].sig = row[o].sig
    BY DEF Paired, SameSig
  <1>4. sigOf[e] = sigOf[c] /\ e \in Content /\ c \in Content
    BY <1>1, <1>3 DEF UInv, Places, RowFacts, IInv, Base, RowsAreOwned
  <1>5. Calm(e)
    BY <1>4 DEF Calm
  <1>6. disk[o] # e
    BY <1>1, <1>5 DEF UInv, Course, HomesSurvive, Moving
  <1>7. PICK r \in scope : disk[r] = e
    BY <1>1, <1>4, <1>5, <1>6 DEF UInv, Course, HomeInScope, Scanning, RowsOf
  <1>8. r \in survivors
    BY <1>5, <1>7 DEF UInv, Course, HomesSurvive, Moving
  <1>9. mounted
    BY SafeMounted
  <1>10. r \in Rows /\ owner[r] = e
    BY <1>5, <1>7, <1>9 DEF UInv, Course, WalkedAreOwned, Scanning
  <1>11. row[r].sig = row[o].sig
    BY <1>1, <1>10 DEF UInv, Places, RowFacts
  <1>12. r = p
    BY <1>8, <1>11 DEF Paired, SameSig
  <1> QED
    BY <1>1, <1>2, <1>6, <1>7, <1>12

LEMMA TransferState ==
    ASSUME UInv, NEW o \in Path, Transfer(o), NEW c, Safe(c), NEW q \in RowsOf(c)
    PROVE  /\ row'[q].prog \in {None, said[c]}
           /\ Good(q, c) => Good(q, c)'
           /\ \A p \in survivors : Paired(o, p) /\ owner[p] = c /\ Good(o, c) => Good(p, c)'
PROOF
  <1>1. PICK p \in survivors :
          /\ Paired(o, p) /\ p \in Rows /\ o \in Rows
          /\ row'[p] = Carried(row[o], row[p])
          /\ \A x \in Path : x # p => row'[x] = row[x]
    BY TransferRowSet DEF UInv, IInv
  <1>2. Rows' = Rows /\ owner' = owner /\ said' = said /\ known' = known
    BY TransferRowSet DEF UInv, IInv, SameRowSet
  <1>3. pc = "transfer" /\ q \in Path /\ q \in Rows /\ c \in Content /\ owner[q] = c
    BY DEF Transfer, RowsOf, Rows, Safe
  <1>4. \A x \in survivors : Paired(o, x) => x = p
    BY <1>1 DEF Paired
  <1>5. row[q].prog \in {None, said[c]} /\ said[c] \in Progress
    BY <1>3 DEF UInv, StateIsSomewhere, IInv, Base, TypeOK
  <1>6. CASE owner[p] = c
    <2>1. owner[o] = c /\ disk[p] = c
      BY <1>1, <1>3, <1>6, PairsAreOwn
    <2>2. row[o].prog \in {None, said[c]} /\ row[p].prog \in {None, said[c]}
      BY <1>1, <1>3, <1>6, <2>1 DEF UInv, StateIsSomewhere, RowsOf
    <2>3. row[o] \in Row /\ row[p] \in Row /\ kind \in Kinds
      BY <1>1, RowFields DEF UInv, IInv, Base, TypeOK, Rows
    <2>4. /\ row'[p].prog \in {None, said[c]}
          /\ row[o].prog = said[c] \/ row[p].prog = said[c] => row'[p].prog = said[c]
          /\ row[p].matched => row'[p].matched
          /\ HasMatch /\ row[o].matched => row'[p].matched
      BY <1>1, <1>5, <2>2, <2>3, CarriedState
    <2>5. c \in known => HasMatch /\ p \notin ExtraPath
      BY <2>1 DEF UInv, Places, KnownFacts
    <2>6. Good(p, c) \/ Good(o, c) => Good(p, c)'
      BY <1>1, <1>2, <1>6, <2>4, <2>5 DEF Good, RowsOf
    <2>7. q # p => row'[q] = row[q]
      BY <1>1, <1>3
    <2>8. q # p /\ Good(q, c) => Good(q, c)'
      BY <1>2, <2>7 DEF Good, RowsOf
    <2> QED
      BY <1>4, <1>5, <2>4, <2>6, <2>7, <2>8
  <1>7. CASE owner[p] # c
    <2>1. q # p /\ row'[q] = row[q]
      BY <1>1, <1>3, <1>7
    <2>2. Good(q, c) => Good(q, c)'
      BY <1>2, <2>1 DEF Good, RowsOf
    <2> QED
      BY <1>4, <1>5, <1>7, <2>1, <2>2
  <1> QED
    BY <1>6, <1>7

LEMMA SaidIsProgress ==
    ASSUME UInv, NEW c, Safe(c)
    PROVE  c \in Content /\ said[c] \in Progress
PROOF BY DEF Safe, UInv, IInv, Base, TypeOK

\* A row keeps the whole state of a safe file until it is pruned.
LEMMA GoodStays ==
    ASSUME UInv, [Next]_vars, NEW c, Safe(c)', NEW q, Good(q, c), q \in Rows'
    PROVE  Good(q, c)'
PROOF
  <1>b. Base /\ RowFacts /\ Safe(c) /\ q \in Path /\ q \in Rows /\ owner[q] = c
    BY SafeBefore DEF UInv, IInv, Places, Good, RowsOf, Rows
  <1>1. ASSUME UNCHANGED <<row, owner, said>>, known' \subseteq known PROVE Good(q, c)'
    BY <1>1 DEF Good, RowsOf, Rows
  <1>2. ASSUME NEW s \in {Path} \cup ShowDir, StartScan(s) PROVE Good(q, c)'
    BY <1>1, <1>2 DEF StartScan
  <1>3. ASSUME NEW p \in Path, Visited(p) PROVE Good(q, c)'
    <2>1. CASE q # p
      BY <1>b, <1>3, <2>1 DEF Visited, Good, RowsOf, Rows
    <2>2. CASE q = p
      <3>1. disk[p] = c
        BY <1>b, <1>3, <2>2 DEF Visited, OnDisk, UInv, Places, OwnersInPlace, Safe
      <3>2. row'[p] = Scanned(p, row[p])
        BY <1>3 DEF Visited, Visit, UInv, IInv, Base, TypeOK
      <3>3. row'[p].prog = row[p].prog /\ row'[p].matched = row[p].matched
        <4>1. row[p].matched \in BOOLEAN /\ row[p] # None
          BY <1>b, <2>2, RowFields DEF Rows, Base
        <4> QED
          BY <1>b, <1>3, <3>2, <4>1, ScannedRow DEF Visited, Base
      <3> QED
        BY <1>3, <2>2, <3>1, <3>3 DEF Visited, Good, RowsOf
    <2> QED
      BY <2>1, <2>2
  <1>4. ASSUME NEW p \in Path, Visit(p) PROVE Good(q, c)'
    <2>1. CASE Visited(p)
      BY <1>3, <2>1
    <2>2. CASE UNCHANGED <<row, owner>>
      BY <1>1, <1>4, <2>2 DEF Visit
    <2> QED
      BY <1>b, <1>4, <2>1, <2>2, VisitedRows
  <1>5. ASSUME EndWalk PROVE Good(q, c)'
    <2>1. /\ Rows' = Rows /\ owner' = owner /\ said' = said /\ known' = known
          /\ row'[q].prog = row[q].prog
          /\ row[q].matched => row'[q].matched \/ row[q].extra
      BY <1>b, <1>5, EndWalkRows DEF SameRowSet
    <2>2. q \notin ExtraPath => ~row[q].extra
      BY <1>b DEF RowFacts
    <2> QED
      BY <2>1, <2>2 DEF Good, RowsOf
  <1>6. ASSUME NEW o \in Path, Transfer(o) PROVE Good(q, c)'
    BY <1>b, <1>6, TransferState DEF Good
  <1>7. ASSUME NEW gone \in SUBSET stale, DeleteRows(gone) PROVE Good(q, c)'
    <2>1. Pruned(gone)
      BY <1>b, <1>7, PrunedRows
    <2>2. row'[q] = row[q]
      BY <1>b, <2>1 DEF Pruned
    <2> QED
      BY <2>1, <2>2 DEF Pruned, Good, RowsOf
  <1>8. ASSUME Looks PROVE Good(q, c)'
    BY <1>1, <1>8, LooksLeave
  <1>9. ASSUME NEW p \in Path, NEW done \in BOOLEAN, Users(p, done) PROVE Good(q, c)'
    <2>1. Rows' = Rows /\ owner' = owner /\ Wrote(p)
      BY <1>b, <1>9, UsersRowSet DEF SameRowSet
    <2>2. CASE q = p
      BY <1>b, <2>1, <2>2 DEF Wrote, Good, RowsOf
    <2>3. CASE q # p
      <3>1. row'[q] = row[q]
        BY <1>b, <2>1, <2>3 DEF Wrote, Base, TypeOK
      <3>2. c # owner[p]
        BY <1>b, <2>1, <2>3 DEF Wrote, RowsOf, Safe
      <3>3. said'[c] = said[c] /\ (c \in known' => c \in known)
        BY <1>b, <2>1, <3>2 DEF Wrote, Safe
      <3> QED
        BY <2>1, <3>1, <3>3 DEF Good, RowsOf
    <2> QED
      BY <2>2, <2>3
  <1>10. ASSUME NEW x \in Path, NEW y \in Path, DiskOf(x, y) PROVE Good(q, c)'
    BY <1>1, <1>10, DiskLeaves
  <1>11. ASSUME Remount PROVE Good(q, c)'
    BY <1>1, <1>11, <1>b, DiskLeaves
  <1>12. ASSUME UNCHANGED vars PROVE Good(q, c)'
    BY <1>1, <1>12 DEF vars, history
  <1> QED
    BY <1>2, <1>4, <1>5, <1>6, <1>7, <1>8, <1>9, <1>10, <1>11, <1>12, Moments

\* No row has anything but the last report of its safe file.
LEMMA NoOtherState ==
    ASSUME UInv, [Next]_vars, NEW c, Safe(c)', NEW q \in RowsOf(c)'
    PROVE  row'[q].prog \in {None, said'[c]}
PROOF
  <1>b. Base /\ RowFacts /\ Safe(c) /\ q \in Path /\ owner'[q] = c /\ row'[q] # None
        /\ c \in Content
    BY SafeBefore DEF UInv, IInv, Places, RowsOf, Rows, Safe
  <1>1. ASSUME q \in RowsOf(c) PROVE row[q].prog \in {None, said[c]}
    BY <1>b, <1>1 DEF UInv, StateIsSomewhere
  <1>2. ASSUME UNCHANGED <<row, owner, said>> PROVE row'[q].prog \in {None, said'[c]}
    BY <1>b, <1>1, <1>2 DEF RowsOf, Rows
  <1>3. ASSUME NEW s \in {Path} \cup ShowDir, StartScan(s)
        PROVE  row'[q].prog \in {None, said'[c]}
    BY <1>2, <1>3 DEF StartScan
  <1>4. ASSUME NEW p \in Path, Visit(p) PROVE row'[q].prog \in {None, said'[c]}
    <2>1. CASE UNCHANGED <<row, owner>>
      BY <1>2, <1>4, <2>1 DEF Visit
    <2>2. CASE Visited(p) /\ q # p
      BY <1>b, <1>1, <2>2 DEF Visited, RowsOf, Rows
    <2>3. CASE Visited(p) /\ q = p
      <3>1. disk[p] = c /\ said' = said
        BY <1>b, <2>3 DEF Visited
      <3>2. row'[p] = Scanned(p, row[p])
        BY <2>3 DEF Visited, Visit, UInv, IInv, Base, TypeOK
      <3>3. row'[p].prog = IF row[p] = None THEN None ELSE row[p].prog
        BY <1>b, <2>3, <3>2, ScannedRow DEF Visited, Base
      <3>4. row[p] # None => owner[p] = c
        BY <1>b, <2>3, <3>1 DEF Visited, OnDisk, UInv, Places, OwnersInPlace, Safe, Rows
      <3> QED
        BY <1>b, <1>1, <2>3, <3>1, <3>3, <3>4 DEF RowsOf, Rows
    <2> QED
      BY <1>b, <1>4, <2>1, <2>2, <2>3, VisitedRows
  <1>5. ASSUME EndWalk PROVE row'[q].prog \in {None, said'[c]}
    <2>1. Rows' = Rows /\ owner' = owner /\ said' = said
      BY <1>b, <1>5, EndWalkRows DEF SameRowSet
    <2>2. row'[q].prog = row[q].prog
      BY <1>b, <1>5, <2>1, EndWalkRows DEF Rows
    <2> QED
      BY <1>b, <1>1, <2>1, <2>2 DEF RowsOf, Rows
  <1>6. ASSUME NEW o \in Path, Transfer(o) PROVE row'[q].prog \in {None, said'[c]}
    <2>1. Rows' = Rows /\ owner' = owner /\ said' = said
      BY <1>b, <1>6, TransferRowSet DEF SameRowSet
    <2> QED
      BY <1>b, <1>6, <2>1, TransferState DEF RowsOf, Rows
  <1>7. ASSUME NEW gone \in SUBSET stale, DeleteRows(gone)
        PROVE  row'[q].prog \in {None, said'[c]}
    <2>1. Pruned(gone)
      BY <1>b, <1>7, PrunedRows
    <2>2. q \in Rows \ gone /\ owner' = owner /\ said' = said
      BY <1>b, <2>1 DEF Pruned, Rows
    <2>3. row'[q] = row[q]
      BY <2>1, <2>2 DEF Pruned
    <2> QED
      BY <1>b, <1>1, <2>2, <2>3 DEF RowsOf
  <1>8. ASSUME Looks PROVE row'[q].prog \in {None, said'[c]}
    BY <1>2, <1>8, LooksLeave
  <1>9. ASSUME NEW p \in Path, NEW done \in BOOLEAN, Users(p, done)
        PROVE  row'[q].prog \in {None, said'[c]}
    <2>1. Rows' = Rows /\ owner' = owner /\ Wrote(p)
      BY <1>b, <1>9, UsersRowSet DEF SameRowSet
    <2>2. q \in RowsOf(c)
      BY <1>b, <2>1 DEF RowsOf, Rows
    <2>3. CASE c = owner[p]
      <3>1. RowsOf(c) = {p}
        BY <1>b, <2>1, <2>3 DEF Wrote, Safe
      <3>2. \E x \in RowsOf(c) : Good(x, c)
        BY <1>b DEF UInv, StateIsSomewhere
      <3>3. Good(q, c)
        BY <2>2, <3>1, <3>2
      <3> QED
        BY <1>b, <2>1, <3>3, GoodStays DEF Good, Rows
    <2>4. CASE c # owner[p]
      <3>1. q # p
        BY <2>2, <2>4 DEF RowsOf
      <3>2. row'[q] = row[q] /\ said'[c] = said[c]
        BY <1>b, <2>1, <2>4, <3>1 DEF Wrote, Base, TypeOK
      <3> QED
        BY <1>1, <2>2, <3>2
    <2> QED
      BY <2>3, <2>4
  <1>10. ASSUME NEW x \in Path, NEW y \in Path, DiskOf(x, y)
         PROVE  row'[q].prog \in {None, said'[c]}
    BY <1>2, <1>10, DiskLeaves
  <1>11. ASSUME Remount PROVE row'[q].prog \in {None, said'[c]}
    BY <1>2, <1>11, <1>b, DiskLeaves
  <1>12. ASSUME UNCHANGED vars PROVE row'[q].prog \in {None, said'[c]}
    BY <1>2, <1>12 DEF vars, history
  <1> QED
    BY <1>3, <1>4, <1>5, <1>6, <1>7, <1>8, <1>9, <1>10, <1>11, <1>12, Moments

LEMMA StateIsSomewhereKept ==
    ASSUME UInv, [Next]_vars
    PROVE  StateIsSomewhere'
PROOF
  <1> SUFFICES ASSUME NEW c \in Content, Safe(c)'
               PROVE  /\ \A q \in RowsOf(c)' : row'[q].prog \in {None, said'[c]}
                      /\ \E q \in RowsOf(c)' : Good(q, c)'
    BY DEF StateIsSomewhere
  <1>b. Base /\ RowFacts /\ Safe(c)
    BY SafeBefore DEF UInv, IInv, Places
  <1>1. PICK p \in RowsOf(c) : Good(p, c)
    BY <1>b DEF UInv, StateIsSomewhere
  <1>2. ASSUME NEW q, Good(q, c), q \in Rows' PROVE \E x \in RowsOf(c)' : Good(x, c)'
    BY <1>2, GoodStays DEF Good
  <1> DEFINE Goal == \E x \in RowsOf(c)' : Good(x, c)'
  <1>3. ASSUME p \in Rows' PROVE Goal
    BY <1>1, <1>2, <1>3
  <1>4. ASSUME p \notin Rows' PROVE Goal
    <2>1. p \in Rows /\ p \in Path
      BY <1>1 DEF RowsOf, Rows
    <2>2. PICK gone \in SUBSET stale : Pruned(gone)
      BY <1>b, <1>4, <2>1, RowSets DEF SameRowSet, Visited
    <2>3. p \in stale /\ p \in scope /\ pc = "delete"
      <3>1. p \in gone /\ pc = "delete"
        BY <1>4, <2>1, <2>2 DEF Pruned, DeleteRows
      <3>2. stale \subseteq scope
        BY <1>b DEF Base, TypeOK
      <3> QED
        BY <2>2, <3>1, <3>2
    <2>4. PICK q \in Path : disk[q] = c
      BY <1>b DEF Safe, Present
    <2>5. Good(q, c)
      BY <1>b, <1>1, <2>3, <2>4 DEF UInv, Course, StateArrives
    <2>6. q \notin stale
      BY <1>b, <2>3, <2>4, SafeIsCalm DEF UInv, Course, StaleAreNotCalm, Scanning
    <2>7. q \in Rows'
      BY <2>2, <2>5, <2>6 DEF Pruned, Good, RowsOf
    <2> QED
      BY <1>2, <2>5, <2>7
  <1> QED
    BY <1>3, <1>4, NoOtherState

-----------------------------------------------------------------------------
(* The course of a scan.                                                   *)

LEMMA ScanGoesOn ==
    ASSUME [Next]_vars, Scanning'
    PROVE  \/ \E s \in {Path} \cup ShowDir : StartScan(s)
           \/ Scanning /\ scope' = scope
PROOF BY Parts, ScannerFrame DEF DiskStep, scanner, Scanning

\* What a scan under way does to the row of a calm file.
LEMMA AwayBefore ==
    ASSUME UInv, [Next]_vars, Scanning, NEW e, Calm(e)', NEW p \in RowsOf(e)', disk'[p] # e
    PROVE  p \in RowsOf(e) /\ disk[p] # e
PROOF
  <1>1. Base /\ DiskOnce /\ RowFacts
    BY DEF UInv, IInv, Places
  <1>2. p \in Path /\ row'[p] # None /\ owner'[p] = e
    BY DEF RowsOf, Rows
  <1>3. disk[p] # e
    BY <1>1, <1>2, CalmStaysPut
  <1> QED
    BY <1>1, <1>2, <1>3, RowsFollow DEF RowsOf

\* The disk shows a calm file where it was before.
LEMMA CalmFile ==
    ASSUME UInv, [Next]_vars, Scanning, NEW p \in Path, Calm(disk[p])'
    PROVE  /\ disk'[p] = disk[p] /\ mounted' = mounted /\ Calm(disk[p])
           /\ disk[p] \in Content /\ disk[p] # None
PROOF
  <1>1. Base /\ DiskOnce
    BY DEF UInv, IInv, Places
  <1>2. PICK e : e = disk'[p]
    OBVIOUS
  <1>3. Calm(e)'
    BY <1>2 DEF Calm
  <1>4. disk[p] = e /\ mounted' = mounted
    BY <1>1, <1>2, <1>3, CalmStaysPut
  <1>5. Calm(e)
    BY <1>1, <1>3, CalmBefore
  <1>6. e \in Content /\ e # None
    BY <1>5, NoneAssumption DEF Calm
  <1> QED
    BY <1>2, <1>4, <1>5, <1>6

LEMMA SafeIsMountedKept ==
    ASSUME UInv, [Next]_vars
    PROVE  SafeIsMounted'
PROOF
  <1> SUFFICES ASSUME Scanning', gap' # Content PROVE mounted' \/ dark'
    BY DEF SafeIsMounted
  <1>1. ASSUME NEW s \in {Path} \cup ShowDir, StartScan(s) PROVE mounted' \/ dark'
    BY <1>1 DEF StartScan, diskVars, UInv, IInv, Base, TypeOK
  <1>2. ASSUME Scanning PROVE mounted' \/ dark'
    <2>1. gap' \subseteq Content /\ gap \subseteq gap'
      BY BaseKept, GapGrows DEF UInv, IInv, Base, TypeOK
    <2>2. mounted \/ dark
      BY <1>2, <2>1 DEF UInv, Course, SafeIsMounted
    <2>3. ~Remount
      BY <1>2, <2>1 DEF Remount, Changes
    <2>4. ASSUME NEW p \in Path, NEW q \in Path, DiskOf(p, q) PROVE mounted'
      BY <2>4 DEF DiskOf, Move, Delete
    <2>5. ASSUME NEW p \in Path, NEW done \in BOOLEAN, Users(p, done)
          PROVE  UNCHANGED <<mounted, dark>>
      BY <2>5, UsersWriteRows DEF diskVars
    <2>6. ASSUME NEW s \in {Path} \cup ShowDir PROVE ~StartScan(s)
      BY <1>2 DEF StartScan, Scanning
    <2>7. ASSUME NEW p \in Path, Visit(p) PROVE UNCHANGED <<mounted, dark>>
      BY <2>7 DEF Visit, diskVars
    <2>8. ASSUME NEW p \in Path, Transfer(p) PROVE UNCHANGED <<mounted, dark>>
      BY <2>8 DEF Transfer, diskVars, history
    <2>9. ASSUME NEW gone, DeleteRows(gone) PROVE UNCHANGED <<mounted, dark>>
      BY <2>9 DEF DeleteRows, diskVars, history
    <2>10. ASSUME EndWalk \/ Looks PROVE UNCHANGED <<mounted, dark>>
      BY <2>10 DEF EndWalk, Looks, RelinkStat, PruneStat, EndWalkEmpty, EndStat,
         EndTransfer, EndCheck, EndScan, Abort, diskVars, history
    <2>11. ASSUME UNCHANGED vars PROVE UNCHANGED <<mounted, dark>>
      BY <2>11 DEF vars, diskVars, history
    <2>12. mounted' \/ UNCHANGED <<mounted, dark>>
      BY <2>3, <2>4, <2>5, <2>6, <2>7, <2>8, <2>9, <2>10, <2>11, Moments
    <2> QED
      BY <2>2, <2>12
  <1> QED
    BY <1>1, <1>2, ScanGoesOn

LEMMA HomeInScopeKept ==
    ASSUME UInv, [Next]_vars
    PROVE  HomeInScope'
PROOF
  <1> SUFFICES ASSUME Scanning', NEW e \in Content, NEW p \in RowsOf(e)', p \in scope',
                      Calm(e)', disk'[p] # e
               PROVE  \E r \in scope' : disk'[r] = e
    BY DEF HomeInScope
  <1>b. Base /\ DiskOnce /\ RowFacts
    BY DEF UInv, IInv, Places
  <1>1. ASSUME NEW s \in {Path} \cup ShowDir, StartScan(s)
        PROVE  \E r \in scope' : disk'[r] = e
    <2> DEFINE away(c) == {x \in RowsOf(c) : disk[x] # c}
               left == {c \in Content : away(c) \cap s # {} /\ \A x \in s : disk[x] # c}
    <2>1. left \cup UNION {Twins(c) : c \in left} \subseteq gap' /\ scope' = s
          /\ UNCHANGED <<disk, row, owner, sigOf>>
      BY <1>1 DEF StartScan, diskVars, fixed
    <2>2. p \in away(e) /\ p \in s
      BY <2>1 DEF RowsOf, Rows
    <2>3. PICK c \in Content : Safe(c)' /\ sigOf[c] = sigOf[e]
      BY <2>1 DEF Calm
    <2>4. c \notin gap' /\ (c = e \/ c \in Twins(e))
      BY <2>3 DEF Safe, Twins
    <2>5. e \notin left
      BY <2>1, <2>4
    <2>6. \E x \in s : disk[x] = e
      BY <2>2, <2>5
    <2> QED
      BY <2>1, <2>6
  <1>2. ASSUME Scanning, scope' = scope PROVE \E r \in scope' : disk'[r] = e
    <2>1. Calm(e) /\ p \in RowsOf(e) /\ disk[p] # e
      BY <1>b, <1>2, CalmBefore, AwayBefore
    <2>2. PICK r \in scope : disk[r] = e
      BY <1>2, <2>1 DEF UInv, Course, HomeInScope
    <2>3. r \in Path
      BY <1>b DEF Base, TypeOK
    <2>4. disk'[r] = e
      BY <1>b, <1>2, <2>2, <2>3, CalmStaysPut
    <2> QED
      BY <1>2, <2>4
  <1> QED
    BY <1>1, <1>2, ScanGoesOn

LEMMA OneAwayKept ==
    ASSUME UInv, [Next]_vars
    PROVE  OneAway'
PROOF
  <1> SUFFICES ASSUME Scanning', NEW c \in Content, Safe(c)',
                      NEW p \in RowsOf(c)', NEW q \in RowsOf(c)',
                      disk'[p] # c, disk'[q] # c
               PROVE  p = q
    BY DEF OneAway
  <1>1. ASSUME NEW s \in {Path} \cup ShowDir, StartScan(s) PROVE p = q
    <2> DEFINE away(d) == {x \in RowsOf(d) : disk[x] # d}
    <2>1. {d \in Content : \E x, y \in away(d) : x # y} \subseteq gap'
          /\ UNCHANGED <<disk, row, owner>>
      BY <1>1 DEF StartScan, diskVars
    <2>2. p \in away(c) /\ q \in away(c)
      BY <2>1 DEF RowsOf, Rows
    <2>3. c \notin gap'
      BY DEF Safe
    <2> QED
      BY <2>1, <2>2, <2>3
  <1>2. ASSUME Scanning PROVE p = q
    <2>1. Calm(c)' /\ Safe(c)
      BY SafeIsCalm, SafeBefore DEF UInv, IInv, Safe, Calm
    <2>2. p \in RowsOf(c) /\ disk[p] # c /\ q \in RowsOf(c) /\ disk[q] # c
      BY <1>2, <2>1, AwayBefore
    <2> QED
      BY <1>2, <2>1, <2>2 DEF UInv, Course, OneAway
  <1> QED
    BY <1>1, <1>2, ScanGoesOn

LEMMA StaleAreNotCalmKept ==
    ASSUME UInv, [Next]_vars
    PROVE  StaleAreNotCalm'
PROOF
  <1> SUFFICES ASSUME Scanning', NEW p \in stale', Calm(disk[p])' PROVE FALSE
    BY DEF StaleAreNotCalm
  <1>b. Base /\ DiskOnce /\ RowFacts
    BY DEF UInv, IInv, Places
  <1>1. ASSUME NEW s \in {Path} \cup ShowDir PROVE ~StartScan(s)
    BY DEF StartScan
  <1>2. Scanning /\ p \in Path
    BY <1>b, <1>1, BaseKept, ScanGoesOn DEF Base, TypeOK
  <1>3. disk[p] = disk'[p] /\ Calm(disk[p])
    BY <1>2, CalmFile
  <1>4. p \notin stale
    BY <1>2, <1>3 DEF UInv, Course, StaleAreNotCalm
  <1>5. PruneStat(p)
    <2>1. ScannerStep \/ Abort
      BY <1>1, <1>4, Parts DEF DiskStep, scanner
    <2> QED
      BY <1>4, <2>1 DEF ScannerStep, Abort, Visit, RelinkStat, Transfer, PruneStat,
         EndWalkEmpty, EndWalk, EndStat, EndTransfer, EndCheck, EndScan, PruneTVFiles,
         PruneMovieFiles, PrunePhotos, PruneBook, PruneAudiobook, DeleteRows
  <1>6. ~OnDisk(p) /\ pc = "check"
    BY <1>4, <1>5 DEF PruneStat
  <1>7. mounted
    BY <1>3, <1>6, SafeMounted DEF Calm
  <1> QED
    BY <1>3, <1>6, <1>7, NoneAssumption DEF OnDisk, Calm

LEMMA WalkedAreOwnedKept ==
    ASSUME UInv, [Next]_vars
    PROVE  WalkedAreOwned'
PROOF
  <1> SUFFICES ASSUME Scanning', mounted', NEW r \in scope', Calm(disk[r])',
                      pc' = "walk" => r \notin todo'
               PROVE  r \in Rows' /\ owner'[r] = disk'[r]
    BY DEF WalkedAreOwned
  <1>b. Base /\ DiskOnce /\ RowFacts
    BY DEF UInv, IInv, Places
  <1>1. ASSUME NEW s \in {Path} \cup ShowDir PROVE ~StartScan(s)
    BY DEF StartScan
  <1>2. Scanning /\ scope' = scope /\ r \in Path
    BY <1>b, <1>1, BaseKept, ScanGoesOn DEF Base, TypeOK
  <1>3. disk[r] = disk'[r] /\ Calm(disk[r]) /\ mounted
    BY <1>2, CalmFile
  <1>4. CASE pc = "walk" => r \notin todo
    <2>1. r \in Rows /\ owner[r] = disk[r]
      BY <1>2, <1>3, <1>4 DEF UInv, Course, WalkedAreOwned
    <2>2. ASSUME SameRowSet PROVE r \in Rows' /\ owner'[r] = disk[r]
      BY <2>1, <2>2 DEF SameRowSet
    <2>3. ASSUME NEW p \in Path, Visited(p) PROVE r \in Rows' /\ owner'[r] = disk[r]
      BY <1>2, <2>1, <2>3 DEF Visited
    <2>4. ASSUME NEW gone \in SUBSET stale, Pruned(gone)
          PROVE  r \in Rows' /\ owner'[r] = disk[r]
      BY <1>2, <1>3, <2>1, <2>4 DEF Pruned, UInv, Course, StaleAreNotCalm
    <2> QED
      BY <1>b, <1>3, <2>2, <2>3, <2>4, RowSets
  <1>5. CASE pc = "walk" /\ r \in todo
    <2>1. ScannerStep \/ Abort
      BY <1>1, <1>2, <1>5, Parts DEF DiskStep, scanner
    <2>2. Visit(r)
      BY <1>5, <2>1 DEF ScannerStep, Abort, Visit, RelinkStat, Transfer, PruneStat,
         EndWalkEmpty, EndWalk, EndStat, EndTransfer, EndCheck, EndScan, PruneTVFiles,
         PruneMovieFiles, PrunePhotos, PruneBook, PruneAudiobook, DeleteRows, Scanning
    <2>3. OnDisk(r)
      BY <1>3, NoneAssumption DEF OnDisk, Calm
    <2>4. Visited(r)
      BY <1>b, <1>2, <2>2, <2>3, VisitedRows
    <2> QED
      BY <1>2, <1>3, <2>4 DEF Visited
  <1> QED
    BY <1>4, <1>5

\* How a relink comes to its lists.
LEMMA ListsGrow ==
    ASSUME [Next]_vars, Moving'
    PROVE  /\ Scanning /\ scope' = scope
           /\ \/ EndWalk
              \/ /\ pc = "stat" /\ pc' = "stat" /\ UNCHANGED <<diskVars, owner>>
                 /\ \E p \in Path : RelinkStat(p)
              \/ EndStat
              \/ Moving /\ UNCHANGED <<pc, orphans, survivors>>
                 /\ (pc = "stat" => todo' = todo)
PROOF
  <1>1. ~\E s \in {Path} \cup ShowDir : StartScan(s)
    BY DEF StartScan, Moving
  <1>2. Scanning /\ scope' = scope
    BY <1>1, ScanGoesOn DEF Moving, Scanning
  <1>3. ASSUME ScannerStep \/ Abort
        PROVE  \/ EndWalk
               \/ \E p \in Path : RelinkStat(p)
               \/ EndStat
               \/ Moving /\ UNCHANGED <<pc, orphans, survivors>> /\ (pc = "stat" => todo' = todo)
    BY <1>3 DEF ScannerStep, Abort, Visit, Transfer, PruneStat, EndWalkEmpty, EndTransfer,
       EndCheck, EndScan, PruneTVFiles, PruneMovieFiles, PrunePhotos, PruneBook,
       PruneAudiobook, DeleteRows, Moving
  <1>4. ASSUME UNCHANGED scanner
        PROVE  Moving /\ UNCHANGED <<pc, orphans, survivors>> /\ (pc = "stat" => todo' = todo)
    BY <1>4 DEF scanner, Moving
  <1>5. ASSUME NEW p \in Path, RelinkStat(p)
        PROVE  pc = "stat" /\ pc' = "stat" /\ UNCHANGED <<diskVars, owner>>
    BY <1>5 DEF RelinkStat, history
  <1> QED
    BY <1>1, <1>2, <1>3, <1>4, <1>5, Parts DEF DiskStep

LEMMA HomesSurviveKept ==
    ASSUME UInv, [Next]_vars
    PROVE  HomesSurvive'
PROOF
  <1> SUFFICES ASSUME Moving', NEW r \in scope', Calm(disk[r])'
               PROVE  /\ r \in survivors' \/ (pc' = "stat" /\ r \in todo')
                      /\ r \notin orphans'
    BY DEF HomesSurvive
  <1>b. Base
    BY DEF UInv, IInv
  <1>1. Scanning /\ scope' = scope /\ r \in scope /\ r \in Path
    BY <1>b, ListsGrow DEF Base, TypeOK
  <1>2. Calm(disk[r]) /\ disk[r] # None
    BY <1>1, CalmFile
  <1>3. PICK c \in Content : Safe(c)
    BY <1>2 DEF Calm
  <1>4. ASSUME EndWalk PROVE r \in todo' /\ pc' = "stat" /\ r \notin orphans'
    <2>1. pc = "walk" /\ todo = {} /\ (saw \/ Rows = {}) /\ todo' = Rows \cap scope
          /\ pc' = "stat" /\ orphans' = orphans
      BY <1>4 DEF EndWalk
    <2>2. Rows # {}
      BY <1>3 DEF UInv, StateIsSomewhere, RowsOf
    <2>3. mounted
      BY <1>1, <1>3, <2>1, <2>2 DEF UInv, Course, SafeIsMounted, Safe, IInv,
         DarkFindsNothing
    <2>4. r \in Rows
      BY <1>1, <1>2, <2>1, <2>3 DEF UInv, Course, WalkedAreOwned
    <2> QED
      BY <1>b, <1>1, <2>1, <2>4 DEF Base, ListedAreRows
  <1>5. ASSUME Moving
        PROVE  (r \in survivors \/ (pc = "stat" /\ r \in todo)) /\ r \notin orphans
    BY <1>1, <1>2, <1>5 DEF UInv, Course, HomesSurvive
  <1>6. ASSUME NEW p \in Path, RelinkStat(p), pc = "stat", pc' = "stat"
        PROVE  (r \in survivors' \/ r \in todo') /\ r \notin orphans'
    <2>1. OnDisk(r)
      BY <1>2, <1>3, <1>6, SafeMounted DEF OnDisk
    <2> QED
      BY <1>5, <1>6, <2>1 DEF RelinkStat, Moving
  <1>7. ASSUME EndStat PROVE r \in survivors' /\ r \notin orphans'
    BY <1>5, <1>7 DEF EndStat, Moving
  <1>8. ASSUME Moving, UNCHANGED <<pc, orphans, survivors>>, pc = "stat" => todo' = todo
        PROVE  /\ r \in survivors' \/ (pc' = "stat" /\ r \in todo')
               /\ r \notin orphans'
    BY <1>5, <1>8
  <1> QED
    BY <1>4, <1>6, <1>7, <1>8, ListsGrow

LEMMA SurvivorsAreHomeKept ==
    ASSUME UInv, [Next]_vars
    PROVE  SurvivorsAreHome'
PROOF
  <1> SUFFICES ASSUME Moving', NEW p \in survivors', Safe(owner[p])'
               PROVE  disk'[p] = owner'[p]
    BY DEF SurvivorsAreHome
  <1>b. Base /\ DiskOnce /\ RowFacts
    BY DEF UInv, IInv, Places
  <1>1. Scanning /\ scope' = scope
    BY ListsGrow
  <1>2. PICK c : c = owner'[p]
    OBVIOUS
  <1>3. Safe(c)'
    BY <1>2 DEF Safe, Present
  <1>4. Safe(c) /\ Calm(c)'
    BY <1>b, <1>3, SafeBefore DEF Safe, Calm, Present
  <1>5. p \in Rows' /\ p \in Path
    BY BaseKept DEF UInv, IInv, Base, ListedAreRows, Moving, Rows
  <1>6. disk[p] = c => disk'[p] = c
    BY <1>b, <1>1, <1>4, <1>5, CalmStaysPut
  <1>7. ~\E x \in Path : Visit(x)
    BY DEF Visit, Moving
  <1>8. owner'[p] = owner[p]
    <2>1. ~\E x \in Path : Visited(x)
      BY <1>7 DEF Visited
    <2> QED
      BY <1>b, <2>1, RowSets DEF SameRowSet, Pruned
  <1>9. ASSUME Moving, p \in survivors PROVE disk[p] = c
    BY <1>2, <1>4, <1>8, <1>9 DEF UInv, Course, SurvivorsAreHome
  <1>10. ASSUME EndWalk PROVE p \notin survivors'
    BY <1>b, <1>10 DEF EndWalk, Base, ListedAreRows
  <1>11. ASSUME NEW x \in Path, RelinkStat(x), pc = "stat" PROVE disk[p] = c
    <2>1. CASE p \in survivors
      BY <1>9, <1>11, <2>1 DEF Moving
    <2>2. CASE p \notin survivors
      <3>1. p \in todo /\ OnDisk(p)
        BY <1>11, <2>2 DEF RelinkStat
      <3>2. p \in Rows
        BY <1>b, <1>11, <3>1 DEF Base, ListedAreRows, Moving
      <3> QED
        BY <1>2, <1>4, <1>8, <3>1, <3>2 DEF OnDisk, UInv, Places, OwnersInPlace, Safe
    <2> QED
      BY <2>1, <2>2
  <1>12. ASSUME EndStat PROVE disk[p] = c
    BY <1>9, <1>12 DEF EndStat, Moving
  <1>13. disk[p] = c
    BY <1>9, <1>10, <1>11, <1>12, ListsGrow
  <1> QED
    BY <1>2, <1>6, <1>13

LEMMA AwayAreOrphansKept ==
    ASSUME UInv, [Next]_vars
    PROVE  AwayAreOrphans'
PROOF
  <1> SUFFICES ASSUME Moving', NEW c \in Content, Safe(c)', NEW p \in RowsOf(c)',
                      p \in scope', disk'[p] # c
               PROVE  p \in orphans' \/ (pc' = "stat" /\ p \in todo')
    BY DEF AwayAreOrphans
  <1>b. Base
    BY DEF UInv, IInv
  <1>1. Scanning /\ scope' = scope
    BY ListsGrow
  <1>2. Safe(c) /\ Calm(c)'
    BY <1>b, SafeBefore DEF Safe, Calm, Present
  <1>3. p \in RowsOf(c) /\ disk[p] # c
    BY <1>1, <1>2, AwayBefore
  <1>4. ASSUME Moving PROVE p \in orphans \/ (pc = "stat" /\ p \in todo)
    BY <1>1, <1>2, <1>3, <1>4 DEF UInv, Course, AwayAreOrphans
  <1>5. ASSUME EndWalk PROVE pc' = "stat" /\ p \in todo'
    BY <1>1, <1>3, <1>5 DEF EndWalk, RowsOf
  <1>6. ASSUME NEW x \in Path, RelinkStat(x), pc = "stat", pc' = "stat"
        PROVE  p \in orphans' \/ p \in todo'
    <2>1. ~OnDisk(p)
      BY <1>2, <1>3 DEF OnDisk, UInv, Places, OwnersInPlace, Safe, RowsOf
    <2> QED
      BY <1>4, <1>6, <2>1 DEF RelinkStat, Moving
  <1>7. ASSUME EndStat PROVE p \in orphans'
    BY <1>4, <1>7 DEF EndStat, Moving
  <1>8. ASSUME Moving, UNCHANGED <<pc, orphans, survivors>>, pc = "stat" => todo' = todo
        PROVE  p \in orphans' \/ (pc' = "stat" /\ p \in todo')
    BY <1>4, <1>8
  <1> QED
    BY <1>5, <1>6, <1>7, <1>8, ListsGrow

\* Of a safe file that moved the scan has seen the new row.
LEMMA HomeIsOwned ==
    ASSUME UInv, pc \in {"stat", "transfer", "check", "delete"}, NEW c, Safe(c),
           NEW p \in RowsOf(c), p \in scope, disk[p] # c, NEW q \in Path, disk[q] = c
    PROVE  q \in scope /\ q \in Rows /\ owner[q] = c
PROOF
  <1>1. Calm(c) /\ c \in Content /\ Scanning
    BY SafeIsCalm DEF Safe, Scanning
  <1>2. PICK r \in scope : disk[r] = c
    BY <1>1 DEF UInv, Course, HomeInScope
  <1>3. r = q
    BY <1>1, <1>2, NoneAssumption DEF UInv, Places, DiskOnce, IInv, Base, TypeOK
  <1>4. mounted
    BY SafeMounted
  <1> QED
    BY <1>1, <1>2, <1>3, <1>4 DEF UInv, Course, WalkedAreOwned

\* Nothing but its new row competes for the state of such a file.
LEMMA MovedIsAlone ==
    ASSUME UInv, Moving, pc = "stat" => todo = {}, NEW c, Safe(c),
           NEW p \in RowsOf(c), p \in scope, disk[p] # c, NEW q \in Path, disk[q] = c
    PROVE  p \in orphans /\ q \in survivors /\ Paired(p, q)
PROOF
  <1>b. Base /\ DiskOnce /\ RowFacts /\ c \in Content /\ c # None /\ Calm(c)
    BY NoneAssumption, SafeIsCalm DEF UInv, IInv, Places, Safe
  <1>1. q \in scope /\ q \in Rows /\ owner[q] = c
    BY HomeIsOwned DEF Moving
  <1>2. p \in orphans /\ p \in Rows /\ owner[p] = c
    BY <1>b DEF UInv, Course, AwayAreOrphans, RowsOf
  <1>3. \A r \in scope : disk[r] = c => r \in survivors /\ r \notin orphans
    BY <1>b DEF UInv, Course, HomesSurvive
  <1>4. row[p].sig = sigOf[c] /\ row[q].sig = sigOf[c]
    BY <1>b, <1>1, <1>2 DEF RowFacts
  <1>5. Twins(c) = {}
    BY <1>b, <1>2 DEF UInv, Places, TwinsStay
  <1>6. ASSUME NEW x \in orphans \cup survivors, row[x].sig = row[p].sig
        PROVE  owner[x] = c /\ x \in scope /\ x \in Rows
    <2>1. x \in Rows /\ x \in scope /\ owner[x] \in Content
      BY <1>b DEF Base, TypeOK, ListedAreRows, RowsAreOwned
    <2>2. sigOf[owner[x]] = sigOf[c]
      BY <1>b, <1>4, <1>6, <2>1 DEF RowFacts
    <2> QED
      BY <1>5, <2>1, <2>2 DEF Twins
  <1>7. ASSUME NEW x \in survivors, row[x].sig = row[p].sig PROVE x = q
    <2>1. disk[x] = c /\ x \in Path
      BY <1>6, <1>7 DEF UInv, Course, SurvivorsAreHome, Rows
    <2> QED
      BY <1>b, <2>1 DEF DiskOnce
  <1>8. ASSUME NEW x \in orphans, row[x].sig = row[p].sig PROVE x = p
    <2>1. owner[x] = c /\ x \in scope /\ x \in Rows /\ disk[x] # c
      BY <1>3, <1>6, <1>8
    <2> QED
      BY <1>b, <2>1 DEF UInv, Course, OneAway, Scanning, Moving, RowsOf
  <1> QED
    BY <1>1, <1>2, <1>3, <1>4, <1>7, <1>8 DEF Paired, SameSig

\* A row that gets the whole state of a moved file had it.
LEMMA GoodBefore ==
    ASSUME UInv, [Next]_vars, NEW c, Safe(c)', pc' \in {"transfer", "check", "delete"},
           NEW p \in RowsOf(c), p \in scope, disk[p] # c, NEW q \in Path, disk[q] = c,
           Good(p, c)'
    PROVE  Good(p, c)
PROOF
  <1>b. Base /\ RowFacts /\ Safe(c) /\ c \in Content /\ p \in Path /\ p \in Rows
        /\ owner[p] = c /\ p # q
    BY SafeBefore DEF UInv, IInv, Places, Safe, RowsOf, Rows
  <1>1. ASSUME UNCHANGED <<row, owner, said, known>> PROVE Good(p, c)
    BY <1>b, <1>1 DEF Good, RowsOf, Rows
  <1>2. ASSUME NEW s \in {Path} \cup ShowDir PROVE ~StartScan(s)
    BY DEF StartScan
  <1>3. ASSUME NEW x \in Path PROVE ~Visit(x)
    BY DEF Visit
  <1>4. ~EndWalk
    BY DEF EndWalk
  <1>5. ASSUME NEW o \in Path, Transfer(o) PROVE Good(p, c)
    <2>1. PICK t \in survivors : \A x \in Path : x # t => row'[x] = row[x]
      BY <1>b, <1>5, TransferRowSet
    <2>2. Moving /\ Rows' = Rows
          /\ UNCHANGED <<owner, said, known>>
      BY <1>b, <1>5, TransferRowSet DEF SameRowSet, Transfer, Moving
    <2>3. t # p
      BY <1>b, <2>2 DEF UInv, Course, SurvivorsAreHome
    <2>4. row'[p] = row[p]
      BY <1>b, <2>1, <2>3
    <2> QED
      BY <1>b, <2>2, <2>4 DEF Good, RowsOf
  <1>6. ASSUME NEW gone \in SUBSET stale, DeleteRows(gone) PROVE Good(p, c)
    <2>1. Pruned(gone)
      BY <1>b, <1>6, PrunedRows
    <2>2. row'[p] = row[p]
      BY <1>b, <2>1 DEF Pruned, Good, RowsOf
    <2> QED
      BY <1>b, <2>1, <2>2 DEF Pruned, Good, RowsOf
  <1>7. ASSUME Looks PROVE Good(p, c)
    BY <1>1, <1>7, LooksLeave
  <1>8. ASSUME NEW x \in Path, NEW done \in BOOLEAN, Users(x, done) PROVE Good(p, c)
    <2>1. Rows' = Rows /\ owner' = owner /\ Wrote(x) /\ UNCHANGED scanner
      BY <1>b, <1>8, UsersRowSet, UsersWriteRows DEF SameRowSet
    <2>2. q \in RowsOf(c)
      BY <1>b, <2>1, HomeIsOwned DEF RowsOf, scanner
    <2>3. owner[x] # c
      BY <1>b, <2>1, <2>2 DEF Wrote, Safe
    <2>4. p # x /\ row'[p] = row[p]
      BY <1>b, <2>1, <2>3 DEF Wrote, Base, TypeOK
    <2>5. said'[c] = said[c] /\ (c \in known => c \in known')
      BY <1>b, <2>1, <2>3 DEF Wrote
    <2> QED
      BY <1>b, <2>1, <2>4, <2>5 DEF Good, RowsOf
  <1>9. ASSUME NEW x \in Path, NEW y \in Path, DiskOf(x, y) PROVE Good(p, c)
    <2>1. UNCHANGED <<row, owner, said>> /\ UNCHANGED scanner
      BY <1>9, DiskLeaves
    <2>2. c \in known => c \in known'
      <3>1. CASE Delete(x)
        BY <3>1 DEF Delete
      <3>2. CASE Move(x, y)
        <4>1. Scanning
          BY <2>1 DEF scanner, Scanning
        <4>2. disk[x] \in gap'
          BY <3>2, <4>1 DEF Move, Changes
        <4> QED
          BY <3>2, <4>2 DEF Move, Safe
      <3> QED
        BY <1>9, <3>1, <3>2 DEF DiskOf
    <2> QED
      BY <1>b, <2>1, <2>2 DEF Good, RowsOf, Rows
  <1>10. ASSUME Remount PROVE Good(p, c)
    BY <1>1, <1>10, DiskLeaves, PathAssumption DEF Remount, Changes
  <1>11. ASSUME UNCHANGED vars PROVE Good(p, c)
    BY <1>1, <1>11 DEF vars, history
  <1> QED
    BY <1>2, <1>3, <1>4, <1>5, <1>6, <1>7, <1>8, <1>9, <1>10, <1>11, Moments

LEMMA StateArrivesKept ==
    ASSUME UInv, [Next]_vars
    PROVE  StateArrives'
PROOF
  <1> SUFFICES ASSUME pc' \in {"transfer", "check", "delete"},
                      NEW c \in Content, Safe(c)', NEW p \in RowsOf(c)', p \in scope',
                      NEW q \in Path, Good(p, c)', disk'[q] = c
               PROVE  Good(q, c)' \/ (pc' = "transfer" /\ p \in todo')
    BY DEF StateArrives
  <1>b. Base /\ DiskOnce /\ RowFacts
    BY DEF UInv, IInv, Places
  <1>1. ~\E s \in {Path} \cup ShowDir : StartScan(s)
    BY DEF StartScan
  <1>2. Scanning /\ scope' = scope
    BY <1>1, ScanGoesOn DEF Scanning
  <1>3. Safe(c) /\ Calm(c)'
    BY <1>b, SafeBefore DEF Safe, Calm, Present
  <1>4. disk[q] = c
    BY <1>b, <1>2, <1>3, CalmStaysPut
  <1>5. CASE disk'[p] = c
    <2>1. p = q
      BY <1>b, <1>5, DiskOnceKept, NoneAssumption DEF DiskOnce, RowsOf, Rows
    <2> QED
      BY <2>1
  <1>6. CASE disk'[p] # c
    <2>1. p \in RowsOf(c) /\ disk[p] # c /\ p \in scope
      BY <1>2, <1>3, <1>6, AwayBefore
    <2>2. Good(p, c)
      BY <1>4, <2>1, GoodBefore
    <2>3. ASSUME q \in Rows', Good(q, c) PROVE Good(q, c)'
      BY <2>3, GoodStays
    <2>4. ASSUME pc \in {"transfer", "check", "delete"}
          PROVE  Good(q, c) \/ (pc = "transfer" /\ p \in todo)
      BY <1>3, <1>4, <2>1, <2>2, <2>4 DEF UInv, Course, StateArrives
    <2>5. ASSUME EndStat PROVE pc' = "transfer" /\ p \in todo'
      <3>1. p \in orphans /\ q \in survivors /\ Paired(p, q)
        BY <1>3, <1>4, <2>1, <2>5, MovedIsAlone DEF EndStat, Moving
      <3> QED
        BY <2>5, <3>1 DEF EndStat
    <2>6. ASSUME NEW o \in Path, Transfer(o)
          PROVE  Good(q, c)' \/ (pc' = "transfer" /\ p \in todo')
      <3>1. pc = "transfer" /\ pc' = "transfer" /\ todo' = todo \ {o} /\ Rows' = Rows
        BY <1>b, <2>6, TransferRowSet DEF Transfer, SameRowSet
      <3>2. CASE Good(q, c)
        BY <2>3, <3>1, <3>2 DEF Good, RowsOf
      <3>3. CASE p \in todo /\ p # o
        BY <3>1, <3>3
      <3>4. CASE p = o
        <4>1. q \in survivors /\ Paired(o, q)
          BY <1>3, <1>4, <2>1, <3>1, <3>4, MovedIsAlone DEF Moving
        <4>2. owner[q] = c /\ q \in RowsOf(c)
          BY <1>3, <1>4, <2>1, <3>1, HomeIsOwned DEF RowsOf
        <4> QED
          BY <1>3, <2>2, <2>6, <3>4, <4>1, <4>2, TransferState
      <3> QED
        BY <2>4, <3>1, <3>2, <3>3, <3>4
    <2>7. ASSUME NEW gone \in SUBSET stale, DeleteRows(gone) PROVE Good(q, c)'
      <3>1. pc = "delete" /\ Pruned(gone)
        BY <1>b, <2>7, PrunedRows DEF DeleteRows
      <3>2. Good(q, c)
        BY <2>4, <3>1
      <3>3. q \notin stale
        BY <1>2, <1>3, <1>4, SafeIsCalm DEF UInv, Course, StaleAreNotCalm
      <3> QED
        BY <2>3, <3>1, <3>2, <3>3 DEF Pruned, Good, RowsOf
    <2>8. ASSUME pc \in {"transfer", "check", "delete"}, Rows' = Rows,
                 pc = "transfer" => (pc' = pc /\ todo' = todo) \/ todo = {}
          PROVE  Good(q, c)' \/ (pc' = "transfer" /\ p \in todo')
      BY <2>3, <2>4, <2>8 DEF Good, RowsOf
    <2>9. ASSUME Looks PROVE Good(q, c)' \/ (pc' = "transfer" /\ p \in todo')
      <3>1. Rows' = Rows
        BY <2>9, LooksLeave DEF Rows
      <3>2. CASE EndStat
        BY <2>5, <3>2
      <3>3. CASE ~EndStat
        <4>1. /\ pc \in {"transfer", "check", "delete"}
              /\ pc = "transfer" => todo = {}
          BY <2>9, <3>3 DEF Looks, RelinkStat, PruneStat, EndWalkEmpty, EndTransfer,
             EndCheck, EndScan, Abort
        <4> QED
          BY <2>8, <3>1, <4>1
      <3> QED
        BY <3>2, <3>3
    <2>10. ASSUME UNCHANGED scanner, Rows' = Rows
           PROVE  Good(q, c)' \/ (pc' = "transfer" /\ p \in todo')
      BY <2>8, <2>10 DEF scanner
    <2>11. ASSUME NEW x \in Path, NEW done \in BOOLEAN, Users(x, done)
           PROVE  UNCHANGED scanner /\ Rows' = Rows
      BY <1>b, <2>11, UsersRowSet, UsersWriteRows DEF SameRowSet
    <2>12. ASSUME NEW x \in Path, NEW y \in Path, DiskOf(x, y) \/ Remount
           PROVE  UNCHANGED scanner /\ Rows' = Rows
      BY <2>12, DiskLeaves DEF Rows
    <2>13. ASSUME UNCHANGED vars PROVE UNCHANGED scanner /\ Rows' = Rows
      BY <2>13 DEF vars, Rows
    <2>14. ~EndWalk /\ ~\E x \in Path : Visit(x)
      BY DEF EndWalk, Visit
    <2> QED
      BY <1>1, <2>6, <2>7, <2>9, <2>10, <2>11, <2>12, <2>13, <2>14, Moments
  <1> QED
    BY <1>5, <1>6

LEMMA CourseKept ==
    ASSUME UInv, [Next]_vars
    PROVE  Course'
PROOF BY SafeIsMountedKept, HomeInScopeKept, OneAwayKept, WalkedAreOwnedKept,
         HomesSurviveKept, SurvivorsAreHomeKept, AwayAreOrphansKept, StateArrivesKept,
         StaleAreNotCalmKept DEF Course

LEMMA UInvKept ==
    ASSUME UInv, [Next]_vars
    PROVE  UInv'
PROOF
  <1>1. IInv'
    BY IInvKept DEF UInv
  <1>2. Places'
    BY PlacesKept DEF UInv, IInv
  <1> QED
    BY <1>1, <1>2, StateIsSomewhereKept, CourseKept DEF UInv

LEMMA InitUInv ==
    ASSUME Init
    PROVE  UInv
PROOF
  <1>1. Base /\ pc = "idle" /\ owner = disk /\ known = {} /\ mounted = TRUE /\ dark = FALSE
        /\ quiet = FALSE
    BY InitBase DEF Init
  <1>2. IInv
    BY <1>1, InitBase DEF IInv, DarkFindsNothing, Converging, SyncedIsQuiet, StaleAreGone,
       WalkedFit, RestAreStale, Scanning
  <1>3. ASSUME NEW p \in Path, disk[p] # None
        PROVE  disk[p] \in Content /\ FirstPath[disk[p]] = p
    <2>1. disk[p] = IF \E c \in Content : FirstPath[c] = p
                    THEN CHOOSE c \in Content : FirstPath[c] = p ELSE None
      BY DEF Init
    <2> QED
      BY <1>3, <2>1
  <1>4. ASSUME NEW c \in Content
        PROVE  FirstPath[c] \in Path /\ disk[FirstPath[c]] = c
    <2> DEFINE p == FirstPath[c]
    <2>1. p \in Path
      BY PathAssumption
    <2>2. disk[p] = CHOOSE d \in Content : FirstPath[d] = p
      BY <2>1 DEF Init
    <2>3. disk[p] \in Content /\ FirstPath[disk[p]] = p
      BY <2>2
    <2> QED
      BY <2>1, <2>3, PathAssumption
  <1>5. ASSUME NEW p \in Path, row[p] # None
        PROVE  /\ disk[p] # None /\ row[p].prog = None
               /\ row[p].sig = sigOf[owner[p]]
               /\ row[p].extra = (HasExtras /\ p \in ExtraPath)
    <2>1. disk[p] # None /\ row[p] = Scanned(p, None)
      BY <1>5 DEF Init
    <2>2. DiskTypes
      BY <1>1 DEF Base, TypeOK, DiskTypes
    <2> QED
      BY <1>1, <2>1, <2>2, FirstScan
  <1>6. ASSUME NEW p \in Path, disk[p] # None PROVE p \in Rows
    BY <1>1, <1>6, InitBase DEF Fitting, OnDisk
  <1>7. DiskOnce
    BY <1>3 DEF DiskOnce
  <1>8. RowFacts /\ KnownFacts /\ OwnersInPlace
    BY <1>1, <1>5 DEF RowFacts, KnownFacts, OwnersInPlace, Rows
  <1>9. CalmArePresent
    BY <1>4 DEF CalmArePresent, Calm, Present
  <1>10. TwinsStay
    BY <1>1 DEF TwinsStay, RowsOf, Rows
  <1>11. StateIsSomewhere
    <2> SUFFICES ASSUME NEW c \in Content
                 PROVE  /\ \A p \in RowsOf(c) : row[p].prog \in {None, said[c]}
                        /\ \E p \in RowsOf(c) : Good(p, c)
      BY DEF StateIsSomewhere
    <2>1. FirstPath[c] \in RowsOf(c)
      BY <1>1, <1>4, <1>6, NoneAssumption DEF RowsOf
    <2>2. said[c] = None
      BY DEF Init
    <2>3. \A p \in RowsOf(c) : row[p].prog = None
      BY <1>5 DEF RowsOf, Rows
    <2> QED
      BY <1>1, <2>1, <2>2, <2>3 DEF Good
  <1>12. Course
    BY <1>1 DEF Course, SafeIsMounted, HomeInScope, OneAway, WalkedAreOwned, HomesSurvive,
       SurvivorsAreHome, AwayAreOrphans, StateArrives, StaleAreNotCalm, Scanning, Moving
  <1> QED
    BY <1>2, <1>7, <1>8, <1>9, <1>10, <1>11, <1>12 DEF UInv, Places

\* In a synced library the one row of a safe file is where the file is.
LEMMA SyncedIsGood ==
    ASSUME UInv, synced, NEW p \in Path, OnDisk(p), disk[p] \notin gap
    PROVE  row[p] # None /\ Good(p, disk[p])
PROOF
  <1> DEFINE c == disk[p]
  <1>1. c \in Content /\ c # None /\ p \in Rows
    BY DEF UInv, IInv, Base, TypeOK, Fitting, OnDisk
  <1>2. Safe(c)
    BY <1>1 DEF Safe, Present
  <1>3. PICK q \in RowsOf(c) : Good(q, c)
    BY <1>1, <1>2 DEF UInv, StateIsSomewhere
  <1>4. q \in Rows /\ q \in Path /\ disk[q] # None /\ owner[q] = c
    BY <1>3 DEF RowsOf, Rows, UInv, IInv, Fitting, OnDisk
  <1>5. disk[q] = c
    BY <1>2, <1>4 DEF UInv, Places, OwnersInPlace, Safe
  <1>6. q = p
    BY <1>1, <1>4, <1>5 DEF UInv, Places, DiskOnce
  <1> QED
    BY <1>1, <1>3, <1>6 DEF Rows

-----------------------------------------------------------------------------
(* The theorems.                                                           *)

\* The places of the safe files, and of their state, hold of every scan.
THEOREM SafeFiles == Spec => []UInv
PROOF
  <1>1. Init => UInv
    BY InitUInv
  <1>2. UInv /\ [Next]_vars => UInv'
    BY UInvKept
  <1> QED
    BY <1>1, <1>2, PTL DEF Spec

\* After a full scan of a disk that holds still, the progress last reported
\* for a file is on the row of its present path: relinkMovedFiles carries it
\* over moves, through scans cut short, scoped or repeated, next to players
\* that report while it runs; for any number of files, paths and folders.
THEOREM ProgressFollowsFile == Spec => []UserStateFollowsFile
PROOF
  <1>1. UInv => UserStateFollowsFile
    BY SyncedIsGood DEF UserStateFollowsFile, Good
  <1> QED
    BY <1>1, SafeFiles, PTL

\* So is its match, unless the file became an extra meanwhile.
THEOREM IdentityFollowsFile == Spec => []MatchFollowsFile
PROOF
  <1>1. UInv => MatchFollowsFile
    BY SyncedIsGood DEF MatchFollowsFile, Good
  <1> QED
    BY <1>1, SafeFiles, PTL
=============================================================================
