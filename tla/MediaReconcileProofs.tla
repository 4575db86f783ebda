----------------------- MODULE MediaReconcileProofs -----------------------
(***************************************************************************)
(* Proofs about MediaReconcile, for every library, disk and show folder.   *)
(***************************************************************************)
EXTENDS MediaReconcile, TLAPS

-----------------------------------------------------------------------------
(* What the operators on rows make of them.                                *)

LEMMA NoneIsNoRow ==
    ASSUME TypeOK
    PROVE  None \notin Row
PROOF
  <1>1. Sig \subseteq Content
    BY DEF TypeOK, Sig
  <1> QED
    BY <1>1, NoneAssumption DEF Row, Progress

LEMMA RowFields ==
    ASSUME TypeOK, NEW p \in Path, row[p] # None
    PROVE  /\ row[p] \in Row
           /\ row[p].sig \in Sig
           /\ row[p].extra \in BOOLEAN /\ row[p].matched \in BOOLEAN
           /\ row[p].prog \in Progress
PROOF
  <1>1. row[p] \in Row
    BY DEF TypeOK
  <1> QED
    BY <1>1 DEF Row

LEMMA RefreshedRow ==
    ASSUME NEW old \in Row, NEW extra \in BOOLEAN
    PROVE  RefreshExtra(old, extra) =
               [sig |-> old.sig, extra |-> extra, matched |-> old.matched,
                prog |-> old.prog]
PROOF BY DEF Row, RefreshExtra

LEMMA RowIsItsFields ==
    ASSUME NEW old \in Row
    PROVE  old = [sig |-> old.sig, extra |-> old.extra, matched |-> old.matched,
                  prog |-> old.prog]
PROOF BY DEF Row

\* The scanners of the five kinds make the same of a file, though some leave
\* an unchanged file alone and some only refresh its extras flag.
THEOREM ScannersAgree ==
    ASSUME TypeOK, NEW p \in Path, OnDisk(p)
    PROVE  Scanned(p, row[p]) = Upserted(p, row[p], HasExtras /\ p \in ExtraPath)
PROOF
  <1> DEFINE old == row[p]
  <1>1. kind \in Kinds
    BY DEF TypeOK
  <1>2. ASSUME Unchanged(p, old)
        PROVE  /\ RefreshExtra(old, p \in ExtraPath) = Upserted(p, old, p \in ExtraPath)
               /\ ~HasExtras => old = Upserted(p, old, FALSE)
    <2>1. old # None /\ old.sig = sigOf[disk[p]]
      BY <1>2 DEF Unchanged
    <2>2. old \in Row /\ old.matched \in BOOLEAN
      BY <2>1, RowFields
    <2>3. ~HasExtras => old.extra = FALSE
      BY <2>1, RowFields DEF TypeOK, Rows
    <2>4. (old # None /\ old.matched) = old.matched
      BY <2>1, <2>2
    <2> HIDE DEF old
    <2>5. RefreshExtra(old, p \in ExtraPath) = Upserted(p, old, p \in ExtraPath)
      <3> DEFINE extra == p \in ExtraPath
      <3>1. extra \in BOOLEAN
        OBVIOUS
      <3> HIDE DEF extra
      <3>2. RefreshExtra(old, extra) = Upserted(p, old, extra)
        BY <2>1, <2>2, <2>4, <3>1, RefreshedRow DEF Upserted
      <3> QED
        BY <3>2 DEF extra
    <2>6. ASSUME ~HasExtras PROVE old = Upserted(p, old, FALSE)
      BY <2>1, <2>2, <2>3, <2>4, <2>6, RowIsItsFields DEF Upserted
    <2> QED
      BY <2>5, <2>6
  <1> HIDE DEF old
  <1>3. Upserted(p, old, HasExtras /\ p \in ExtraPath) =
            IF HasExtras THEN Upserted(p, old, p \in ExtraPath) ELSE Upserted(p, old, FALSE)
    <2>1. CASE HasExtras
      <3>1. (HasExtras /\ p \in ExtraPath) = (p \in ExtraPath)
        BY <2>1
      <3> QED
        BY <2>1, <3>1
    <2>2. CASE ~HasExtras
      <3>1. (HasExtras /\ p \in ExtraPath) = FALSE
        BY <2>2
      <3> QED
        BY <2>2, <3>1
    <2> QED
      BY <2>1, <2>2
  <1>4. CASE HasExtras
    <2>1. kind = "tv" \/ kind = "movie"
      BY <1>4 DEF HasExtras
    <2>2. Scanned(p, old) = IF Unchanged(p, old) THEN RefreshExtra(old, p \in ExtraPath)
                                                 ELSE Upserted(p, old, p \in ExtraPath)
      BY <2>1 DEF Scanned, IngestTVFile, IngestMovieFile, UpsertMovieFile
    <2> QED
      BY <1>2, <1>3, <1>4, <2>2 DEF old
  <1>5. CASE ~HasExtras
    <2>1. kind = "photo" \/ kind = "book" \/ kind = "audiobook"
      BY <1>1, <1>5 DEF HasExtras, Kinds
    <2>2. Scanned(p, old) = IF Unchanged(p, old) THEN old ELSE Upserted(p, old, FALSE)
      BY <2>1 DEF Scanned, IngestPhoto, UpsertPhoto, ScanBookFile, ScanAudiobookFile
    <2> QED
      BY <1>2, <1>3, <1>5, <2>2 DEF old
  <1> QED
    BY <1>4, <1>5

LEMMA ScannedRow ==
    ASSUME TypeOK, NEW p \in Path, OnDisk(p)
    PROVE  /\ Scanned(p, row[p]) \in Row
           /\ Scanned(p, row[p]) # None
           /\ Scanned(p, row[p]).sig = sigOf[disk[p]]
           /\ Scanned(p, row[p]).extra = (HasExtras /\ p \in ExtraPath)
           /\ Scanned(p, row[p]).matched = (row[p] # None /\ row[p].matched)
           /\ Scanned(p, row[p]).prog = IF row[p] = None THEN None ELSE row[p].prog
PROOF
  <1> DEFINE extra == HasExtras /\ p \in ExtraPath
             matched == row[p] # None /\ row[p].matched
             prog == IF row[p] = None THEN None ELSE row[p].prog
             new == [sig |-> sigOf[disk[p]], extra |-> extra, matched |-> matched,
                     prog |-> prog]
  <1>1. Scanned(p, row[p]) = new
    BY ScannersAgree DEF Upserted
  <1>2. sigOf[disk[p]] \in Sig
    BY DEF TypeOK, OnDisk, Sig
  <1>3. extra \in BOOLEAN /\ matched \in BOOLEAN
    OBVIOUS
  <1>4. prog \in Progress
    BY RowFields DEF Progress
  <1>5. matched = (row[p] # None /\ row[p].matched)
    OBVIOUS
  <1>6. prog = IF row[p] = None THEN None ELSE row[p].prog
    OBVIOUS
  <1> HIDE DEF extra, matched, prog
  <1>7. new \in Row
    BY <1>2, <1>3, <1>4 DEF Row
  <1>8. new # None
    BY <1>7, NoneIsNoRow
  <1>9. new.sig = sigOf[disk[p]] /\ new.extra = extra /\ new.matched = matched
            /\ new.prog = prog
    OBVIOUS
  <1>10. new.extra = (HasExtras /\ p \in ExtraPath)
    BY <1>9 DEF extra
  <1> HIDE DEF new
  <1> QED
    BY <1>1, <1>5, <1>6, <1>7, <1>8, <1>9, <1>10

\* A transfer keeps the survivor's file data and never un-completes a book.
LEMMA CarriedRow ==
    ASSUME kind \in Kinds, NEW from \in Row, NEW to \in Row
    PROVE  /\ Carried(from, to) \in Row
           /\ Carried(from, to).sig = to.sig
           /\ Carried(from, to).extra = to.extra
           /\ Carried(from, to).matched => from.matched \/ to.matched
           /\ kind \in {"book", "audiobook"} /\ Done(to.prog) => Done(Carried(from, to).prog)
PROOF
  <1>1. /\ from.prog \in Progress /\ to.prog \in Progress
        /\ from.matched \in BOOLEAN /\ to.matched \in BOOLEAN
        /\ to.sig \in Sig /\ to.extra \in BOOLEAN
    BY DEF Row
  <1>2. Overwritten(from.prog, to.prog) \in Progress
    BY <1>1 DEF Overwritten
  <1>3. /\ Merged(from.prog, to.prog) \in Progress
        /\ Done(to.prog) => Done(Merged(from.prog, to.prog))
    <2>1. CASE from.prog = None
      BY <1>1, <2>1 DEF Merged
    <2>2. CASE from.prog # None
      <3> DEFINE done == from.prog.done \/ Done(to.prog)
                 new == [from.prog EXCEPT !.done = done]
      <3>1. from.prog \in [pos : {0, 1}, done : BOOLEAN]
        BY <1>1, <2>2 DEF Progress
      <3>2. done \in BOOLEAN /\ (Done(to.prog) => done)
        OBVIOUS
      <3>3. Merged(from.prog, to.prog) = new
        BY <2>2 DEF Merged
      <3> HIDE DEF done
      <3>4. new \in [pos : {0, 1}, done : BOOLEAN] /\ new.done = done
        BY <3>1, <3>2
      <3>5. new # None
        BY <3>4, NoneAssumption
      <3> HIDE DEF new
      <3> QED
        BY <3>2, <3>3, <3>4, <3>5 DEF Progress, Done
    <2> QED
      BY <2>1, <2>2
  <1>4. ASSUME NEW m \in BOOLEAN, NEW g \in Progress
        PROVE  /\ [to EXCEPT !.matched = m, !.prog = g] \in Row
               /\ [to EXCEPT !.matched = m, !.prog = g].sig = to.sig
               /\ [to EXCEPT !.matched = m, !.prog = g].extra = to.extra
               /\ [to EXCEPT !.matched = m, !.prog = g].matched = m
    BY DEF Row
  <1>5. ASSUME NEW g \in Progress
        PROVE  /\ [to EXCEPT !.prog = g] \in Row
               /\ [to EXCEPT !.prog = g].sig = to.sig
               /\ [to EXCEPT !.prog = g].extra = to.extra
               /\ [to EXCEPT !.prog = g].matched = to.matched
               /\ [to EXCEPT !.prog = g].prog = g
    BY DEF Row
  <1>6. CASE kind \in {"tv", "movie"}
    <2> DEFINE m == to.matched \/ from.matched
               g == Overwritten(from.prog, to.prog)
    <2>1. m \in BOOLEAN /\ (m => from.matched \/ to.matched)
      OBVIOUS
    <2>2. Carried(from, to) = [to EXCEPT !.matched = m, !.prog = g]
      BY <1>6 DEF Carried, TransferTVState, TransferMovieState
    <2> HIDE DEF m, g
    <2>3. g \in Progress
      BY <1>2 DEF g
    <2> DEFINE new == [to EXCEPT !.matched = m, !.prog = g]
    <2>4. new \in Row /\ new.sig = to.sig /\ new.extra = to.extra /\ new.matched = m
      BY <1>4, <2>1, <2>3
    <2>5. kind \notin {"book", "audiobook"} /\ Carried(from, to) = new
      BY <1>6, <2>2
    <2> HIDE DEF new
    <2> QED
      BY <2>1, <2>4, <2>5
  <1>7. CASE kind = "photo"
    <2> DEFINE g == Overwritten(from.prog, to.prog)
    <2>1. Carried(from, to) = [to EXCEPT !.prog = g]
      BY <1>7 DEF Carried, TransferPhotoState
    <2> HIDE DEF g
    <2>2. g \in Progress
      BY <1>2 DEF g
    <2> QED
      BY <1>5, <1>7, <2>1, <2>2
  <1>8. CASE kind \in {"book", "audiobook"}
    <2> DEFINE g == Merged(from.prog, to.prog)
    <2>1. Carried(from, to) = [to EXCEPT !.prog = g]
      BY <1>8 DEF Carried, RelinkBook, RelinkAudiobook
    <2>2. Done(to.prog) => Done(g)
      BY <1>3
    <2>3. g \in Progress
      BY <1>3
    <2> HIDE DEF g
    <2> QED
      BY <1>5, <1>8, <2>1, <2>2, <2>3
  <1> QED
    BY <1>6, <1>7, <1>8 DEF Kinds

-----------------------------------------------------------------------------
(* What a step can do to the rows.                                         *)

Moving == pc \in {"stat", "transfer"}

\* The rows a relink lists are there until its prune.
ListedAreRows ==
    /\ Moving => todo \cup orphans \cup survivors \subseteq Rows
    /\ (pc = "walk") => (orphans = {} /\ survivors = {})

\* A row was scanned from some file.
RowsAreOwned == \A p \in Rows : owner[p] \in Content

Base == TypeOK /\ ListedAreRows /\ RowsAreOwned

Books == {"book", "audiobook"}

Kept(p) ==
    /\ owner'[p] = owner[p]
    /\ \/ row'[p] = row[p]
       \/ /\ row[p] # None /\ row'[p] # None
          /\ row'[p].sig = row[p].sig
          /\ row'[p].extra = row[p].extra

ScannedNow(p) ==
    /\ pc = "walk" /\ p \in todo /\ OnDisk(p)
    /\ row'[p] # None
    /\ row'[p].sig = sigOf[disk[p]]
    /\ row'[p].extra = (HasExtras /\ p \in ExtraPath)
    /\ owner'[p] = disk[p]

PrunedNow(p) == pc = "delete" /\ p \in stale /\ row'[p] = None

RowStep(p) ==
    /\ row'[p] # None => /\ row'[p].extra => HasExtras
                         /\ row'[p].matched => HasMatch
    /\ Kept(p) \/ ScannedNow(p) \/ PrunedNow(p)
    /\ EarnedLost(p) => kind \notin Books

RowsStep ==
    /\ row' \in [Path -> Row \cup {None}]
    /\ \A p \in Path : RowStep(p)

LEMMA SameRows ==
    ASSUME Base, UNCHANGED <<row, owner>>
    PROVE  RowsStep
PROOF BY DEF Base, TypeOK, RowsStep, RowStep, Kept, EarnedLost, Rows

LEMMA OneRowKept ==
    ASSUME Base, NEW p \in Path, row[p] # None, NEW r \in Row,
           row' = [row EXCEPT ![p] = r],
           r.sig = row[p].sig, r.extra = row[p].extra,
           r.matched => HasMatch,
           kind \in Books /\ Done(row[p].prog) => Done(r.prog),
           UNCHANGED owner
    PROVE  RowsStep
PROOF
  <1>1. r # None
    BY NoneIsNoRow DEF Base
  <1>2. row' \in [Path -> Row \cup {None}]
    BY DEF Base, TypeOK
  <1>3. row'[p] = r
    BY DEF Base, TypeOK
  <1>4. RowStep(p)
    <2>1. r.extra => HasExtras
      BY DEF Base, TypeOK, Rows
    <2>2. EarnedLost(p) => kind \notin Books
      BY <1>3 DEF EarnedLost
    <2>3. Kept(p)
      BY <1>1, <1>3 DEF Kept
    <2> QED
      BY <1>3, <2>1, <2>2, <2>3 DEF RowStep
  <1>5. ASSUME NEW q \in Path, q # p PROVE RowStep(q)
    <2>1. row'[q] = row[q]
      BY <1>5 DEF Base, TypeOK
    <2> QED
      BY <2>1 DEF RowStep, Kept, EarnedLost, Base, TypeOK, Rows
  <1> QED
    BY <1>2, <1>4, <1>5 DEF RowsStep

LEMMA VisitRows ==
    ASSUME Base, NEW p \in Path, Visit(p)
    PROVE  RowsStep
PROOF
  <1>1. CASE UNCHANGED <<row, owner>>
    BY <1>1, SameRows
  <1>2. CASE /\ OnDisk(p) /\ row' = [row EXCEPT ![p] = Scanned(p, row[p])]
             /\ owner' = [owner EXCEPT ![p] = disk[p]]
    <2> DEFINE new == Scanned(p, row[p])
    <2>1. /\ new \in Row /\ new # None
          /\ new.sig = sigOf[disk[p]]
          /\ new.extra = (HasExtras /\ p \in ExtraPath)
          /\ new.matched => row[p] # None /\ row[p].matched
          /\ new.prog = IF row[p] = None THEN None ELSE row[p].prog
      BY <1>2, ScannedRow DEF Base
    <2>2. row' = [row EXCEPT ![p] = new]
      BY <1>2
    <2> HIDE DEF new
    <2>3. row' \in [Path -> Row \cup {None}] /\ row'[p] = new
      BY <2>1, <2>2 DEF Base, TypeOK
    <2>4. RowStep(p)
      <3>1. new.extra => HasExtras
        BY <2>1
      <3>2. new.matched => HasMatch
        BY <2>1 DEF Base, TypeOK, Rows
      <3>3. ScannedNow(p)
        BY <1>2, <2>1, <2>3 DEF ScannedNow, Visit, Base, TypeOK
      <3>4. ~EarnedLost(p)
        BY <2>1, <2>3 DEF EarnedLost
      <3> QED
        BY <2>3, <3>1, <3>2, <3>3, <3>4 DEF RowStep
    <2>5. ASSUME NEW q \in Path, q # p PROVE RowStep(q)
      <3>1. row'[q] = row[q] /\ owner'[q] = owner[q]
        BY <1>2, <2>2, <2>5 DEF Base, TypeOK
      <3> QED
        BY <3>1 DEF RowStep, Kept, EarnedLost, Base, TypeOK, Rows
    <2> QED
      BY <2>3, <2>4, <2>5 DEF RowsStep
  <1> QED
    BY <1>1, <1>2 DEF Visit

LEMMA ResetRows ==
    ASSUME Base, row' = ResetExtras, UNCHANGED owner
    PROVE  RowsStep
PROOF
  <1>1. ASSUME NEW p \in Path
        PROVE  row'[p] \in Row \cup {None} /\ RowStep(p)
    <2>1. row'[p] = IF row[p] # None /\ row[p].extra
                    THEN [row[p] EXCEPT !.matched = FALSE] ELSE row[p]
      BY DEF ResetExtras
    <2>2. CASE row[p] # None /\ row[p].extra
      <3> DEFINE new == [row[p] EXCEPT !.matched = FALSE]
      <3>1. row[p] \in Row /\ row[p].extra
        BY <2>2, RowFields DEF Base
      <3>2. new \in Row
        BY <3>1 DEF Row
      <3>3. /\ new.sig = row[p].sig /\ new.extra = row[p].extra
            /\ new.matched = FALSE /\ new.prog = row[p].prog
        BY <3>1 DEF Row
      <3>4. new # None
        BY <3>2, NoneIsNoRow DEF Base
      <3>5. row'[p] = new
        BY <2>1, <2>2
      <3>6. new.extra => HasExtras
        BY <2>2, <3>3 DEF Base, TypeOK, Rows
      <3> HIDE DEF new
      <3>7. Kept(p) /\ ~EarnedLost(p)
        BY <2>2, <3>3, <3>4, <3>5 DEF Kept, EarnedLost
      <3>8. new.matched => HasMatch
        BY <3>3
      <3> QED
        BY <3>2, <3>5, <3>6, <3>7, <3>8 DEF RowStep
    <2>3. CASE ~(row[p] # None /\ row[p].extra)
      <3>1. row'[p] = row[p]
        BY <2>1, <2>3
      <3> QED
        BY <3>1 DEF RowStep, Kept, EarnedLost, Base, TypeOK, Rows
    <2> QED
      BY <2>2, <2>3
  <1> QED
    BY <1>1 DEF RowsStep, ResetExtras

LEMMA TransferRows ==
    ASSUME Base, NEW o \in Path, Transfer(o)
    PROVE  RowsStep
PROOF
  <1>1. o \in Rows /\ pc = "transfer"
    BY DEF Transfer, Base, ListedAreRows, Moving
  <1>2. PICK p \in survivors : row' = [row EXCEPT ![p] = Carried(row[o], row[p])]
    BY DEF Transfer
  <1>3. p \in Rows
    BY <1>1 DEF Base, ListedAreRows, Moving
  <1>4. /\ p \in Path /\ row[p] # None /\ row[o] # None
        /\ row[p] \in Row /\ row[o] \in Row
    BY <1>1, <1>3, RowFields DEF Rows, Base
  <1> DEFINE r == Carried(row[o], row[p])
  <1>5. /\ r \in Row /\ r.sig = row[p].sig /\ r.extra = row[p].extra
        /\ r.matched => row[o].matched \/ row[p].matched
        /\ kind \in Books /\ Done(row[p].prog) => Done(r.prog)
    BY <1>4, CarriedRow DEF Base, TypeOK, Books
  <1>6. r.matched => HasMatch
    BY <1>1, <1>3, <1>5 DEF Base, TypeOK
  <1>7. row' = [row EXCEPT ![p] = r]
    BY <1>2
  <1>8. owner' = owner
    BY DEF Transfer, history
  <1> HIDE DEF r
  <1> QED
    BY <1>4, <1>5, <1>6, <1>7, <1>8, OneRowKept

LEMMA PruneRows ==
    ASSUME Base, NEW gone, gone \subseteq stale, DeleteRows(gone)
    PROVE  RowsStep
PROOF
  <1>1. /\ row' = [p \in Path |-> IF p \in gone THEN None ELSE row[p]]
        /\ pc = "delete" /\ owner' = owner
    BY DEF DeleteRows, history
  <1>2. ASSUME NEW p \in Path
        PROVE  row'[p] \in Row \cup {None} /\ RowStep(p)
    <2>1. CASE p \in gone
      BY <1>1, <2>1 DEF RowStep, PrunedNow, EarnedLost
    <2>2. CASE p \notin gone
      BY <1>1, <2>2 DEF RowStep, Kept, EarnedLost, Base, TypeOK, Rows
    <2> QED
      BY <2>1, <2>2
  <1> QED
    BY <1>1, <1>2 DEF RowsStep

LEMMA ReportedProgress ==
    ASSUME NEW g \in Progress, NEW done \in BOOLEAN
    PROVE  /\ Reported(g, done) \in Progress
           /\ Done(g) => Done(Reported(g, done))
PROOF
  <1> DEFINE b == done \/ Done(g)
             new == [pos |-> 1, done |-> b]
  <1>1. b \in BOOLEAN /\ (Done(g) => b)
    OBVIOUS
  <1>2. Reported(g, done) = new
    BY DEF Reported
  <1> HIDE DEF b
  <1>3. new \in [pos : {0, 1}, done : BOOLEAN] /\ new.done = b
    BY <1>1
  <1>4. new # None
    BY <1>3, NoneAssumption
  <1> HIDE DEF new
  <1> QED
    BY <1>1, <1>2, <1>3, <1>4 DEF Progress, Done

LEMMA MarkedProgress ==
    ASSUME NEW done \in BOOLEAN
    PROVE  [pos |-> 0, done |-> done] \in Progress
PROOF BY DEF Progress

LEMMA ReportRows ==
    ASSUME Base, NEW p \in Path, NEW done \in BOOLEAN, Reports(p, done)
    PROVE  RowsStep
PROOF
  <1>1. row[p] # None /\ row[p] \in Row
    BY RowFields DEF Reports, Writes, Rows, Base
  <1> DEFINE g == Reported(row[p].prog, done)
             r == [row[p] EXCEPT !.prog = g]
  <1>2. g \in Progress /\ (Done(row[p].prog) => Done(g))
    BY <1>1, ReportedProgress, RowFields DEF Base
  <1>3. row' = [row EXCEPT ![p] = r]
    BY DEF Reports
  <1> HIDE DEF g
  <1>4. r \in Row /\ r.sig = row[p].sig /\ r.extra = row[p].extra /\ r.prog = g
        /\ r.matched = row[p].matched
    BY <1>1, <1>2 DEF Row
  <1>5. row[p].matched => HasMatch
    BY <1>1 DEF Base, TypeOK, Rows
  <1> HIDE DEF r
  <1>6. r.matched => HasMatch
    BY <1>4, <1>5
  <1>7. Done(row[p].prog) => Done(r.prog)
    BY <1>2, <1>4
  <1>8. owner' = owner
    BY DEF Reports, Writes
  <1> QED
    BY <1>1, <1>3, <1>4, <1>6, <1>7, <1>8, OneRowKept

LEMMA MarkRows ==
    ASSUME Base, NEW p \in Path, NEW done \in BOOLEAN, MarkWatched(p, done),
           kind \notin Books
    PROVE  RowsStep
PROOF
  <1>1. row[p] # None /\ row[p] \in Row
    BY RowFields DEF MarkWatched, Writes, Rows, Base
  <1> DEFINE g == [pos |-> 0, done |-> done]
             r == [row[p] EXCEPT !.prog = g]
  <1>2. g \in Progress
    BY MarkedProgress
  <1>3. row' = [row EXCEPT ![p] = r]
    BY DEF MarkWatched
  <1> HIDE DEF g
  <1>4. r \in Row /\ r.sig = row[p].sig /\ r.extra = row[p].extra
        /\ r.matched = row[p].matched
    BY <1>1, <1>2 DEF Row
  <1>5. row[p].matched => HasMatch
    BY <1>1 DEF Base, TypeOK, Rows
  <1> HIDE DEF r
  <1>6. r.matched => HasMatch
    BY <1>4, <1>5
  <1>7. owner' = owner
    BY DEF MarkWatched, Writes
  <1> QED
    BY <1>1, <1>3, <1>4, <1>6, <1>7, OneRowKept

LEMMA MatchRows ==
    ASSUME Base, NEW p \in Path, Match(p)
    PROVE  RowsStep
PROOF
  <1>1. row[p] # None /\ row[p] \in Row /\ HasMatch
    BY RowFields DEF Match, Writes, Rows, Base
  <1> DEFINE r == [row[p] EXCEPT !.matched = TRUE]
  <1>2. row' = [row EXCEPT ![p] = r]
    BY DEF Match
  <1>3. r \in Row /\ r.sig = row[p].sig /\ r.extra = row[p].extra /\ r.prog = row[p].prog
    BY <1>1 DEF Row
  <1>4. owner' = owner
    BY DEF Match, Writes
  <1> HIDE DEF r
  <1> QED
    BY <1>1, <1>2, <1>3, <1>4, OneRowKept

LEMMA StepKeepsRows ==
    ASSUME Base, [Next]_vars
    PROVE  RowsStep
PROOF
  <1>1. ASSUME NEW s \in {Path} \cup ShowDir, StartScan(s) PROVE RowsStep
    BY <1>1, SameRows DEF StartScan
  <1>2. ASSUME NEW p \in Path, Visit(p) PROVE RowsStep
    BY <1>2, VisitRows
  <1>3. ASSUME NEW p \in Path, RelinkStat(p) \/ PruneStat(p) PROVE RowsStep
    BY <1>3, SameRows DEF RelinkStat, PruneStat, history
  <1>4. ASSUME NEW p \in Path, Transfer(p) PROVE RowsStep
    BY <1>4, TransferRows
  <1>5. CASE EndWalkEmpty \/ EndStat \/ EndTransfer \/ EndCheck \/ EndScan \/ Abort
    BY <1>5, SameRows DEF EndWalkEmpty, EndStat, EndTransfer, EndCheck, EndScan, Abort,
       history
  <1>6. CASE EndWalk
    <2>1. row' = ResetExtras \/ UNCHANGED row
      BY <1>6 DEF EndWalk
    <2>2. owner' = owner
      BY <1>6 DEF EndWalk, history
    <2> QED
      BY <2>1, <2>2, ResetRows, SameRows
  <1>7. CASE PruneTVFiles \/ PruneMovieFiles \/ PrunePhotos
    BY <1>7, PruneRows DEF PruneTVFiles, PruneMovieFiles, PrunePhotos
  <1>8. ASSUME NEW p \in Path, PruneBook(p) \/ PruneAudiobook(p) PROVE RowsStep
    <2>1. {p} \subseteq stale /\ DeleteRows({p})
      BY <1>8 DEF PruneBook, PruneAudiobook
    <2> QED
      BY <2>1, PruneRows
  <1>9. ASSUME NEW p \in Path, NEW done \in BOOLEAN, Reports(p, done) PROVE RowsStep
    BY <1>9, ReportRows
  <1>10. ASSUME NEW p \in Path, NEW done \in BOOLEAN,
                TVMarkWatched(p, done) \/ MovieMarkWatched(p, done)
         PROVE  RowsStep
    <2>1. MarkWatched(p, done) /\ kind \notin Books
      BY <1>10 DEF TVMarkWatched, MovieMarkWatched, Books
    <2> QED
      BY <2>1, MarkRows
  <1>11. ASSUME NEW p \in Path, Match(p) PROVE RowsStep
    BY <1>11, MatchRows
  <1>12. ASSUME NEW p \in Path, Delete(p) PROVE RowsStep
    BY <1>12, SameRows DEF Delete, Changes
  <1>13. ASSUME NEW p \in Path, NEW q \in Path, Move(p, q) PROVE RowsStep
    BY <1>13, SameRows DEF Move, Changes
  <1>14. CASE Remount
    BY <1>14, SameRows DEF Remount, Changes
  <1>15. CASE UNCHANGED vars
    BY <1>15, SameRows DEF vars, history
  <1>16. ASSUME ScannerStep PROVE RowsStep
    BY <1>2, <1>3, <1>4, <1>5, <1>6, <1>7, <1>8, <1>16 DEF ScannerStep
  <1>17. ASSUME NEW p \in Path, NEW done \in BOOLEAN,
                \/ TVPlaybackProgress(p, done) \/ MoviePlaybackProgress(p, done)
                \/ PhotoPlaybackProgress(p, done)
                \/ BookReadingProgress(p, done) \/ AudiobookPlaybackProgress(p, done)
                \/ TVMarkWatched(p, done) \/ MovieMarkWatched(p, done)
         PROVE  RowsStep
    BY <1>9, <1>10, <1>17 DEF TVPlaybackProgress, MoviePlaybackProgress,
       PhotoPlaybackProgress, BookReadingProgress, AudiobookPlaybackProgress
  <1> QED
    BY <1>1, <1>5, <1>11, <1>12, <1>13, <1>14, <1>15, <1>16, <1>17 DEF Next

-----------------------------------------------------------------------------
(* Types.                                                                  *)

ScanTypes ==
    /\ pc \in Phases /\ scope \subseteq Path /\ todo \subseteq scope /\ saw \in BOOLEAN
    /\ orphans \subseteq scope /\ survivors \subseteq scope /\ stale \subseteq scope
    /\ scans \in 0..MaxScans

DiskTypes ==
    /\ kind \in Kinds /\ sigOf \in [Content -> Content]
    /\ disk \in [Path -> Content \cup {None}] /\ mounted \in BOOLEAN
    /\ moves \in 0..MaxMoves

HistoryTypes ==
    /\ acts \in 0..MaxActs
    /\ owner \in [Path -> Content \cup {None}] /\ said \in [Content -> Progress]
    /\ known \subseteq Content /\ gap \subseteq Content
    /\ quiet \in BOOLEAN /\ synced \in BOOLEAN /\ dark \in BOOLEAN

LEMMA RowsStay ==
    ASSUME RowsStep, pc # "delete"
    PROVE  Rows \subseteq Rows'
PROOF BY DEF RowsStep, RowStep, Kept, ScannedNow, PrunedNow, Rows

LEMMA ListedRowsStay ==
    ASSUME Base, RowsStep, UNCHANGED scanner
    PROVE  (ScanTypes /\ ListedAreRows)'
PROOF
  <1>1. ScanTypes'
    BY DEF Base, TypeOK, ScanTypes, scanner, Phases
  <1>2. ASSUME Moving' PROVE todo' \cup orphans' \cup survivors' \subseteq Rows'
    <2>1. Moving /\ pc # "delete" /\ UNCHANGED <<todo, orphans, survivors>>
      BY <1>2 DEF Moving, scanner
    <2>2. Rows \subseteq Rows'
      BY <2>1, RowsStay
    <2> QED
      BY <2>1, <2>2 DEF Base, ListedAreRows
  <1>3. ASSUME pc' = "walk" PROVE orphans' = {} /\ survivors' = {}
    BY <1>3 DEF Base, ListedAreRows, scanner
  <1> QED
    BY <1>1, <1>2, <1>3 DEF ListedAreRows

\* What players, users and the matcher do.
Users(p, done) ==
    \/ TVPlaybackProgress(p, done) \/ MoviePlaybackProgress(p, done)
    \/ PhotoPlaybackProgress(p, done)
    \/ BookReadingProgress(p, done) \/ AudiobookPlaybackProgress(p, done)
    \/ TVMarkWatched(p, done) \/ MovieMarkWatched(p, done)
    \/ Match(p)

LEMMA UsersWriteRows ==
    ASSUME NEW p \in Path, NEW done \in BOOLEAN, Users(p, done)
    PROVE  UNCHANGED <<fixed, diskVars, scanner, owner, quiet, synced, dark>>
PROOF BY DEF Users, TVPlaybackProgress, MoviePlaybackProgress, PhotoPlaybackProgress,
         BookReadingProgress, AudiobookPlaybackProgress, TVMarkWatched,
         MovieMarkWatched, Match, Reports, MarkWatched, Writes

LEMMA ScannerOrOthers ==
    ASSUME [Next]_vars
    PROVE  \/ \E s \in {Path} \cup ShowDir : StartScan(s)
           \/ ScannerStep
           \/ Abort
           \/ UNCHANGED scanner
PROOF
  <1>1. ASSUME NEW p \in Path, NEW done \in BOOLEAN,
               \/ TVPlaybackProgress(p, done) \/ MoviePlaybackProgress(p, done)
               \/ PhotoPlaybackProgress(p, done)
               \/ BookReadingProgress(p, done) \/ AudiobookPlaybackProgress(p, done)
               \/ TVMarkWatched(p, done) \/ MovieMarkWatched(p, done)
        PROVE  UNCHANGED scanner
    BY <1>1, UsersWriteRows DEF Users
  <1>2. ASSUME NEW p \in Path, Match(p) \/ Delete(p) PROVE UNCHANGED scanner
    BY <1>2, UsersWriteRows DEF Users, Delete, Changes
  <1>3. ASSUME NEW p \in Path, NEW q \in Path, Move(p, q) PROVE UNCHANGED scanner
    BY <1>3 DEF Move, Changes
  <1>4. ASSUME Remount PROVE UNCHANGED scanner
    BY <1>4 DEF Remount, Changes
  <1>5. ASSUME UNCHANGED vars PROVE UNCHANGED scanner
    BY <1>5 DEF vars
  <1> QED
    BY <1>1, <1>2, <1>3, <1>4, <1>5 DEF Next

LEMMA ScanTypesKept ==
    ASSUME Base, [Next]_vars
    PROVE  (ScanTypes /\ ListedAreRows)'
PROOF
  <1> USE DEF ScanTypes, ListedAreRows, Moving
  <1> DEFINE Goal == (ScanTypes /\ ListedAreRows)'
  <1>0. ScanTypes /\ ListedAreRows
    BY DEF Base, TypeOK
  <1>r. RowsStep
    BY StepKeepsRows
  <1>s. pc # "delete" => Rows \subseteq Rows'
    BY <1>r, RowsStay
  <1>1. ASSUME NEW s \in {Path} \cup ShowDir, StartScan(s) PROVE Goal
    <2>1. s \subseteq Path
      BY PathAssumption
    <2>2. scans' \in 0..MaxScans
      BY <1>0, <1>1, BoundsAssumption DEF StartScan
    <2> QED
      BY <1>1, <2>1, <2>2 DEF StartScan, Phases
  <1>2. ASSUME NEW p \in Path, Visit(p) PROVE Goal
    BY <1>0, <1>2 DEF Visit, Phases
  <1>3. ASSUME NEW p \in Path, RelinkStat(p) PROVE Goal
    BY <1>0, <1>s, <1>3 DEF RelinkStat, Phases
  <1>4. ASSUME NEW p \in Path, PruneStat(p) PROVE Goal
    BY <1>0, <1>4 DEF PruneStat, Phases
  <1>5. ASSUME NEW p \in Path, Transfer(p) PROVE Goal
    BY <1>0, <1>s, <1>5 DEF Transfer, Phases
  <1>6. ASSUME EndWalkEmpty \/ Abort \/ EndCheck \/ EndScan PROVE Goal
    BY <1>0, <1>6 DEF EndWalkEmpty, Abort, EndCheck, EndScan, Phases
  <1>7. ASSUME EndWalk PROVE Goal
    <2>1. UNCHANGED <<scope, saw, orphans, survivors, stale, scans>>
          /\ pc' = "stat" /\ todo' = Rows \cap scope
      BY <1>7 DEF EndWalk
    <2>2. orphans = {} /\ survivors = {}
      BY <1>0, <1>7 DEF EndWalk
    <2> QED
      BY <1>0, <1>s, <1>7, <2>1, <2>2 DEF EndWalk, Phases
  <1>8. ASSUME EndStat PROVE Goal
    BY <1>0, <1>s, <1>8 DEF EndStat, Phases
  <1>9. ASSUME EndTransfer PROVE Goal
    BY <1>0, <1>9 DEF EndTransfer, Phases
  <1>10. ASSUME NEW gone, DeleteRows(gone) PROVE Goal
    BY <1>0, <1>10 DEF DeleteRows, Phases
  <1>11. ASSUME PruneTVFiles \/ PruneMovieFiles \/ PrunePhotos PROVE Goal
    BY <1>10, <1>11 DEF PruneTVFiles, PruneMovieFiles, PrunePhotos
  <1>12. ASSUME NEW p \in Path, PruneBook(p) \/ PruneAudiobook(p) PROVE Goal
    BY <1>10, <1>12 DEF PruneBook, PruneAudiobook
  <1>13. ScannerStep => Goal
    BY <1>2, <1>3, <1>4, <1>5, <1>6, <1>7, <1>8, <1>9, <1>11, <1>12 DEF ScannerStep
  <1>14. ASSUME UNCHANGED scanner PROVE Goal
    BY <1>14, <1>r, ListedRowsStay
  <1> HIDE DEF Goal
  <1>15. Goal
    BY <1>1, <1>6, <1>13, <1>14, ScannerOrOthers
  <1> QED
    BY <1>15 DEF Goal

LEMMA DiskTypesKept ==
    ASSUME Base, [Next]_vars
    PROVE  DiskTypes' /\ UNCHANGED fixed
PROOF
  <1> DEFINE Goal == DiskTypes' /\ UNCHANGED fixed
  <1>0. DiskTypes
    BY DEF Base, TypeOK, DiskTypes
  <1>1. ASSUME UNCHANGED <<fixed, diskVars>> PROVE Goal
    BY <1>0, <1>1 DEF DiskTypes, fixed, diskVars
  <1>2. ASSUME NEW s \in {Path} \cup ShowDir, StartScan(s)
        PROVE  UNCHANGED <<fixed, diskVars>>
    BY <1>2 DEF StartScan
  <1>3. ASSUME ScannerStep \/ Abort PROVE UNCHANGED <<fixed, diskVars>>
    BY <1>3 DEF ScannerStep, Abort, Visit, RelinkStat, Transfer, PruneStat, EndWalkEmpty,
       EndWalk, EndStat, EndTransfer, EndCheck, EndScan, PruneTVFiles, PruneMovieFiles,
       PrunePhotos, PruneBook, PruneAudiobook, DeleteRows
  <1>4. ASSUME NEW p \in Path, NEW done \in BOOLEAN,
               \/ TVPlaybackProgress(p, done) \/ MoviePlaybackProgress(p, done)
               \/ PhotoPlaybackProgress(p, done)
               \/ BookReadingProgress(p, done) \/ AudiobookPlaybackProgress(p, done)
               \/ TVMarkWatched(p, done) \/ MovieMarkWatched(p, done)
        PROVE  UNCHANGED <<fixed, diskVars>>
    BY <1>4, UsersWriteRows DEF Users
  <1>5. ASSUME NEW p \in Path, Match(p) PROVE UNCHANGED <<fixed, diskVars>>
    BY <1>5, UsersWriteRows DEF Users
  <1>6. ASSUME NEW lost, Changes(lost) PROVE moves' \in 0..MaxMoves /\ UNCHANGED fixed
    BY <1>0, <1>6, BoundsAssumption DEF DiskTypes, Changes
  <1>7. ASSUME NEW p \in Path, Delete(p) PROVE Goal
    <2>1. disk' = [disk EXCEPT ![p] = None] /\ mounted' = mounted
      BY <1>7 DEF Delete
    <2> QED
      BY <1>0, <1>6, <1>7, <2>1 DEF Delete, DiskTypes, fixed
  <1>8. ASSUME NEW p \in Path, NEW q \in Path, Move(p, q) PROVE Goal
    <2>1. disk' = [disk EXCEPT ![p] = None, ![q] = disk[p]] /\ mounted' = mounted
      BY <1>8 DEF Move
    <2> QED
      BY <1>0, <1>6, <1>8, <2>1 DEF Move, DiskTypes, fixed
  <1>9. ASSUME Remount PROVE Goal
    BY <1>0, <1>6, <1>9 DEF Remount, DiskTypes, fixed
  <1>10. ASSUME UNCHANGED vars PROVE UNCHANGED <<fixed, diskVars>>
    BY <1>10 DEF vars
  <1> HIDE DEF Goal
  <1>11. Goal
    BY <1>1, <1>2, <1>3, <1>4, <1>5, <1>7, <1>8, <1>9, <1>10 DEF Next
  <1> QED
    BY <1>11 DEF Goal

LEMMA HistoryTypesKept ==
    ASSUME Base, [Next]_vars
    PROVE  (HistoryTypes /\ RowsAreOwned)'
PROOF
  <1> DEFINE Goal == HistoryTypes'
  <1>0. HistoryTypes
    BY DEF Base, TypeOK, HistoryTypes
  <1>r. RowsStep
    BY StepKeepsRows
  <1>1. ASSUME NEW s \in {Path} \cup ShowDir, StartScan(s) PROVE Goal
    <2>1. gap' \subseteq Content
      BY <1>0, <1>1 DEF StartScan, HistoryTypes, Twins
    <2>2. dark' \in BOOLEAN
      BY <1>1 DEF StartScan
    <2> QED
      BY <1>0, <1>1, <2>1, <2>2 DEF StartScan, HistoryTypes
  <1>2. ASSUME NEW p \in Path, Visit(p) PROVE Goal
    <2>1. disk[p] \in Content \cup {None}
      BY DEF Base, TypeOK
    <2> QED
      BY <1>0, <1>2, <2>1 DEF Visit, HistoryTypes
  <1>3. ASSUME NEW p \in Path, RelinkStat(p) \/ Transfer(p) \/ PruneStat(p) PROVE Goal
    BY <1>0, <1>3 DEF RelinkStat, Transfer, PruneStat, HistoryTypes, history
  <1>4. ASSUME EndWalkEmpty \/ EndWalk \/ EndStat \/ EndTransfer \/ EndCheck \/ Abort
        PROVE  Goal
    BY <1>0, <1>4 DEF EndWalkEmpty, EndWalk, EndStat, EndTransfer, EndCheck, Abort,
       HistoryTypes, history
  <1>5. ASSUME EndScan PROVE Goal
    <2>1. synced' \in BOOLEAN
      BY <1>5 DEF EndScan
    <2> QED
      BY <1>0, <1>5, <2>1 DEF EndScan, HistoryTypes
  <1>6. ASSUME NEW gone, DeleteRows(gone) PROVE Goal
    BY <1>0, <1>6 DEF DeleteRows, HistoryTypes, history
  <1>7. ASSUME ScannerStep \/ Abort PROVE Goal
    BY <1>2, <1>3, <1>4, <1>5, <1>6, <1>7 DEF ScannerStep, PruneTVFiles, PruneMovieFiles,
       PrunePhotos, PruneBook, PruneAudiobook
  <1>8. ASSUME NEW p \in Path, Writes(p)
        PROVE  /\ owner[p] \in Content /\ acts' \in 0..MaxActs /\ gap' \subseteq Content
               /\ UNCHANGED <<owner, quiet, synced, dark>>
    <2>1. owner[p] \in Content
      BY <1>8 DEF Writes, Base, RowsAreOwned
    <2>2. acts' \in 0..MaxActs
      BY <1>0, <1>8, BoundsAssumption DEF Writes, HistoryTypes
    <2> QED
      BY <1>0, <1>8, <2>1, <2>2 DEF Writes, HistoryTypes
  <1>9. ASSUME NEW p \in Path, NEW done \in BOOLEAN, Reports(p, done) PROVE Goal
    <2>1. Writes(p) /\ known' = known
          /\ said' = [said EXCEPT ![owner[p]] = Reported(said[owner[p]], done)]
      BY <1>9 DEF Reports
    <2>2. Reported(said[owner[p]], done) \in Progress
      BY <1>0, <1>8, <2>1, ReportedProgress DEF HistoryTypes
    <2> QED
      BY <1>0, <1>8, <2>1, <2>2 DEF HistoryTypes
  <1>10. ASSUME NEW p \in Path, NEW done \in BOOLEAN, MarkWatched(p, done) PROVE Goal
    <2>1. Writes(p) /\ known' = known
          /\ said' = [said EXCEPT ![owner[p]] = [pos |-> 0, done |-> done]]
      BY <1>10 DEF MarkWatched
    <2> QED
      BY <1>0, <1>8, <2>1, MarkedProgress DEF HistoryTypes
  <1>11. ASSUME NEW p \in Path, Match(p) PROVE Goal
    BY <1>0, <1>8, <1>11 DEF Match, HistoryTypes
  <1>12. ASSUME NEW p \in Path, NEW done \in BOOLEAN,
                \/ TVPlaybackProgress(p, done) \/ MoviePlaybackProgress(p, done)
                \/ PhotoPlaybackProgress(p, done)
                \/ BookReadingProgress(p, done) \/ AudiobookPlaybackProgress(p, done)
                \/ TVMarkWatched(p, done) \/ MovieMarkWatched(p, done)
         PROVE  Goal
    BY <1>9, <1>10, <1>12 DEF TVPlaybackProgress, MoviePlaybackProgress,
       PhotoPlaybackProgress, BookReadingProgress, AudiobookPlaybackProgress,
       TVMarkWatched, MovieMarkWatched
  <1>13. ASSUME NEW lost \in SUBSET Content, Changes(lost),
                known' \subseteq Content, dark' \in BOOLEAN
         PROVE  Goal
    BY <1>0, <1>13 DEF Changes, HistoryTypes
  <1>14. ASSUME NEW p \in Path, Delete(p) PROVE Goal
    <2>1. Twins(disk[p]) \in SUBSET Content
      BY DEF Twins
    <2> QED
      BY <1>0, <1>13, <1>14, <2>1 DEF Delete, HistoryTypes
  <1>15. ASSUME NEW p \in Path, NEW q \in Path, Move(p, q) PROVE Goal
    <2> DEFINE lost == (IF Scanning \/ Twins(disk[p]) # {} THEN {disk[p]} ELSE {})
               \cup (IF Scanning THEN Twins(disk[p]) ELSE {})
               \cup (IF row[q] # None /\ owner[q] # disk[p] THEN {disk[p], owner[q]} ELSE {})
    <2>1. disk[p] \in Content /\ (row[q] # None => owner[q] \in Content)
      BY <1>15 DEF Move, Base, TypeOK, RowsAreOwned, Rows
    <2>2. lost \in SUBSET Content
      BY <2>1 DEF Twins
    <2>3. Changes(lost)
      BY <1>15 DEF Move
    <2> HIDE DEF lost
    <2> QED
      BY <1>0, <1>13, <1>15, <2>2, <2>3 DEF Move, HistoryTypes
  <1>16. ASSUME Remount PROVE Goal
    <2> DEFINE lost == IF Scanning THEN Content ELSE {}
    <2>1. lost \in SUBSET Content /\ Changes(lost)
      BY <1>16 DEF Remount
    <2> HIDE DEF lost
    <2> QED
      BY <1>0, <1>13, <1>16, <2>1 DEF Remount, HistoryTypes
  <1>17. ASSUME UNCHANGED vars PROVE Goal
    BY <1>0, <1>17 DEF vars, HistoryTypes, history
  <1> HIDE DEF Goal
  <1>18. ASSUME NEW p \in Path, Match(p) \/ Delete(p) PROVE Goal
    BY <1>11, <1>14, <1>18
  <1>19. Goal
    BY <1>1, <1>7, <1>12, <1>15, <1>16, <1>17, <1>18 DEF Next
  <1>20. RowsAreOwned'
    <2>1. ASSUME NEW p \in Path, row'[p] # None PROVE owner'[p] \in Content
      <3>1. CASE Kept(p)
        BY <2>1, <3>1 DEF Kept, Base, RowsAreOwned, Rows
      <3>2. CASE ScannedNow(p)
        BY <3>2 DEF ScannedNow, OnDisk, Base, TypeOK
      <3>3. ~PrunedNow(p)
        BY <2>1 DEF PrunedNow
      <3> QED
        BY <1>r, <3>1, <3>2, <3>3 DEF RowsStep, RowStep
    <2> QED
      BY <2>1 DEF RowsAreOwned, Rows
  <1> QED
    BY <1>19, <1>20 DEF Goal

LEMMA BaseKept ==
    ASSUME Base, [Next]_vars
    PROVE  Base' /\ RowsStep
PROOF
  <1>1. RowsStep
    BY StepKeepsRows
  <1>2. (ScanTypes /\ ListedAreRows)' /\ DiskTypes' /\ UNCHANGED fixed
    BY ScanTypesKept, DiskTypesKept
  <1>3. (HistoryTypes /\ RowsAreOwned)'
    BY HistoryTypesKept
  <1>4. Row' = Row /\ HasExtras' = HasExtras /\ HasMatch' = HasMatch
    BY <1>2 DEF Row, Sig, HasExtras, HasMatch, fixed
  <1>5. row' \in [Path -> (Row \cup {None})']
    BY <1>1, <1>4 DEF RowsStep
  <1>6. \A p \in Rows' : /\ row'[p].extra => HasExtras'
                         /\ row'[p].matched => HasMatch'
    BY <1>1, <1>4 DEF RowsStep, RowStep, Rows
  <1>7. TypeOK'
    BY <1>2, <1>3, <1>5, <1>6 DEF TypeOK, ScanTypes, DiskTypes, HistoryTypes
  <1> QED
    BY <1>1, <1>2, <1>3, <1>7 DEF Base

LEMMA FirstScan ==
    ASSUME DiskTypes, NEW p \in Path, disk[p] # None
    PROVE  /\ Scanned(p, None) \in Row /\ Scanned(p, None) # None
           /\ Scanned(p, None).sig = sigOf[disk[p]]
           /\ Scanned(p, None).extra = (HasExtras /\ p \in ExtraPath)
           /\ Scanned(p, None).matched = FALSE
           /\ Scanned(p, None).prog = None
PROOF
  <1> DEFINE extra == HasExtras /\ p \in ExtraPath
             new == [sig |-> sigOf[disk[p]], extra |-> extra, matched |-> FALSE,
                     prog |-> None]
  <1>1. sigOf[disk[p]] \in Sig /\ Sig \subseteq Content
    BY DEF DiskTypes, Sig
  <1>2. extra \in BOOLEAN
    OBVIOUS
  <1>3. Scanned(p, None) = new
    <2>1. CASE HasExtras
      <3>1. extra = (p \in ExtraPath)
        BY <2>1
      <3>2. Scanned(p, None) = [sig |-> sigOf[disk[p]], extra |-> p \in ExtraPath,
                                matched |-> FALSE, prog |-> None]
        BY <2>1 DEF Scanned, HasExtras, Unchanged, Upserted, IngestTVFile,
           IngestMovieFile, UpsertMovieFile
      <3> QED
        BY <3>1, <3>2
    <2>2. CASE ~HasExtras
      <3>1. extra = FALSE
        BY <2>2
      <3>2. kind = "photo" \/ kind = "book" \/ kind = "audiobook"
        BY <2>2 DEF HasExtras, DiskTypes, Kinds
      <3>3. Scanned(p, None) = [sig |-> sigOf[disk[p]], extra |-> FALSE,
                                matched |-> FALSE, prog |-> None]
        BY <3>2 DEF Scanned, Unchanged, Upserted, IngestPhoto, UpsertPhoto, ScanBookFile,
           ScanAudiobookFile
      <3> QED
        BY <3>1, <3>3
    <2> QED
      BY <2>1, <2>2
  <1>4. /\ new.sig = sigOf[disk[p]] /\ new.extra = extra /\ new.matched = FALSE
        /\ new.prog = None
    OBVIOUS
  <1>5. extra = (HasExtras /\ p \in ExtraPath)
    OBVIOUS
  <1> HIDE DEF extra
  <1>6. new \in Row
    BY <1>1, <1>2 DEF Row, Progress
  <1>7. new # None
    BY <1>1, <1>6, NoneAssumption DEF Row, Progress
  <1> HIDE DEF new
  <1> QED
    BY <1>3, <1>4, <1>5, <1>6, <1>7

Fits(p) ==
    /\ row[p] # None
    /\ row[p].sig = sigOf[disk[p]]
    /\ row[p].extra = (HasExtras /\ p \in ExtraPath)

Fitting ==
    /\ Rows = {p \in Path : OnDisk(p)}
    /\ \A p \in Path : OnDisk(p) => Fits(p)

LEMMA InitBase ==
    ASSUME Init
    PROVE  Base /\ Fitting
PROOF
  <1>1. DiskTypes
    <2>1. sigOf \in [Content -> Content]
      BY DEF Init
    <2>2. disk \in [Path -> Content \cup {None}]
      <3>1. ASSUME NEW p \in Path
            PROVE  disk[p] \in Content \cup {None}
        BY DEF Init
      <3> QED
        BY <3>1 DEF Init
    <2> QED
      BY <2>1, <2>2, BoundsAssumption DEF Init, DiskTypes
  <1>2. ASSUME NEW p \in Path
        PROVE  /\ row[p] \in Row \cup {None}
               /\ row[p] # None <=> OnDisk(p)
               /\ row[p] # None => /\ row[p].matched = FALSE
                                   /\ row[p].extra => HasExtras
                                   /\ Fits(p)
                                   /\ owner[p] \in Content
    <2>1. row[p] = (IF disk[p] = None THEN None ELSE Scanned(p, None)) /\ mounted
          /\ owner = disk
      BY DEF Init
    <2>2. CASE disk[p] = None
      BY <2>1, <2>2 DEF OnDisk
    <2>3. CASE disk[p] # None
      <3>1. row[p] = Scanned(p, None) /\ OnDisk(p) /\ owner[p] \in Content
        BY <1>1, <2>1, <2>3 DEF OnDisk, DiskTypes
      <3>2. /\ row[p] \in Row /\ row[p] # None
            /\ row[p].sig = sigOf[disk[p]]
            /\ row[p].extra = (HasExtras /\ p \in ExtraPath)
            /\ row[p].matched = FALSE
        BY <1>1, <2>3, <3>1, FirstScan
      <3> QED
        BY <3>1, <3>2 DEF Fits
    <2> QED
      BY <2>2, <2>3
  <1>3. row \in [Path -> Row \cup {None}]
    BY <1>2 DEF Init
  <1>4. \A p \in Rows : /\ row[p].extra => HasExtras
                        /\ row[p].matched => HasMatch
    BY <1>2 DEF Rows
  <1>5. ScanTypes /\ ListedAreRows
    <2>1. /\ pc = "idle" /\ scope = {} /\ todo = {} /\ saw = FALSE
          /\ orphans = {} /\ survivors = {} /\ stale = {} /\ scans = 0
      BY DEF Init
    <2>2. 0 \in 0..MaxScans
      BY BoundsAssumption
    <2>3. ScanTypes
      BY <2>1, <2>2 DEF ScanTypes, Phases
    <2>4. ListedAreRows
      BY <2>1 DEF ListedAreRows, Moving
    <2> QED
      BY <2>3, <2>4
  <1>6. HistoryTypes
    <2>1. /\ owner = disk /\ acts = 0 /\ said = [c \in Content |-> None]
          /\ known = {} /\ gap = {} /\ quiet = FALSE /\ synced = TRUE /\ dark = FALSE
      BY DEF Init
    <2>2. 0 \in 0..MaxActs
      BY BoundsAssumption
    <2>3. owner \in [Path -> Content \cup {None}] /\ said \in [Content -> Progress]
      BY <1>1, <2>1 DEF DiskTypes, Progress
    <2> QED
      BY <2>1, <2>2, <2>3 DEF HistoryTypes
  <1>7. TypeOK
    BY <1>1, <1>3, <1>4, <1>5, <1>6 DEF TypeOK, DiskTypes, ScanTypes, HistoryTypes
  <1>8. RowsAreOwned /\ Fitting
    BY <1>2 DEF RowsAreOwned, Fitting, Rows
  <1> QED
    BY <1>5, <1>7, <1>8 DEF Base

-----------------------------------------------------------------------------
(* The invariants of a scan.                                               *)

\* A scan that started on an unmounted root finds nothing, so it gets past
\* the walk only when there is nothing to delete.
DarkFindsNothing ==
    dark => /\ ~mounted
            /\ (pc = "walk") => ~saw
            /\ (pc \in {"stat", "transfer", "check", "delete"}) => (Rows = {})

SyncedIsQuiet == synced /\ Scanning => quiet

StaleAreGone == quiet /\ Scanning => \A p \in stale : ~OnDisk(p)

WalkedFit ==
    quiet /\ Scanning /\ scope = Path =>
        \A p \in Path : OnDisk(p) /\ (pc # "walk" \/ p \notin todo) => Fits(p)

RestAreStale ==
    quiet /\ scope = Path /\ pc \in {"check", "delete"} =>
        \A p \in Rows : OnDisk(p) \/ p \in stale \/ (pc = "check" /\ p \in todo)

\* What a full scan of a disk that holds still has done so far.
Converging == SyncedIsQuiet /\ StaleAreGone /\ WalkedFit /\ RestAreStale

IInv == Base /\ DarkFindsNothing /\ Converging /\ (synced => Fitting)

LEMMA FittingConverges ==
    ASSUME Base
    PROVE  (synced => Fitting) <=> ScanConverges
PROOF BY DEF Fitting, ScanConverges, Fits, Rows

LEMMA ScannerFrame ==
    ASSUME ScannerStep \/ Abort
    PROVE  /\ UNCHANGED <<fixed, diskVars, scope, quiet, dark>>
           /\ EndScan \/ UNCHANGED synced
           /\ Scanning
PROOF BY DEF ScannerStep, Abort, Visit, RelinkStat, Transfer, PruneStat, EndWalkEmpty,
         EndWalk, EndStat, EndTransfer, EndCheck, EndScan, PruneTVFiles, PruneMovieFiles,
         PrunePhotos, PruneBook, PruneAudiobook, DeleteRows, history, Scanning

\* The disk changes under a scan, which knows nothing of it.
DiskStep ==
    /\ UNCHANGED <<fixed, row, scanner>>
    /\ quiet' = FALSE /\ synced' = FALSE
    /\ dark' = FALSE \/ (mounted /\ UNCHANGED <<mounted, dark>>)

LEMMA Parts ==
    ASSUME [Next]_vars
    PROVE  \/ \E s \in {Path} \cup ShowDir : StartScan(s)
           \/ ScannerStep \/ Abort
           \/ DiskStep
           \/ UNCHANGED <<fixed, diskVars, scanner, owner, quiet, synced, dark>>
PROOF
  <1> DEFINE Idle == UNCHANGED <<fixed, diskVars, scanner, owner, quiet, synced, dark>>
  <1>1. ASSUME NEW p \in Path, NEW done \in BOOLEAN,
               \/ TVPlaybackProgress(p, done) \/ MoviePlaybackProgress(p, done)
               \/ PhotoPlaybackProgress(p, done)
               \/ BookReadingProgress(p, done) \/ AudiobookPlaybackProgress(p, done)
               \/ TVMarkWatched(p, done) \/ MovieMarkWatched(p, done)
        PROVE  Idle
    BY <1>1, UsersWriteRows DEF Users
  <1>2. ASSUME NEW p \in Path, Match(p) PROVE Idle
    BY <1>2, UsersWriteRows DEF Users
  <1>3. ASSUME NEW p \in Path, Delete(p) PROVE DiskStep
    BY <1>3 DEF Delete, Changes, DiskStep
  <1>4. ASSUME NEW p \in Path, NEW q \in Path, Move(p, q) PROVE DiskStep
    BY <1>4 DEF Move, Changes, DiskStep
  <1>5. ASSUME Remount PROVE DiskStep
    BY <1>5 DEF Remount, Changes, DiskStep
  <1>6. ASSUME UNCHANGED vars PROVE Idle
    BY <1>6 DEF vars, history
  <1> HIDE DEF Idle
  <1>7. \/ \E s \in {Path} \cup ShowDir : StartScan(s)
        \/ ScannerStep \/ Abort
        \/ DiskStep
        \/ Idle
    BY <1>1, <1>2, <1>3, <1>4, <1>5, <1>6 DEF Next
  <1> QED
    BY <1>7 DEF Idle

\* Nothing makes a row of an unmounted file.
LEMMA DarkMakesNoRows ==
    ASSUME RowsStep, ~mounted
    PROVE  Rows' \subseteq Rows
PROOF BY DEF RowsStep, RowStep, Kept, ScannedNow, PrunedNow, OnDisk, Rows

LEMMA DarkKept ==
    ASSUME Base, DarkFindsNothing, [Next]_vars
    PROVE  DarkFindsNothing'
PROOF
  <1> SUFFICES ASSUME dark'
               PROVE  /\ ~mounted'
                      /\ pc' = "walk" => ~saw'
                      /\ pc' \in {"stat", "transfer", "check", "delete"} => Rows' = {}
    BY DEF DarkFindsNothing
  <1>r. RowsStep
    BY StepKeepsRows
  <1>1. ASSUME NEW s \in {Path} \cup ShowDir, StartScan(s)
        PROVE  ~mounted' /\ pc' = "walk" /\ ~saw'
    BY <1>1 DEF StartScan, diskVars
  <1>2. ASSUME ScannerStep \/ Abort
        PROVE  /\ ~mounted'
               /\ pc' = "walk" => ~saw'
               /\ pc' \in {"stat", "transfer", "check", "delete"} => Rows' = {}
    <2>1. dark /\ mounted' = mounted /\ ~mounted
      BY <1>2, ScannerFrame DEF diskVars, DarkFindsNothing
    <2>2. Rows' \subseteq Rows
      BY <1>r, <2>1, DarkMakesNoRows
    <2>3. pc' = "walk" => pc = "walk" /\ saw' = saw
      BY <1>2, <2>1 DEF ScannerStep, Abort, Visit, OnDisk, RelinkStat, Transfer, PruneStat,
         EndWalkEmpty, EndWalk, EndStat, EndTransfer, EndCheck, EndScan, PruneTVFiles,
         PruneMovieFiles, PrunePhotos, PruneBook, PruneAudiobook, DeleteRows
    <2>4. pc' \in {"stat", "transfer", "check", "delete"} =>
              \/ pc \in {"stat", "transfer", "check", "delete"}
              \/ pc = "walk" /\ (saw \/ Rows = {})
      BY <1>2 DEF ScannerStep, Abort, Visit, RelinkStat, Transfer, PruneStat,
         EndWalkEmpty, EndWalk, EndStat, EndTransfer, EndCheck, EndScan, PruneTVFiles,
         PruneMovieFiles, PrunePhotos, PruneBook, PruneAudiobook, DeleteRows
    <2> QED
      BY <2>1, <2>2, <2>3, <2>4 DEF DarkFindsNothing
  <1>3. ASSUME DiskStep PROVE FALSE
    BY <1>3 DEF DiskStep, DarkFindsNothing
  <1>4. ASSUME UNCHANGED <<fixed, diskVars, scanner, owner, quiet, synced, dark>>
        PROVE  /\ ~mounted'
               /\ pc' = "walk" => ~saw'
               /\ pc' \in {"stat", "transfer", "check", "delete"} => Rows' = {}
    <2>1. Rows' \subseteq Rows
      BY <1>r, <1>4, DarkMakesNoRows DEF DarkFindsNothing
    <2> QED
      BY <1>4, <2>1 DEF DarkFindsNothing, diskVars, scanner
  <1> QED
    BY <1>1, <1>2, <1>3, <1>4, Parts

LEMMA FitsKept ==
    ASSUME RowsStep, UNCHANGED <<fixed, diskVars>>, NEW p \in Path,
           OnDisk(p), Fits(p), pc = "delete" => p \notin stale
    PROVE  Fits(p)'
PROOF
  <1>1. Kept(p) \/ ScannedNow(p)
    BY DEF RowsStep, RowStep, PrunedNow
  <1> QED
    BY <1>1 DEF Kept, ScannedNow, Fits, HasExtras, fixed, diskVars

\* No step makes a row without a file.
LEMMA NoRowsFromNothing ==
    ASSUME RowsStep, NEW p \in Path, ~OnDisk(p), row'[p] # None
    PROVE  p \in Rows
PROOF BY DEF RowsStep, RowStep, Kept, ScannedNow, PrunedNow, Rows

LEMMA VisitFits ==
    ASSUME Base, NEW p \in Path, Visit(p), OnDisk(p)
    PROVE  Fits(p)'
PROOF
  <1> DEFINE new == Scanned(p, row[p])
  <1>1. row' = [row EXCEPT ![p] = new] /\ UNCHANGED <<fixed, diskVars>>
    BY DEF Visit
  <1>2. /\ new # None /\ new.sig = sigOf[disk[p]]
        /\ new.extra = (HasExtras /\ p \in ExtraPath)
    BY ScannedRow DEF Base
  <1> HIDE DEF new
  <1>3. row'[p] = new
    BY <1>1 DEF Base, TypeOK
  <1> QED
    BY <1>1, <1>2, <1>3 DEF Fits, HasExtras, fixed, diskVars

LEMMA SyncedIsQuietKept ==
    ASSUME SyncedIsQuiet, [Next]_vars
    PROVE  SyncedIsQuiet'
PROOF
  <1>1. ASSUME NEW s \in {Path} \cup ShowDir, StartScan(s) PROVE SyncedIsQuiet'
    BY <1>1 DEF StartScan, SyncedIsQuiet
  <1>2. ASSUME EndScan \/ Abort PROVE SyncedIsQuiet'
    BY <1>2 DEF EndScan, Abort, SyncedIsQuiet, Scanning
  <1>3. ASSUME ScannerStep, ~EndScan PROVE SyncedIsQuiet'
    BY <1>3, ScannerFrame DEF SyncedIsQuiet
  <1>4. ASSUME DiskStep PROVE SyncedIsQuiet'
    BY <1>4 DEF DiskStep, SyncedIsQuiet
  <1>5. ASSUME UNCHANGED <<fixed, diskVars, scanner, owner, quiet, synced, dark>>
        PROVE  SyncedIsQuiet'
    BY <1>5 DEF SyncedIsQuiet, Scanning, scanner
  <1> QED
    BY <1>1, <1>2, <1>3, <1>4, <1>5, Parts

LEMMA StaleAreGoneKept ==
    ASSUME Base, StaleAreGone, [Next]_vars
    PROVE  StaleAreGone'
PROOF
  <1>1. ASSUME NEW s \in {Path} \cup ShowDir, StartScan(s) PROVE StaleAreGone'
    BY <1>1 DEF StartScan, StaleAreGone
  <1>2. ASSUME ScannerStep \/ Abort PROVE StaleAreGone'
    <2>1. UNCHANGED <<diskVars, quiet>> /\ Scanning
      BY <1>2, ScannerFrame
    <2>2. \A p \in stale' : p \in stale \/ ~OnDisk(p)
      BY <1>2 DEF ScannerStep, Abort, Visit, RelinkStat, Transfer, PruneStat,
         EndWalkEmpty, EndWalk, EndStat, EndTransfer, EndCheck, EndScan, PruneTVFiles,
         PruneMovieFiles, PrunePhotos, PruneBook, PruneAudiobook, DeleteRows
    <2> QED
      BY <2>1, <2>2 DEF StaleAreGone, OnDisk, diskVars
  <1>3. ASSUME DiskStep PROVE StaleAreGone'
    BY <1>3 DEF DiskStep, StaleAreGone
  <1>4. ASSUME UNCHANGED <<fixed, diskVars, scanner, owner, quiet, synced, dark>>
        PROVE  StaleAreGone'
    BY <1>4 DEF StaleAreGone, Scanning, scanner, OnDisk, diskVars
  <1> QED
    BY <1>1, <1>2, <1>3, <1>4, Parts

LEMMA WalkedFitKept ==
    ASSUME Base, StaleAreGone, WalkedFit, [Next]_vars
    PROVE  WalkedFit'
PROOF
  <1>r. RowsStep
    BY StepKeepsRows
  <1>1. ASSUME NEW s \in {Path} \cup ShowDir, StartScan(s) PROVE WalkedFit'
    BY <1>1 DEF StartScan, WalkedFit
  <1>2. ASSUME UNCHANGED <<fixed, diskVars, quiet>>, Scanning, quiet,
               NEW p \in Path, OnDisk(p), Fits(p)
        PROVE  Fits(p)'
    BY <1>2, <1>r, FitsKept DEF StaleAreGone
  <1>3. ASSUME ScannerStep \/ Abort PROVE WalkedFit'
    <2>1. UNCHANGED <<fixed, diskVars, quiet, scope>> /\ Scanning
      BY <1>3, ScannerFrame
    <2> SUFFICES ASSUME quiet, Scanning', scope = Path, NEW p \in Path, OnDisk(p),
                        pc' # "walk" \/ p \notin todo'
                 PROVE  Fits(p)'
      BY <2>1 DEF WalkedFit, OnDisk, diskVars
    <2>2. CASE pc # "walk" \/ p \notin todo
      BY <1>2, <2>1, <2>2 DEF WalkedFit
    <2>3. CASE pc = "walk" /\ p \in todo
      <3>1. Visit(p)
        BY <1>3, <2>3 DEF ScannerStep, Abort, Visit, RelinkStat, Transfer, PruneStat,
           EndWalkEmpty, EndWalk, EndStat, EndTransfer, EndCheck, EndScan, PruneTVFiles,
           PruneMovieFiles, PrunePhotos, PruneBook, PruneAudiobook, DeleteRows, Scanning
      <3> QED
        BY <3>1, VisitFits
    <2> QED
      BY <2>2, <2>3
  <1>4. ASSUME DiskStep PROVE WalkedFit'
    BY <1>4 DEF DiskStep, WalkedFit
  <1>5. ASSUME UNCHANGED <<fixed, diskVars, scanner, owner, quiet, synced, dark>>
        PROVE  WalkedFit'
    <2>1. UNCHANGED <<pc, scope, todo>>
      BY <1>5 DEF scanner
    <2> SUFFICES ASSUME quiet, Scanning, scope = Path, NEW p \in Path, OnDisk(p),
                        pc # "walk" \/ p \notin todo
                 PROVE  Fits(p)'
      BY <1>5, <2>1 DEF WalkedFit, OnDisk, diskVars, Scanning
    <2> QED
      BY <1>2, <1>5 DEF WalkedFit
  <1> QED
    BY <1>1, <1>3, <1>4, <1>5, Parts

LEMMA RestAreStaleKept ==
    ASSUME Base, RestAreStale, [Next]_vars
    PROVE  RestAreStale'
PROOF
  <1>r. RowsStep
    BY StepKeepsRows
  <1>1. ASSUME NEW s \in {Path} \cup ShowDir, StartScan(s) PROVE RestAreStale'
    BY <1>1 DEF StartScan, RestAreStale
  <1>2. ASSUME ScannerStep \/ Abort PROVE RestAreStale'
    <2>1. UNCHANGED <<fixed, diskVars, quiet, scope>> /\ Scanning
      BY <1>2, ScannerFrame
    <2> SUFFICES ASSUME quiet, scope = Path, pc' \in {"check", "delete"},
                        NEW p \in Path, row'[p] # None, ~OnDisk(p)
                 PROVE  p \in stale' \/ (pc' = "check" /\ p \in todo')
      BY <2>1 DEF RestAreStale, Rows, OnDisk, diskVars
    <2>2. p \in Rows
      BY <1>r, NoRowsFromNothing
    <2>3. ASSUME NEW q \in Path, PruneStat(q)
          PROVE  p \in stale' \/ (pc' = "check" /\ p \in todo')
      BY <2>2, <2>3 DEF PruneStat, RestAreStale
    <2>4. ASSUME EndTransfer PROVE p \in stale' \/ (pc' = "check" /\ p \in todo')
      BY <2>2, <2>4 DEF EndTransfer
    <2>5. ASSUME EndCheck PROVE p \in stale' \/ (pc' = "check" /\ p \in todo')
      BY <2>2, <2>5 DEF EndCheck, RestAreStale
    <2>6. ASSUME NEW gone, DeleteRows(gone)
          PROVE  p \in stale' \/ (pc' = "check" /\ p \in todo')
      BY <2>2, <2>6 DEF DeleteRows, RestAreStale
    <2>7. ASSUME PruneTVFiles \/ PruneMovieFiles \/ PrunePhotos
          PROVE  p \in stale' \/ (pc' = "check" /\ p \in todo')
      BY <2>6, <2>7 DEF PruneTVFiles, PruneMovieFiles, PrunePhotos
    <2>8. ASSUME NEW q \in Path, PruneBook(q) \/ PruneAudiobook(q)
          PROVE  p \in stale' \/ (pc' = "check" /\ p \in todo')
      BY <2>6, <2>8 DEF PruneBook, PruneAudiobook
    <2>9. \/ \E q \in Path : PruneStat(q) \/ PruneBook(q) \/ PruneAudiobook(q)
          \/ EndTransfer \/ EndCheck
          \/ PruneTVFiles \/ PruneMovieFiles \/ PrunePhotos
      BY <1>2 DEF ScannerStep, Abort, Visit, RelinkStat, Transfer, EndWalkEmpty, EndWalk,
         EndStat, EndScan
    <2> QED
      BY <2>3, <2>4, <2>5, <2>7, <2>8, <2>9
  <1>3. ASSUME DiskStep PROVE RestAreStale'
    BY <1>3 DEF DiskStep, RestAreStale
  <1>4. ASSUME UNCHANGED <<fixed, diskVars, scanner, owner, quiet, synced, dark>>
        PROVE  RestAreStale'
    <2>1. UNCHANGED <<pc, scope, todo, stale, disk, mounted, quiet>>
      BY <1>4 DEF scanner, diskVars
    <2>2. ASSUME NEW p \in Path, row'[p] # None, ~OnDisk(p) PROVE p \in Rows
      BY <1>r, <2>2, NoRowsFromNothing
    <2> QED
      BY <2>1, <2>2 DEF RestAreStale, Rows, OnDisk
  <1> QED
    BY <1>1, <1>2, <1>3, <1>4, Parts

LEMMA FittingKept ==
    ASSUME Base, SyncedIsQuiet, StaleAreGone, WalkedFit, RestAreStale,
           synced => Fitting, [Next]_vars
    PROVE  synced' => Fitting'
PROOF
  <1>r. RowsStep
    BY StepKeepsRows
  <1>1. ASSUME synced, UNCHANGED <<fixed, diskVars>> PROVE Fitting'
    <2>1. ASSUME NEW p \in Path, OnDisk(p) PROVE Fits(p)'
      <3>1. pc = "delete" => p \notin stale
        BY <1>1, <2>1 DEF SyncedIsQuiet, StaleAreGone, Scanning
      <3> QED
        BY <1>r, <1>1, <2>1, <3>1, FitsKept DEF Fitting
    <2>2. ASSUME NEW p \in Path, row'[p] # None PROVE OnDisk(p)
      BY <1>r, <1>1, <2>2, NoRowsFromNothing DEF Fitting
    <2>3. \A p \in Path : OnDisk(p)' <=> OnDisk(p)
      BY <1>1 DEF OnDisk, diskVars
    <2> QED
      BY <2>1, <2>2, <2>3 DEF Fitting, Rows, Fits
  <1>2. ASSUME NEW s \in {Path} \cup ShowDir, StartScan(s), synced' PROVE Fitting'
    BY <1>1, <1>2 DEF StartScan
  <1>3. ASSUME ScannerStep \/ Abort, synced' PROVE Fitting'
    <2>1. UNCHANGED <<fixed, diskVars>> /\ (EndScan \/ UNCHANGED synced) /\ Scanning
      BY <1>3, ScannerFrame
    <2>2. CASE synced
      BY <1>1, <2>1, <2>2
    <2>3. CASE EndScan /\ quiet /\ scope = Path
      <3>1. pc = "delete" /\ stale = {} /\ row' = row /\ UNCHANGED <<fixed, diskVars>>
        BY <2>3 DEF EndScan
      <3>2. \A p \in Path : OnDisk(p) => Fits(p)
        BY <2>1, <2>3, <3>1 DEF WalkedFit
      <3>3. \A p \in Rows : OnDisk(p)
        BY <2>3, <3>1 DEF RestAreStale
      <3>4. Fitting
        BY <3>2, <3>3 DEF Fitting, Rows, Fits
      <3> QED
        BY <3>1, <3>4 DEF Fitting, Rows, Fits, OnDisk, HasExtras, fixed, diskVars
    <2> QED
      BY <1>3, <2>1, <2>2, <2>3 DEF EndScan
  <1>4. ASSUME DiskStep PROVE ~synced'
    BY <1>4 DEF DiskStep
  <1>5. ASSUME UNCHANGED <<fixed, diskVars, scanner, owner, quiet, synced, dark>>, synced'
        PROVE  Fitting'
    BY <1>1, <1>5
  <1> QED
    BY <1>2, <1>3, <1>4, <1>5, Parts

LEMMA IInvKept ==
    ASSUME IInv, [Next]_vars
    PROVE  IInv' /\ RowsStep
PROOF
  <1>1. Base' /\ RowsStep
    BY BaseKept DEF IInv
  <1>2. DarkFindsNothing'
    BY DarkKept DEF IInv
  <1>3. Converging'
    BY SyncedIsQuietKept, StaleAreGoneKept, WalkedFitKept, RestAreStaleKept
       DEF IInv, Converging
  <1>4. synced' => Fitting'
    BY FittingKept DEF IInv, Converging
  <1> QED
    BY <1>1, <1>2, <1>3, <1>4 DEF IInv

-----------------------------------------------------------------------------
(* The theorems.                                                           *)

\* The invariant holds of every scan, whatever the disk and the users do
\* while it runs.
THEOREM Invariance == Spec => []IInv
PROOF
  <1>1. Init => IInv
    <2> SUFFICES ASSUME Init PROVE IInv
      OBVIOUS
    <2>1. pc = "idle" /\ quiet = FALSE /\ dark = FALSE
      BY DEF Init
    <2> QED
      BY <2>1, InitBase DEF IInv, DarkFindsNothing, Converging, SyncedIsQuiet,
         StaleAreGone, WalkedFit, RestAreStale, Scanning
  <1>2. IInv /\ [Next]_vars => IInv'
    BY IInvKept
  <1> QED
    BY <1>1, <1>2, PTL DEF Spec

\* A full scan of a disk that holds still leaves exactly one row per file,
\* with the file's present signature and extras flag, for every kind of
\* library, after any moves, unmounts, aborted and scoped scans before it.
THEOREM Converges == Spec => []ScanConverges
PROOF
  <1>1. IInv => ScanConverges
    BY FittingConverges DEF IInv
  <1> QED
    BY <1>1, Invariance, PTL

\* A scan that finds the root unmounted deletes no row, not even when it is
\* cut short or users write meanwhile.
THEOREM UnmountedKeepsRows == Spec => UnmountLosesNothing
PROOF
  <1>1. IInv /\ [Next]_vars =>
            [dark => \A p \in Path : row[p] # None => row'[p] # None]_vars
    <2> SUFFICES ASSUME IInv, [Next]_vars, dark, NEW p \in Path, row[p] # None
                 PROVE  row'[p] # None
      OBVIOUS
    <2>1. RowsStep
      BY IInvKept
    <2>2. pc # "delete"
      BY DEF IInv, DarkFindsNothing, Rows
    <2> QED
      BY <2>1, <2>2 DEF RowsStep, RowStep, Kept, ScannedNow, PrunedNow
  <1> QED
    BY <1>1, Invariance, PTL DEF Spec, UnmountLosesNothing

\* No relink, report, scan or prune takes the completed mark of a book or an
\* audiobook back while its row lives.
THEOREM BooksStayCompleted == Spec => EarnedStaysInBooks
PROOF
  <1>1. IInv /\ [Next]_vars =>
            [\A p \in Path : EarnedLost(p) => kind \notin {"book", "audiobook"}]_vars
    BY IInvKept DEF RowsStep, RowStep, Books
  <1> QED
    BY <1>1, Invariance, PTL DEF Spec, EarnedStaysInBooks
=============================================================================
