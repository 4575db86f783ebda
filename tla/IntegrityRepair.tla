--------------------------- MODULE IntegrityRepair ---------------------------
(***************************************************************************)
(* The integrity check of one file, its repair in place, and the scan that *)
(* decides by size and time whether the file is still the one the row is   *)
(* about (internal/integrity, internal/video/integrity.go).  These are     *)
(* jobs of one worker; people replace and move files whenever they like.   *)
(* Bytes are known by who put them, what is damaged in them and whether a  *)
(* remux wrote them.                                                       *)
(***************************************************************************)
EXTENDS Naturals

CONSTANTS
    Kinds,     \* of "video", "music", "mp3": music is decoded when checked,
               \* an mp3 has no container
    Damages,   \* what is damaged in the files people put: sets of
               \* "container", "gap", "frames"
    MaxPuts

VARIABLES
    kind,
    disk,      \* [ver, dmg, made] at the row's path or where it was moved
    moved,     \* whether it was moved and no scan has run
    row,       \* [status, stamp, sum]
    pc,        \* of the worker
    tmp,       \* the remuxed copy beside the file, NoCopy
    verdict,   \* [status, gap, frames, replaced] of the check so far
    puts,      \* how often a file was put
    doubt,     \* history: an audit failed, or the file changed under a check
    torn,      \* history: a repair ended before its row was refreshed
    lost       \* history: a moved file was taken for another

history == <<doubt, torn, lost>>
vars == <<kind, disk, moved, row, pc, tmp, verdict, puts, history>>

Bytes(v, D, m) == [ver |-> v, dmg |-> D, made |-> m]
NoCopy == Bytes(0, {}, "never")
Unread == [status |-> "", gap |-> FALSE, frames |-> FALSE, replaced |-> FALSE]

Init ==
    /\ kind \in Kinds /\ \E D \in Damages : disk = Bytes(0, D, "put")
    /\ moved = FALSE /\ row = [status |-> "", stamp |-> disk, sum |-> disk]
    /\ pc = "idle" /\ tmp = NoCopy /\ verdict = Unread /\ puts = 0
    /\ doubt = FALSE /\ torn = FALSE /\ lost = FALSE

-----------------------------------------------------------------------------
(* CheckLibrary takes unchecked rows, DeepCheckLibrary all but the flagged *)
(* ones; a file that is not where it was is left to the scan.              *)
BeginCheck ==
    /\ pc = "idle" /\ row.status = "" /\ ~moved
    /\ pc' = IF kind = "mp3" THEN "audit" ELSE "check"
    /\ verdict' = [Unread EXCEPT !.status = "ok"]
    /\ doubt' = FALSE
    /\ UNCHANGED <<kind, puts, disk, moved, row, tmp, torn, lost>>

(* RepairFile: the container is checked, remuxed to a copy beside it, and  *)
(* the copy compared with the file there is and checked in its turn.       *)
Flag == verdict' = [verdict EXCEPT !.status = "flagged"] /\ pc' = "audit"
CheckContainer(repair) ==
    /\ pc = "check"
    /\ IF "container" \notin disk.dmg THEN pc' = "audit" /\ UNCHANGED verdict
       ELSE IF repair THEN pc' = "remux" /\ UNCHANGED verdict
       ELSE Flag
    /\ UNCHANGED <<kind, puts, disk, moved, row, tmp, history>>
HardError ==
    /\ pc = "check" /\ pc' = "idle" /\ verdict' = Unread
    /\ UNCHANGED <<kind, puts, disk, moved, row, tmp, history>>
Remux(fixed) ==
    /\ pc = "remux" /\ pc' = "verify"
    /\ tmp' = Bytes(disk.ver, IF fixed THEN disk.dmg \ {"container"} ELSE disk.dmg, "remux")
    /\ UNCHANGED <<kind, puts, disk, moved, row, verdict, history>>
RemuxFails ==
    /\ pc = "remux" /\ Flag /\ UNCHANGED <<kind, puts, disk, moved, row, tmp, history>>
Verify(same) ==
    /\ pc = "verify"
    /\ IF same /\ "container" \notin tmp.dmg THEN pc' = "rename" /\ UNCHANGED <<verdict, tmp>>
       ELSE Flag /\ tmp' = NoCopy
    /\ UNCHANGED <<kind, puts, disk, moved, row, history>>
Rename(ok) ==
    /\ pc = "rename" /\ tmp' = NoCopy /\ pc' = "audit"
    /\ IF ok THEN disk' = tmp /\ verdict' = [verdict EXCEPT !.status = "repaired", !.replaced = TRUE]
       ELSE UNCHANGED disk /\ verdict' = [verdict EXCEPT !.status = "flagged"]
    /\ UNCHANGED <<kind, puts, moved, row, history>>

(* auditAudio and, for music, auditDecode; one that fails has found        *)
(* nothing.                                                                *)
Audit(ok) ==
    /\ pc = "audit" /\ pc' = "record"
    /\ verdict' = IF ok THEN [verdict EXCEPT !.gap = "gap" \in disk.dmg,
                                             !.frames = kind # "video" /\ "frames" \in disk.dmg]
                  ELSE verdict
    /\ doubt' = (doubt \/ ~ok)
    /\ UNCHANGED <<kind, puts, disk, moved, row, tmp, torn, lost>>

(* Mutated form: missing audio counts before damaged frames. *)
ClassifyGapFirst(v) ==
    IF v.gap THEN "degraded" ELSE IF v.frames THEN "flagged" ELSE v.status

Classify(v) ==
    IF v.frames \/ v.status = "flagged" THEN "flagged" ELSE IF v.gap THEN "degraded" ELSE v.status

(* Mutated form: the checksum a move is known by is left as it was. *)
RefreshedKeepsSum(r, s) == [r EXCEPT !.status = s, !.stamp = disk]

(* refreshAfterReplace. *)
Refreshed(r, s) == [status |-> s, stamp |-> disk, sum |-> disk]

Record(ok) ==
    /\ pc = "record" /\ pc' = "idle" /\ verdict' = Unread
    /\ row' = IF verdict.replaced /\ ok THEN Refreshed(row, Classify(verdict))
              ELSE [row EXCEPT !.status = Classify(verdict)]
    /\ torn' = (torn \/ (verdict.replaced /\ ~ok))
    /\ UNCHANGED <<kind, puts, disk, moved, tmp, doubt, lost>>

(* flagDeep, in one go: it flags, and clears nothing. *)
DeepCheck(ok) ==
    /\ pc = "idle" /\ row.status # "flagged" /\ ~moved
    /\ LET found == disk.dmg \cap {"gap", "frames"}
       IN row' = IF ~ok \/ found = {} THEN row
                 ELSE [row EXCEPT !.status = IF "frames" \in found THEN "flagged" ELSE "degraded"]
    /\ UNCHANGED <<kind, puts, disk, moved, pc, tmp, verdict, history>>

-----------------------------------------------------------------------------
(* The scan: other bytes at the path are checked again; a music file that  *)
(* is gone is looked for by its checksum.                                  *)
Scan ==
    /\ pc = "idle" /\ moved' = FALSE
    /\ row' = IF moved /\ disk = row.sum THEN [row EXCEPT !.stamp = disk]
              ELSE IF moved \/ disk # row.stamp THEN [status |-> "", stamp |-> disk, sum |-> disk]
              ELSE row
    /\ lost' = (lost \/ (moved /\ disk # row.sum /\ disk.ver = row.sum.ver))
    /\ torn' = (torn /\ moved)
    /\ UNCHANGED <<kind, puts, disk, pc, tmp, verdict, doubt>>

Put(D) ==
    /\ puts < MaxPuts /\ puts' = puts + 1 /\ disk' = Bytes(puts + 1, D, "put")
    /\ doubt' = (doubt \/ pc # "idle")
    /\ UNCHANGED <<kind, moved, row, pc, tmp, verdict, torn, lost>>
MoveAway ==
    /\ pc = "idle" /\ kind # "video" /\ ~moved /\ ~torn /\ moved' = TRUE
    /\ UNCHANGED <<kind, puts, disk, row, pc, tmp, verdict, history>>

(* The process ends; the copy beside the file stays. *)
Crash ==
    /\ pc # "idle" /\ pc' = "idle" /\ verdict' = Unread
    /\ torn' = (torn \/ verdict.replaced)
    /\ UNCHANGED <<kind, puts, disk, moved, row, tmp, doubt, lost>>

Next ==
    \/ BeginCheck \/ HardError \/ RemuxFails \/ Scan \/ MoveAway \/ Crash
    \/ \E b \in BOOLEAN : \/ CheckContainer(b) \/ Remux(b) \/ Verify(b) \/ Rename(b)
                          \/ Audit(b) \/ Record(b) \/ DeepCheck(b)
    \/ \E D \in Damages : Put(D)

Spec == Init /\ [][Next]_vars
-----------------------------------------------------------------------------
TypeOK ==
    /\ row.status \in {"", "ok", "repaired", "flagged", "degraded"}
    /\ puts \in 0 .. MaxPuts /\ row.stamp.ver <= puts
    /\ pc \in {"rename", "verify"} => tmp # NoCopy
    /\ pc = "idle" => verdict = Unread

(* A verdict is about the file that is there: as long as a scan would see  *)
(* nothing new, a file that is called sound or repaired has no damage the  *)
(* check looks for and a damaged one has some, however repairs, crashes    *)
(* and scans took turns - unless the file was replaced during its check or *)
(* an audit failed.  And a track that was repaired and then moved is still *)
(* known by its checksum, unless the repair was cut short.                 *)
VerdictFollowsFile ==
    /\ ~lost
    /\ (pc = "idle" /\ ~doubt /\ ~moved /\ row.stamp = disk) =>
          LET seen == disk.dmg \ ((IF kind = "mp3" THEN {"container"} ELSE {})
                                  \cup (IF kind = "video" THEN {"frames"} ELSE {}))
          IN /\ row.status \in {"ok", "repaired"} => seen = {}
             /\ row.status \in {"flagged", "degraded"} => disk.dmg # {}
             /\ row.status = "degraded" => "gap" \in seen /\ "frames" \notin seen

(* "a good original is never lost to a bad remux"                          *)
(* (internal/integrity/integrity.go:7): the file there is holds what was   *)
(* put there last.                                                         *)
OriginalStands == disk.ver = puts
==============================================================================
