---------------------------- MODULE CatalogProofs ----------------------------
(***************************************************************************)
(* Proofs about components of the catalog that share nothing with one      *)
(* another: the integrity of a file, podcasts, the music match job, the    *)
(* match jobs of shows and films and the music library, for any number of  *)
(* feeds, albums, artists, files and titles.  Each theorem is about the    *)
(* behaviours of Services in which one component runs; the last is about   *)
(* the types of all of them.                                               *)
(***************************************************************************)
EXTENDS ServicesProofs

(* A step of a behaviour of one component is one of that component.        *)
LEMMA RepairTurn ==
  ASSUME [Next]_vars, part' = "repair" PROVE part = "repair" /\ [Repair!Next]_(Repair!vars)
<1>1. CASE Next
  BY <1>1 DEF Next, Turn
<1>2. CASE UNCHANGED vars
  BY <1>2 DEF vars, sharedVars, repairVars, Repair!vars, Repair!history
<1>. QED
  BY <1>1, <1>2
LEMMA FeedTurn ==
  ASSUME [Next]_vars, part' = "feed" PROVE part = "feed" /\ [Feed!Next]_(Feed!vars)
<1>1. CASE Next
  BY <1>1 DEF Next, Turn
<1>2. CASE UNCHANGED vars
  BY <1>2 DEF vars, sharedVars, feedVars, Feed!vars
<1>. QED
  BY <1>1, <1>2
LEMMA MatchTurn ==
  ASSUME [Next]_vars, part' = "match" PROVE part = "match" /\ [Match!Next]_(Match!vars)
<1>1. CASE Next
  BY <1>1 DEF Next, Turn
<1>2. CASE UNCHANGED vars
  BY <1>2 DEF vars, sharedVars, matchVars, Match!vars, Match!job, Match!history
<1>. QED
  BY <1>1, <1>2

-----------------------------------------------------------------------------
(* Integrity.  A check under way knows what is wrong with the file as long *)
(* as nobody replaced it; the two stamps of a row go together; and bytes   *)
(* that differ from the stamped ones under the same version are those of a *)
(* repair that was cut short before the row heard of it.                   *)
Damage == {"container", "gap", "frames"}
Content == [ver : Nat, dmg : SUBSET Damage, made : {"put", "remux", "never"}]
RepairTypes ==
    /\ disk \in Content /\ tmp \in Content
    /\ row \in [status : {"", "ok", "repaired", "flagged", "degraded"}, stamp : Content, sum : Content]
    /\ verdict \in [status : {"", "ok", "repaired", "flagged"}, gap : BOOLEAN, frames : BOOLEAN,
                    replaced : BOOLEAN]
    /\ pc \in {"idle", "check", "remux", "verify", "rename", "audit", "record"}
    /\ puts \in Nat
    /\ disk.ver <= puts /\ tmp.ver <= puts /\ row.stamp.ver <= puts
Seen == disk.dmg \ ((IF kind = "mp3" THEN {"container"} ELSE {})
                    \cup (IF kind = "video" THEN {"frames"} ELSE {}))
TrueOfFile(s) ==
    /\ s \in {"ok", "repaired"} => Seen = {}
    /\ s \in {"flagged", "degraded"} => disk.dmg # {}
    /\ s = "degraded" => "gap" \in Seen /\ "frames" \notin Seen
(* What the check knows of the container when it is done with it. *)
ContainerKnown ==
    /\ verdict.status = "flagged" => "container" \in disk.dmg
    /\ verdict.status # "flagged" => kind = "mp3" \/ "container" \notin disk.dmg
    /\ verdict.status # ""
CheckKnows ==
    /\ pc \in {"remux", "verify", "rename"} => "container" \in disk.dmg
    /\ pc = "rename" => tmp.dmg = disk.dmg \ {"container"}
    /\ pc = "verify" => tmp.dmg \in {disk.dmg, disk.dmg \ {"container"}}
    /\ pc \in {"audit", "record"} => ContainerKnown
    /\ pc = "record" => /\ verdict.gap <=> "gap" \in disk.dmg
                        /\ verdict.frames <=> kind # "video" /\ "frames" \in disk.dmg
OneCheck ==
    /\ pc # "idle" => row.status = "" /\ ~moved
    /\ pc \in {"check", "remux", "verify", "rename"} => verdict.status = "ok"
    /\ verdict.replaced => pc \in {"audit", "record"}
    /\ pc \notin {"idle", "record"} => ~verdict.gap /\ ~verdict.frames
    /\ moved => ~torn
Stamped ==
    /\ row.stamp = row.sum
    /\ ~torn /\ ~verdict.replaced /\ disk.ver = row.sum.ver => disk = row.sum
RepairInv ==
    /\ RepairTypes /\ OneCheck /\ Stamped /\ ~lost
    /\ ~doubt => CheckKnows
    /\ pc = "idle" /\ ~doubt /\ row.stamp = disk => TrueOfFile(row.status)

LEMMA RepairInit ==
  ASSUME Damages \subseteq SUBSET Damage, Repair!Init PROVE RepairInv
<1>1. PICK D \in Damages : disk = Repair!Bytes(0, D, "put")
  BY DEF Repair!Init
<1>a. disk.ver = 0 /\ tmp.ver = 0 /\ puts = 0 /\ row.stamp.ver = 0
  BY <1>1 DEF Repair!Init, Repair!Bytes, Repair!NoCopy
<1>2. /\ disk \in Content /\ tmp \in Content
      /\ row \in [status : {"", "ok", "repaired", "flagged", "degraded"}, stamp : Content, sum : Content]
      /\ row.stamp = disk /\ row.sum = disk /\ row.status = ""
  BY <1>1 DEF Repair!Init, Repair!Bytes, Repair!NoCopy, Content, Damage
<1>3. /\ verdict \in [status : {"", "ok", "repaired", "flagged"}, gap : BOOLEAN, frames : BOOLEAN,
                      replaced : BOOLEAN]
      /\ ~verdict.replaced /\ pc = "idle" /\ ~moved /\ ~lost
  BY DEF Repair!Init, Repair!Unread
<1>4. RepairTypes
  <2>1. puts \in Nat /\ disk.ver <= puts /\ tmp.ver <= puts /\ row.stamp.ver <= puts
    BY <1>a
  <2>. QED
    BY <1>2, <1>3, <2>1, Zenon DEF RepairTypes
<1>5. OneCheck
  BY <1>2, <1>3 DEF OneCheck
<1>6. Stamped
  BY <1>2 DEF Stamped
<1>7. CheckKnows /\ TrueOfFile(row.status)
  BY <1>2, <1>3 DEF CheckKnows, TrueOfFile
<1>. QED
  BY <1>3, <1>4, <1>5, <1>6, <1>7 DEF RepairInv

(* Steps of the check that leave the file and its row alone. *)
LEMMA RepairCheckStep ==
  ASSUME RepairInv, UNCHANGED <<kind, puts, disk, moved, row, torn, lost>>,
         pc # "idle", pc' \in {"idle", "check", "remux", "verify", "rename", "audit", "record"},
         tmp' \in Content, tmp'.ver <= puts,
         verdict' \in [status : {"", "ok", "repaired", "flagged"}, gap : BOOLEAN, frames : BOOLEAN,
                       replaced : BOOLEAN],
         verdict'.replaced <=> verdict.replaced, verdict'.replaced => pc' \in {"audit", "record"},
         pc' \in {"check", "remux", "verify", "rename"} => verdict'.status = "ok",
         pc' \notin {"idle", "record"} => ~verdict'.gap /\ ~verdict'.frames,
         ~doubt' => ~doubt /\ CheckKnows'
  PROVE  RepairInv'
<1>1. RepairTypes' /\ OneCheck'
  BY DEF RepairInv, RepairTypes, OneCheck
<1>2. Stamped'
  BY DEF RepairInv, Stamped
<1>3. pc' = "idle" => TrueOfFile(row.status)'
  BY DEF RepairInv, OneCheck, TrueOfFile
<1>4. ~lost'
  BY DEF RepairInv
<1>. QED
  BY <1>1, <1>2, <1>3, <1>4 DEF RepairInv

Verdicts == [status : {"", "ok", "repaired", "flagged"}, gap : BOOLEAN, frames : BOOLEAN,
             replaced : BOOLEAN]

(* A verdict gets another status. *)
LEMMA RepairStatus ==
  ASSUME verdict \in Verdicts, NEW s \in {"", "ok", "repaired", "flagged"}, NEW b \in BOOLEAN
  PROVE  /\ [verdict EXCEPT !.status = s] \in Verdicts
         /\ [verdict EXCEPT !.status = s].status = s
         /\ [verdict EXCEPT !.status = s].gap = verdict.gap
         /\ [verdict EXCEPT !.status = s].frames = verdict.frames
         /\ [verdict EXCEPT !.status = s].replaced = verdict.replaced
         /\ [verdict EXCEPT !.status = s, !.replaced = b] \in Verdicts
         /\ [verdict EXCEPT !.status = s, !.replaced = b].status = s
         /\ [verdict EXCEPT !.status = s, !.replaced = b].gap = verdict.gap
         /\ [verdict EXCEPT !.status = s, !.replaced = b].frames = verdict.frames
         /\ [verdict EXCEPT !.status = s, !.replaced = b].replaced = b
BY DEF Verdicts
LEMMA RepairNext ==
  ASSUME Damages \subseteq SUBSET Damage, RepairInv, [Repair!Next]_(Repair!vars) PROVE RepairInv'
<1>t. /\ disk \in Content /\ tmp \in Content /\ verdict \in Verdicts
      /\ row \in [status : {"", "ok", "repaired", "flagged", "degraded"}, stamp : Content, sum : Content]
      /\ puts \in Nat /\ disk.ver <= puts /\ tmp.ver <= puts /\ row.stamp.ver <= puts
  BY DEF RepairInv, RepairTypes, Verdicts
<1>u. /\ Repair!Unread \in Verdicts /\ ~Repair!Unread.replaced /\ ~Repair!Unread.gap /\ ~Repair!Unread.frames
  BY DEF Repair!Unread, Verdicts
<1>v. Repair!NoCopy \in Content /\ Repair!NoCopy.ver <= puts
  <2>1. puts \in Nat /\ Repair!NoCopy.ver = 0
    BY <1>t DEF Repair!NoCopy, Repair!Bytes
  <2>2. Repair!NoCopy.ver <= puts
    BY <2>1
  <2>. QED
    BY <2>2 DEF Repair!NoCopy, Repair!Bytes, Content, Damage
<1>1. CASE Repair!BeginCheck
  <2>1. /\ pc = "idle" /\ row.status = "" /\ ~moved /\ UNCHANGED <<kind, puts, disk, moved, row, tmp, torn, lost>>
        /\ verdict' = [Repair!Unread EXCEPT !.status = "ok"]
        /\ pc' \in {"check", "audit"} /\ (pc' = "audit" => kind = "mp3")
    BY <1>1 DEF Repair!BeginCheck
  <2>2. /\ verdict' \in Verdicts /\ verdict'.status = "ok" /\ ~verdict'.replaced
        /\ ~verdict'.gap /\ ~verdict'.frames
    BY <1>u, <2>1 DEF Verdicts
  <2>3. ~verdict.replaced
    BY <2>1 DEF RepairInv, OneCheck
  <2>4. RepairTypes'
    BY <2>1, <2>2, <1>t DEF RepairTypes, Verdicts
  <2>5. OneCheck' /\ ~lost'
    BY <2>1, <2>2 DEF RepairInv, OneCheck
  <2>6. Stamped'
    BY <2>1, <2>2, <2>3 DEF RepairInv, Stamped
  <2>7. CheckKnows'
    BY <2>1, <2>2 DEF CheckKnows, ContainerKnown
  <2>8. pc' # "idle"
    BY <2>1
  <2>. QED
    BY <2>4, <2>5, <2>6, <2>7, <2>8 DEF RepairInv
<1>2. CASE Repair!HardError
  <2>1. /\ pc = "check" /\ pc' = "idle" /\ verdict' = Repair!Unread
        /\ UNCHANGED <<kind, puts, disk, moved, row, tmp, doubt, torn, lost>>
    BY <1>2 DEF Repair!HardError, Repair!history
  <2>2. ~verdict.replaced
    BY <2>1 DEF RepairInv, OneCheck
  <2>. QED
    BY <1>t, <1>u, <2>1, <2>2, RepairCheckStep DEF Verdicts, RepairInv, CheckKnows
<1>3. ASSUME NEW b \in BOOLEAN, Repair!CheckContainer(b) PROVE RepairInv'
  <2>1. /\ pc = "check" /\ UNCHANGED <<kind, puts, disk, moved, row, tmp, doubt, torn, lost>>
        /\ \/ pc' = "audit" /\ "container" \notin disk.dmg /\ verdict' = verdict
           \/ pc' = "remux" /\ "container" \in disk.dmg /\ verdict' = verdict
           \/ /\ pc' = "audit" /\ "container" \in disk.dmg
              /\ verdict' = [verdict EXCEPT !.status = "flagged"]
    BY <1>3 DEF Repair!CheckContainer, Repair!Flag, Repair!history
  <2>2. verdict.status = "ok" /\ ~verdict.replaced /\ ~verdict.gap /\ ~verdict.frames
    BY <2>1 DEF RepairInv, OneCheck
  <2>3. /\ verdict' \in Verdicts /\ ~verdict'.replaced /\ ~verdict'.gap /\ ~verdict'.frames
        /\ verdict'.status \in {"ok", "flagged"} /\ (pc' = "remux" => verdict'.status = "ok")
        /\ pc' = "audit" => (verdict'.status = "flagged" <=> "container" \in disk.dmg)
    BY <1>t, <2>1, <2>2, RepairStatus
  <2>4. ~doubt' => ~doubt /\ CheckKnows'
    BY <2>1, <2>3 DEF RepairInv, CheckKnows, ContainerKnown
  <2>. QED
    BY <1>t, <2>1, <2>2, <2>3, <2>4, RepairCheckStep DEF Verdicts
<1>4. ASSUME NEW fixed \in BOOLEAN, Repair!Remux(fixed) PROVE RepairInv'
  <2>1. /\ pc = "remux" /\ pc' = "verify" /\ UNCHANGED <<kind, puts, disk, moved, row, verdict, doubt, torn, lost>>
        /\ tmp' = Repair!Bytes(disk.ver, IF fixed THEN disk.dmg \ {"container"} ELSE disk.dmg, "remux")
    BY <1>4 DEF Repair!Remux, Repair!history
  <2>2. /\ tmp' \in Content /\ tmp'.ver <= puts /\ tmp'.dmg \in {disk.dmg, disk.dmg \ {"container"}}
    BY <1>t, <2>1 DEF Content, Repair!Bytes
  <2>3. verdict.status = "ok" /\ ~verdict.replaced /\ ~verdict.gap /\ ~verdict.frames
    BY <2>1 DEF RepairInv, OneCheck
  <2>4. ~doubt' => ~doubt /\ CheckKnows'
    BY <2>1, <2>2 DEF RepairInv, CheckKnows
  <2>. QED
    BY <1>t, <2>1, <2>2, <2>3, <2>4, RepairCheckStep DEF Verdicts
<1>5. CASE Repair!RemuxFails
  <2>1. /\ pc = "remux" /\ pc' = "audit" /\ verdict' = [verdict EXCEPT !.status = "flagged"]
        /\ UNCHANGED <<kind, puts, disk, moved, row, tmp, doubt, torn, lost>>
    BY <1>5 DEF Repair!RemuxFails, Repair!Flag, Repair!history
  <2>2. ~verdict.replaced /\ ~verdict.gap /\ ~verdict.frames
    BY <2>1 DEF RepairInv, OneCheck
  <2>3. /\ verdict' \in Verdicts /\ verdict'.status = "flagged" /\ ~verdict'.replaced
        /\ ~verdict'.gap /\ ~verdict'.frames
    BY <1>t, <2>1, <2>2, RepairStatus
  <2>4. ~doubt' => ~doubt /\ CheckKnows'
    BY <2>1, <2>3 DEF RepairInv, CheckKnows, ContainerKnown
  <2>. QED
    BY <1>t, <2>1, <2>2, <2>3, <2>4, RepairCheckStep DEF Verdicts
<1>6. ASSUME NEW same \in BOOLEAN, Repair!Verify(same) PROVE RepairInv'
  <2>1. pc = "verify" /\ UNCHANGED <<kind, puts, disk, moved, row, doubt, torn, lost>>
    BY <1>6 DEF Repair!Verify, Repair!history
  <2>2. verdict.status = "ok" /\ ~verdict.replaced /\ ~verdict.gap /\ ~verdict.frames
    BY <2>1 DEF RepairInv, OneCheck
  <2>3. \/ pc' = "rename" /\ UNCHANGED <<verdict, tmp>> /\ "container" \notin tmp.dmg
        \/ pc' = "audit" /\ verdict' = [verdict EXCEPT !.status = "flagged"] /\ tmp' = Repair!NoCopy
    BY <1>6 DEF Repair!Verify, Repair!Flag
  <2>4. CASE pc' = "rename" /\ UNCHANGED <<verdict, tmp>> /\ "container" \notin tmp.dmg
    <3>1. ~doubt' => ~doubt /\ CheckKnows'
      BY <2>1, <2>4 DEF RepairInv, CheckKnows
    <3>. QED
      BY <1>t, <2>1, <2>2, <2>4, <3>1, RepairCheckStep DEF Verdicts
  <2>5. CASE pc' = "audit" /\ verdict' = [verdict EXCEPT !.status = "flagged"] /\ tmp' = Repair!NoCopy
    <3>1. /\ verdict' \in Verdicts /\ verdict'.status = "flagged" /\ ~verdict'.replaced
          /\ ~verdict'.gap /\ ~verdict'.frames
      BY <1>t, <2>2, <2>5, RepairStatus
    <3>2. ~doubt' => ~doubt /\ CheckKnows'
      BY <2>1, <2>5, <3>1 DEF RepairInv, CheckKnows, ContainerKnown
    <3>3. tmp' \in Content /\ tmp'.ver <= puts
      BY <1>v, <2>5
    <3>. QED
      BY <1>t, <2>1, <2>2, <2>5, <3>1, <3>2, <3>3, RepairCheckStep DEF Verdicts
  <2>. QED
    BY <2>3, <2>4, <2>5
<1>7. ASSUME NEW ok \in BOOLEAN, Repair!Rename(ok) PROVE RepairInv'
  <2>1. /\ pc = "rename" /\ pc' = "audit" /\ tmp' = Repair!NoCopy
        /\ UNCHANGED <<kind, puts, moved, row, doubt, torn, lost>>
    BY <1>7 DEF Repair!Rename, Repair!history
  <2>2. verdict.status = "ok" /\ ~verdict.replaced /\ ~verdict.gap /\ ~verdict.frames
    BY <2>1 DEF RepairInv, OneCheck
  <2>3. tmp' \in Content /\ tmp'.ver <= puts
    BY <1>v, <2>1
  <2>4. CASE ok
    <3>1. disk' = tmp /\ verdict' = [verdict EXCEPT !.status = "repaired", !.replaced = TRUE]
      BY <1>7, <2>4 DEF Repair!Rename
    <3>2. /\ verdict' \in Verdicts /\ verdict'.status = "repaired" /\ verdict'.replaced
          /\ ~verdict'.gap /\ ~verdict'.frames
      BY <1>t, <2>2, <3>1, RepairStatus
    <3>3. RepairTypes'
      BY <1>t, <2>1, <2>3, <3>1, <3>2 DEF RepairTypes, Verdicts
    <3>4. OneCheck' /\ Stamped' /\ ~lost'
      BY <2>1, <3>2 DEF RepairInv, OneCheck, Stamped
    <3>5. ~doubt' => CheckKnows'
      BY <2>1, <3>1, <3>2 DEF RepairInv, CheckKnows, ContainerKnown
    <3>. QED
      BY <2>1, <3>3, <3>4, <3>5 DEF RepairInv
  <2>5. CASE ~ok
    <3>1. disk' = disk /\ verdict' = [verdict EXCEPT !.status = "flagged"]
      BY <1>7, <2>5 DEF Repair!Rename
    <3>2. /\ verdict' \in Verdicts /\ verdict'.status = "flagged" /\ ~verdict'.replaced
          /\ ~verdict'.gap /\ ~verdict'.frames
      BY <1>t, <2>2, <3>1, RepairStatus
    <3>3. ~doubt' => ~doubt /\ CheckKnows'
      BY <2>1, <3>1, <3>2 DEF RepairInv, CheckKnows, ContainerKnown
    <3>. QED
      BY <1>t, <2>1, <2>2, <2>3, <3>1, <3>2, <3>3, RepairCheckStep DEF Verdicts
  <2>. QED
    BY <2>4, <2>5
<1>8. ASSUME NEW ok \in BOOLEAN, Repair!Audit(ok) PROVE RepairInv'
  <2>1. /\ pc = "audit" /\ pc' = "record" /\ UNCHANGED <<kind, puts, disk, moved, row, tmp, torn, lost>>
        /\ ~doubt' => ~doubt /\ ok
    BY <1>8 DEF Repair!Audit
  <2>2. ~verdict.gap /\ ~verdict.frames
    BY <2>1 DEF RepairInv, OneCheck
  <2>3. CASE ok
    <3>. DEFINE g == "gap" \in disk.dmg  f == kind # "video" /\ "frames" \in disk.dmg
    <3>1. verdict' = [verdict EXCEPT !.gap = g, !.frames = f]
      BY <1>8, <2>3 DEF Repair!Audit
    <3>2. g \in BOOLEAN /\ f \in BOOLEAN /\ (g <=> "gap" \in disk.dmg)
          /\ (f <=> kind # "video" /\ "frames" \in disk.dmg)
      OBVIOUS
    <3>. HIDE DEF g, f
    <3>3. /\ verdict' \in Verdicts /\ verdict'.status = verdict.status /\ verdict'.replaced = verdict.replaced
          /\ verdict'.gap = g /\ verdict'.frames = f
      BY <1>t, <3>1, <3>2 DEF Verdicts
    <3>4. ~doubt' => ~doubt /\ CheckKnows'
      BY <2>1, <3>2, <3>3 DEF RepairInv, CheckKnows, ContainerKnown
    <3>. QED
      BY <1>t, <2>1, <3>3, <3>4, RepairCheckStep DEF Verdicts
  <2>4. CASE ~ok
    <3>1. verdict' = verdict
      BY <1>8, <2>4 DEF Repair!Audit
    <3>. QED
      BY <1>t, <2>1, <2>4, <3>1, RepairCheckStep DEF Verdicts
  <2>. QED
    BY <2>3, <2>4
<1>9. ASSUME NEW ok \in BOOLEAN, Repair!Record(ok) PROVE RepairInv'
  <2>. DEFINE s == Repair!Classify(verdict)
  <2>1. /\ pc = "record" /\ pc' = "idle" /\ verdict' = Repair!Unread
        /\ UNCHANGED <<kind, puts, disk, moved, tmp, doubt, lost>>
        /\ \/ row' = Repair!Refreshed(row, s) /\ verdict.replaced
           \/ row' = [row EXCEPT !.status = s] /\ (verdict.replaced => ~ok)
        /\ ~torn' => ~torn /\ (verdict.replaced => ok)
    BY <1>9 DEF Repair!Record
  <2>2. s \in {"", "ok", "repaired", "flagged", "degraded"}
    BY <1>t DEF Verdicts, Repair!Classify
  <2>3. \/ row' = [status |-> s, stamp |-> disk, sum |-> disk] /\ verdict.replaced
        \/ row' = [row EXCEPT !.status = s] /\ (verdict.replaced => ~ok)
    BY <2>1 DEF Repair!Refreshed
  <2>. HIDE DEF s
  <2>4. /\ row' \in [status : {"", "ok", "repaired", "flagged", "degraded"}, stamp : Content, sum : Content]
        /\ row'.status = s
        /\ \/ row'.stamp = disk /\ row'.sum = disk /\ verdict.replaced
           \/ row'.stamp = row.stamp /\ row'.sum = row.sum /\ (verdict.replaced => ~ok)
    <3>1. CASE row' = [status |-> s, stamp |-> disk, sum |-> disk] /\ verdict.replaced
      <4>1. disk \in Content
        BY <1>t
      <4>. QED
        BY <2>2, <3>1, <4>1
    <3>2. CASE row' = [row EXCEPT !.status = s] /\ (verdict.replaced => ~ok)
      <4>1. row \in [status : {"", "ok", "repaired", "flagged", "degraded"}, stamp : Content, sum : Content]
        BY <1>t
      <4>2. /\ row' \in [status : {"", "ok", "repaired", "flagged", "degraded"}, stamp : Content, sum : Content]
            /\ row'.status = s /\ row'.stamp = row.stamp /\ row'.sum = row.sum
        BY <2>2, <3>2, <4>1
      <4>. QED
        BY <3>2, <4>2
    <3>. QED
      BY <2>3, <3>1, <3>2
  <2>5. row'.stamp.ver <= puts
    BY <1>t, <2>4
  <2>6. RepairTypes'
    BY <1>t, <1>u, <2>1, <2>4, <2>5 DEF RepairTypes, Verdicts
  <2>7. OneCheck' /\ ~lost'
    BY <1>u, <2>1 DEF RepairInv, OneCheck
  <2>8. Stamped'
    BY <1>u, <2>1, <2>4 DEF RepairInv, Stamped
  <2>9. ~doubt => TrueOfFile(s)
    <3>. SUFFICES ASSUME ~doubt PROVE TrueOfFile(s)
      OBVIOUS
    <3>1. /\ ContainerKnown /\ (verdict.gap <=> "gap" \in disk.dmg)
          /\ verdict.frames <=> kind # "video" /\ "frames" \in disk.dmg
      BY <2>1 DEF RepairInv, CheckKnows
    <3>2. disk.dmg \subseteq Damage
      BY <1>t DEF Content
    <3>3. CASE verdict.frames \/ verdict.status = "flagged"
      <4>1. s = "flagged"
        BY <3>3 DEF s, Repair!Classify
      <4>. QED
        BY <3>1, <3>3, <4>1 DEF TrueOfFile, ContainerKnown
    <3>4. CASE ~verdict.frames /\ verdict.status # "flagged" /\ verdict.gap
      <4>1. s = "degraded"
        BY <3>4 DEF s, Repair!Classify
      <4>. QED
        BY <3>1, <3>4, <4>1 DEF TrueOfFile, Seen
    <3>5. CASE ~verdict.frames /\ verdict.status # "flagged" /\ ~verdict.gap
      <4>1. s \in {"", "ok", "repaired"}
        BY <1>t, <3>5 DEF s, Repair!Classify, Verdicts
      <4>2. Seen = {}
        <5>1. "gap" \notin disk.dmg
          BY <3>1, <3>5
        <5>2. kind = "video" \/ "frames" \notin disk.dmg
          BY <3>1, <3>5
        <5>3. kind = "mp3" \/ "container" \notin disk.dmg
          BY <3>1, <3>5 DEF ContainerKnown
        <5>4. \A d \in disk.dmg : d \in Damage
          BY <3>2
        <5>5. Damage = {"container", "gap", "frames"}
          BY DEF Damage
        <5>. QED
          BY <5>1, <5>2, <5>3, <5>4, <5>5 DEF Seen
      <4>. QED
        BY <4>1, <4>2 DEF TrueOfFile
    <3>. QED
      BY <3>3, <3>4, <3>5
  <2>10. Seen' = Seen
    BY <2>1 DEF Seen
  <2>. QED
    BY <2>1, <2>4, <2>6, <2>7, <2>8, <2>9, <2>10 DEF RepairInv, CheckKnows, TrueOfFile
<1>10. ASSUME NEW ok \in BOOLEAN, Repair!DeepCheck(ok) PROVE RepairInv'
  <2>. DEFINE found == disk.dmg \cap {"gap", "frames"}  s == row'.status
  <2>1. /\ pc = "idle" /\ UNCHANGED <<kind, puts, disk, moved, pc, tmp, verdict, doubt, torn, lost>>
        /\ \/ row' = row
           \/ /\ found # {}
              /\ row' = [row EXCEPT !.status = IF "frames" \in found THEN "flagged" ELSE "degraded"]
    BY <1>10 DEF Repair!DeepCheck, Repair!history
  <2>2. /\ row' \in [status : {"", "ok", "repaired", "flagged", "degraded"}, stamp : Content, sum : Content]
        /\ row'.stamp = row.stamp /\ row'.sum = row.sum
        /\ \/ s = row.status
           \/ found # {} /\ s = IF "frames" \in found THEN "flagged" ELSE "degraded"
    BY <1>t, <2>1
  <2>3. RepairTypes' /\ OneCheck' /\ Stamped' /\ ~lost'
    BY <2>1, <2>2 DEF RepairInv, RepairTypes, OneCheck, Stamped
  <2>4. ~doubt /\ row.stamp = disk => TrueOfFile(s)
    BY <2>1, <2>2 DEF RepairInv, TrueOfFile, Seen
  <2>5. Seen' = Seen
    BY <2>1 DEF Seen
  <2>. QED
    BY <2>1, <2>2, <2>3, <2>4, <2>5 DEF RepairInv, CheckKnows, TrueOfFile
<1>11. CASE Repair!Scan
  <2>1. /\ pc = "idle" /\ ~moved' /\ UNCHANGED <<kind, puts, disk, pc, tmp, verdict, doubt>>
        /\ ~lost /\ ~(moved /\ disk # row.sum /\ disk.ver = row.sum.ver) => ~lost'
        /\ row' = (IF moved /\ disk = row.sum THEN [row EXCEPT !.stamp = disk]
                   ELSE IF moved \/ disk # row.stamp THEN [status |-> "", stamp |-> disk, sum |-> disk]
                   ELSE row)
    BY <1>11 DEF Repair!Scan
  <2>2. ~lost /\ row.stamp = row.sum /\ ~verdict.replaced /\ (moved => ~torn)
    BY <2>1 DEF RepairInv, OneCheck, Stamped
  <2>3. ~lost'
    BY <2>1, <2>2 DEF RepairInv, Stamped
  <2>4. /\ row' \in [status : {"", "ok", "repaired", "flagged", "degraded"}, stamp : Content, sum : Content]
        /\ row'.stamp = disk /\ row'.sum = disk
        /\ row'.status = "" \/ (row'.status = row.status /\ row.stamp = disk)
    BY <1>t, <2>1, <2>2
  <2>5. RepairTypes'
    BY <1>t, <2>1, <2>4 DEF RepairTypes, Verdicts
  <2>6. OneCheck' /\ Stamped'
    BY <2>1, <2>2, <2>4 DEF RepairInv, OneCheck, Stamped
  <2>7. Seen' = Seen
    BY <2>1 DEF Seen
  <2>. QED
    BY <2>1, <2>3, <2>4, <2>5, <2>6, <2>7 DEF RepairInv, CheckKnows, TrueOfFile
<1>12. ASSUME NEW D \in Damages, Repair!Put(D) PROVE RepairInv'
  <2>1. /\ puts' = puts + 1 /\ disk' = [ver |-> puts + 1, dmg |-> D, made |-> "put"]
        /\ ~doubt' => ~doubt /\ pc = "idle"
        /\ UNCHANGED <<kind, moved, row, pc, tmp, verdict, torn, lost>>
    BY <1>12 DEF Repair!Put, Repair!Bytes
  <2>2. puts' \in Nat /\ disk'.ver = puts' /\ tmp.ver <= puts' /\ row.stamp.ver < puts'
    <3>1. tmp.ver \in Nat /\ row.stamp.ver \in Nat /\ disk'.ver = puts + 1
      BY <1>t, <2>1 DEF Content
    <3>2. puts \in Nat /\ tmp.ver <= puts /\ row.stamp.ver <= puts
      BY <1>t
    <3>. QED
      BY <2>1, <3>1, <3>2
  <2>3. disk' \in Content
    <3>1. D \subseteq Damage
      OBVIOUS
    <3>2. puts \in Nat
      BY <1>t
    <3>3. puts + 1 \in Nat
      BY <3>2
    <3>. QED
      BY <2>1, <3>1, <3>3 DEF Content
  <2>4. row.stamp.ver # disk'.ver /\ row.stamp.ver \in Nat
    <3>1. row.stamp.ver \in Nat
      BY <1>t DEF Content
    <3>. QED
      BY <2>2, <3>1
  <2>5. RepairTypes'
    <3>1. disk'.ver <= puts' /\ tmp'.ver <= puts' /\ row'.stamp.ver <= puts'
      <4>1. puts' \in Nat /\ row.stamp.ver \in Nat /\ row.stamp.ver < puts' /\ disk'.ver = puts'
        BY <2>2, <2>4
      <4>2. row.stamp.ver <= puts' /\ disk'.ver <= puts'
        BY <4>1
      <4>. QED
        BY <2>1, <2>2, <4>2
    <3>2. tmp' = tmp /\ row' = row /\ verdict' = verdict /\ pc' = pc
      BY <2>1
    <3>3. /\ tmp \in Content /\ verdict \in Verdicts
          /\ row \in [status : {"", "ok", "repaired", "flagged", "degraded"}, stamp : Content, sum : Content]
          /\ pc \in {"idle", "check", "remux", "verify", "rename", "audit", "record"}
      BY <1>t, Zenon DEF RepairInv, RepairTypes
    <3>4. puts' \in Nat
      BY <2>2
    <3>. QED
      BY <2>3, <3>1, <3>2, <3>3, <3>4, Zenon DEF RepairTypes, Verdicts
  <2>6. OneCheck' /\ Stamped' /\ ~lost' /\ row.stamp # disk'
    BY <2>1, <2>4 DEF RepairInv, OneCheck, Stamped
  <2>. QED
    BY <2>1, <2>5, <2>6 DEF RepairInv, CheckKnows
<1>13. CASE Repair!MoveAway
  <2>1. /\ pc = "idle" /\ ~torn /\ UNCHANGED <<kind, puts, disk, row, pc, tmp, verdict, doubt, torn, lost>>
    BY <1>13 DEF Repair!MoveAway, Repair!history
  <2>2. RepairTypes'
    BY <2>1 DEF RepairInv, RepairTypes
  <2>3. OneCheck' /\ Stamped' /\ ~lost'
    BY <2>1 DEF RepairInv, OneCheck, Stamped
  <2>4. (CheckKnows <=> CheckKnows') /\ Seen' = Seen
    BY <2>1, Zenon DEF CheckKnows, ContainerKnown, Seen
  <2>. QED
    BY <2>1, <2>2, <2>3, <2>4 DEF RepairInv, TrueOfFile
<1>14. CASE Repair!Crash
  <2>1. /\ pc # "idle" /\ pc' = "idle" /\ verdict' = Repair!Unread
        /\ ~torn' => ~torn /\ ~verdict.replaced
        /\ UNCHANGED <<kind, puts, disk, moved, row, tmp, doubt, lost>>
    BY <1>14 DEF Repair!Crash
  <2>2. RepairTypes'
    BY <1>t, <1>u, <2>1 DEF RepairTypes, Verdicts
  <2>3. OneCheck' /\ Stamped' /\ ~lost'
    BY <1>u, <2>1 DEF RepairInv, OneCheck, Stamped
  <2>4. row'.status = ""
    BY <2>1 DEF RepairInv, OneCheck
  <2>. QED
    BY <2>1, <2>2, <2>3, <2>4 DEF RepairInv, CheckKnows, TrueOfFile
<1>15. CASE UNCHANGED Repair!vars
  <2>1. UNCHANGED <<kind, puts, disk, moved, row, pc, tmp, verdict, doubt, torn, lost>>
    BY <1>15, Zenon DEF Repair!vars, Repair!history
  <2>2. UNCHANGED <<RepairTypes, OneCheck, Stamped>>
    BY <2>1, Zenon DEF RepairTypes, OneCheck, Stamped
  <2>3. UNCHANGED <<CheckKnows, Seen>>
    BY <2>1, Zenon DEF CheckKnows, ContainerKnown, Seen
  <2>4. TrueOfFile(row.status)' <=> TrueOfFile(row.status)
    BY <2>1, <2>3 DEF TrueOfFile
  <2>. QED
    BY <2>1, <2>2, <2>3, <2>4 DEF RepairInv
<1>. QED
  BY <1>1, <1>2, <1>3, <1>4, <1>5, <1>6, <1>7, <1>8, <1>9, <1>10, <1>11, <1>12, <1>13, <1>14, <1>15
     DEF Repair!Next

(* A verdict is about the file that is there, and a track that was         *)
(* repaired and moved is still known (internal/integrity,                  *)
(* video/integrity.go), however often files are put.                       *)
THEOREM VerdictsFollowFiles ==
  ASSUME Damages \subseteq SUBSET {"container", "gap", "frames"}
  PROVE  Spec => []VerdictFollowsFile
<1>1. RepairInv => Repair!VerdictFollowsFile
  BY DEF RepairInv, TrueOfFile, Seen, Repair!VerdictFollowsFile
<1>2. Repair!Init => RepairInv
  BY RepairInit DEF Damage
<1>3. RepairInv /\ [Repair!Next]_(Repair!vars) => RepairInv'
  BY RepairNext DEF Damage
<1>. DEFINE Inv == part = "repair" => RepairInv
<1>4. Init => Inv
  BY <1>2 DEF Init, Begun
<1>5. Inv /\ [Next]_vars => Inv'
  <2>1. ASSUME [Next]_vars, part' = "repair" PROVE part = "repair" /\ [Repair!Next]_(Repair!vars)
    BY <2>1, RepairTurn
  <2>. QED
    BY <2>1, <1>3
<1>6. Inv => VerdictFollowsFile
  BY <1>1 DEF VerdictFollowsFile
<1>. QED
  BY <1>4, <1>5, <1>6, PTL DEF Spec

-----------------------------------------------------------------------------
(* Podcasts.  Ids are never given twice, so a fetch that outlived its      *)
(* podcast finds no row, and one that finds a row finds its own feed's.    *)
FiniteFeeds ==
    \A up \in Upstreams : \A f \in Feeds : IsFiniteSet(up[f])
Guids == UNION {UNION {up[f] : f \in Feeds} : up \in Upstreams}
Pod == [feed : Feeds, err : BOOLEAN]
Episode == [pod : Nat, guid : Guids]
Fetch == [at : {"idle", "fetch", "upsert", "store"}, feed : Feeds \cup {"none"}, pod : Nat, key : Nat,
          items : SUBSET Guids]
FeedTypes ==
    /\ upstream \in Upstreams
    /\ given \in [pods : Nat, eps : Nat]
    /\ DOMAIN pods \subseteq 1 .. given.pods /\ pods \in [DOMAIN pods -> Pod]
    /\ DOMAIN eps \subseteq 1 .. given.eps /\ eps \in [DOMAIN eps -> Episode]
    /\ DOMAIN progress \subseteq DOMAIN eps /\ progress \in [DOMAIN progress -> BOOLEAN]
    /\ work \in [Works -> Fetch]
    /\ \A w \in Works : work[w].pod <= given.pods
Published(g, f) == \E up \in Upstreams : g \in up[f]
Named == \A i \in DOMAIN eps : eps[i].pod \in DOMAIN pods /\ Published(eps[i].guid, pods[eps[i].pod].feed)
Ticked ==
    \A h \in heard : \E i \in DOMAIN progress : eps[i] = [pod |-> h[1], guid |-> h[2]] /\ progress[i]
OfItsFeed(k) ==
    /\ k.at # "idle" => k.feed \in Feeds /\ (k.pod \in DOMAIN pods => pods[k.pod].feed = k.feed)
    /\ k.at \in {"upsert", "store"} => \E up \in Upstreams : k.items = up[k.feed]
FeedInv == FeedTypes /\ Named /\ Ticked /\ \A w \in Works : OfItsFeed(work[w])

LEMMA FeedInit ==
  ASSUME Upstreams \subseteq [Feeds -> SUBSET Guids], Feed!Init PROVE FeedInv
<1>1. Feed!Idle \in Fetch /\ Feed!Idle.at = "idle" /\ Feed!Idle.pod = 0
  BY DEF Feed!Idle, Fetch, Feed!NoPod
<1>2. /\ DOMAIN pods = {} /\ DOMAIN eps = {} /\ DOMAIN progress = {} /\ heard = {}
      /\ work = [w \in Works |-> Feed!Idle] /\ upstream \in Upstreams
      /\ pods = [i \in {} |-> Feed!NoPod] /\ eps = [i \in {} |-> Feed!NoPod] /\ progress = [i \in {} |-> FALSE]
      /\ given = [pods |-> 0, eps |-> 0]
  BY DEF Feed!Init
<1>3. given \in [pods : Nat, eps : Nat] /\ given.pods = 0
  BY <1>2
<1>4. pods \in [DOMAIN pods -> Pod] /\ eps \in [DOMAIN eps -> Episode] /\ progress \in [DOMAIN progress -> BOOLEAN]
  BY <1>2
<1>5. /\ work \in [Works -> Fetch] /\ \A w \in Works : OfItsFeed(work[w])
      /\ \A w \in Works : work[w].pod <= given.pods
  BY <1>1, <1>2, <1>3 DEF OfItsFeed
<1>6. FeedTypes
  BY <1>2, <1>3, <1>4, <1>5 DEF FeedTypes
<1>. QED
  BY <1>2, <1>5, <1>6 DEF FeedInv, Named, Ticked

(* Only a work changes, and not what it is about. *)
LEMMA FeedWorks ==
  ASSUME FeedInv, UNCHANGED <<pods, eps, progress, given, heard>>, upstream' \in Upstreams,
         work' \in [Works -> Fetch],
         \A w \in Works : work'[w].pod <= given.pods /\ OfItsFeed(work'[w])
  PROVE  FeedInv'
<1>1. FeedTypes'
  BY DEF FeedInv, FeedTypes
<1>2. Named' /\ Ticked'
  BY DEF FeedInv, Named, Ticked
<1>3. \A w \in Works : OfItsFeed(work[w])'
  BY DEF OfItsFeed
<1>. QED
  BY <1>1, <1>2, <1>3 DEF FeedInv

LEMMA FeedDone ==
  ASSUME FeedInv, NEW w \in Works, Feed!Done(w)
  PROVE  /\ work' \in [Works -> Fetch]
         /\ \A v \in Works : work'[v].pod <= given.pods /\ work'[v] \in {work[v], Feed!Idle}
         /\ \A v \in Works : OfItsFeed(work'[v])
<1>1. Feed!Idle \in Fetch /\ Feed!Idle.at = "idle" /\ Feed!Idle.pod = 0
  BY DEF Feed!Idle, Fetch, Feed!NoPod
<1>2. given.pods \in Nat /\ work \in [Works -> Fetch]
  BY DEF FeedInv, FeedTypes
<1>3. work' = [work EXCEPT ![w] = Feed!Idle]
  BY DEF Feed!Done
<1>4. work' \in [Works -> Fetch] /\ \A v \in Works : work'[v] \in {work[v], Feed!Idle}
  BY <1>1, <1>2, <1>3
<1>5. OfItsFeed(Feed!Idle) /\ Feed!Idle.pod <= given.pods
  BY <1>1, <1>2 DEF OfItsFeed
<1>6. ASSUME NEW v \in Works PROVE OfItsFeed(work'[v]) /\ work'[v].pod <= given.pods
  BY <1>4, <1>5 DEF FeedInv, FeedTypes
<1>. QED
  BY <1>4, <1>6

(* The instance's operators on finite sets are the library's. *)
LEMMA SizeOfNew == \A S : Feed!Cardinality(S) = Cardinality(S)
BY DEF Feed!Cardinality, Cardinality

(* An insertion gives fresh ids to episodes of the feed and leaves the     *)
(* others and their progress alone.                                        *)
LEMMA FeedInsert ==
  ASSUME FeedInv, NEW p \in DOMAIN pods, NEW S \in SUBSET Guids, IsFiniteSet(S), Feed!Insert(p, S)
  PROVE  /\ progress' = progress
         /\ given' \in [pods : Nat, eps : Nat] /\ given'.pods = given.pods
         /\ DOMAIN eps' \subseteq 1 .. given'.eps /\ eps' \in [DOMAIN eps' -> Episode]
         /\ DOMAIN eps \subseteq DOMAIN eps' /\ \A i \in DOMAIN eps : eps'[i] = eps[i]
         /\ \A i \in DOMAIN eps' \ DOMAIN eps : eps'[i].pod = p /\ eps'[i].guid \in S
<1>. DEFINE new == {g \in S : Feed!Known(p, g) = {}}
            n == Feed!Cardinality(new)
            ids == (given.eps + 1) .. (given.eps + n)
<1>1. /\ given \in [pods : Nat, eps : Nat] /\ DOMAIN eps \subseteq 1 .. given.eps
      /\ eps \in [DOMAIN eps -> Episode] /\ progress \in [DOMAIN progress -> BOOLEAN] /\ p \in Nat
  BY DEF FeedInv, FeedTypes
<1>2. IsFiniteSet(new)
  <2>1. new \subseteq S
    OBVIOUS
  <2>. QED
    BY <2>1, FS_Subset
<1>3. n \in Nat
  <2>1. Cardinality(new) \in Nat
    BY <1>2, FS_CardinalityType
  <2>. QED
    BY <2>1, SizeOfNew
<1>4. UNION {{i \in DOMAIN eps : eps[i] = [pod |-> p, guid |-> g]} \ Feed!Known(p, g) : g \in S} = {}
  BY DEF Feed!Known
<1>5. PICK place \in [ids -> new] :
        /\ eps' = [i \in DOMAIN eps \cup ids |->
                      IF i \in ids THEN [pod |-> p, guid |-> place[i]] ELSE eps[i]]
        /\ progress' = [i \in DOMAIN progress |-> progress[i]]
        /\ given' = [given EXCEPT !.eps = given.eps + n]
  BY <1>4 DEF Feed!Insert
<1>. HIDE DEF n
<1>6. given.eps \in Nat /\ given' \in [pods : Nat, eps : Nat] /\ given'.pods = given.pods /\ given'.eps = given.eps + n
  BY <1>1, <1>3, <1>5
<1>7. \A i \in DOMAIN eps : i \notin ids
  BY <1>1, <1>3, <1>6
<1>8. DOMAIN eps \cup ids \subseteq 1 .. given'.eps
  BY <1>1, <1>3, <1>6
<1>9. \A i \in ids : [pod |-> p, guid |-> place[i]] \in Episode /\ place[i] \in S
  BY <1>1 DEF Episode
<1>. HIDE DEF ids, new
<1>10. DOMAIN eps' = DOMAIN eps \cup ids
  BY <1>5
<1>11. \A i \in DOMAIN eps : eps'[i] = eps[i]
  BY <1>5, <1>7
<1>12. \A i \in ids : eps'[i] = [pod |-> p, guid |-> place[i]]
  BY <1>5
<1>13. eps' \in [DOMAIN eps' -> Episode]
  BY <1>1, <1>5, <1>9, <1>10, <1>11, <1>12
<1>14. progress' = progress
  BY <1>1, <1>5
<1>. QED
  BY <1>6, <1>8, <1>9, <1>10, <1>11, <1>12, <1>13, <1>14

LEMMA FeedNext ==
  ASSUME Upstreams \subseteq [Feeds -> SUBSET Guids], FiniteFeeds, FeedInv, [Feed!Next]_(Feed!vars)
  PROVE  FeedInv'
<1>t. /\ given \in [pods : Nat, eps : Nat] /\ given.pods \in Nat /\ given.eps \in Nat
      /\ DOMAIN pods \subseteq 1 .. given.pods /\ pods \in [DOMAIN pods -> Pod]
      /\ DOMAIN eps \subseteq 1 .. given.eps /\ eps \in [DOMAIN eps -> Episode]
      /\ DOMAIN progress \subseteq DOMAIN eps /\ progress \in [DOMAIN progress -> BOOLEAN]
      /\ work \in [Works -> Fetch] /\ \A w \in Works : work[w].pod <= given.pods
      /\ upstream \in Upstreams
  BY DEF FeedInv, FeedTypes
<1>u. \A w \in Works : OfItsFeed(work[w])
  BY DEF FeedInv
<1>1. CASE Feed!Publish
  BY <1>1, <1>t, <1>u, FeedWorks DEF Feed!Publish
<1>2. CASE Feed!Restart
  <2>1. Feed!Idle \in Fetch /\ Feed!Idle.at = "idle" /\ Feed!Idle.pod = 0
    BY DEF Feed!Idle, Fetch, Feed!NoPod
  <2>2. /\ UNCHANGED <<upstream, pods, eps, progress, given, heard>>
        /\ work' = [w \in Works |-> Feed!Idle]
    BY <1>2 DEF Feed!Restart
  <2>3. work' \in [Works -> Fetch] /\ \A w \in Works : work'[w].pod <= given.pods /\ OfItsFeed(work'[w])
    BY <1>t, <2>1, <2>2 DEF OfItsFeed
  <2>. QED
    BY <1>t, <2>2, <2>3, FeedWorks
<1>3. ASSUME NEW w \in Works, NEW f \in Feeds, NEW p \in 0 .. given.pods, Feed!Begin(w, f, p),
             p \in DOMAIN pods => pods[p].feed = f
      PROVE  FeedInv'
  <2>. DEFINE new == [at |-> "fetch", feed |-> f, pod |-> p, key |-> p, items |-> {}]
  <2>1. UNCHANGED <<upstream, pods, eps, progress, given, heard>> /\ work' = [work EXCEPT ![w] = new]
    BY <1>3 DEF Feed!Begin
  <2>2. /\ new \in Fetch /\ new.at = "fetch" /\ new.feed = f /\ new.pod = p
    BY <1>t DEF Fetch
  <2>. HIDE DEF new
  <2>3. OfItsFeed(new) /\ new.pod <= given.pods
    BY <1>3, <1>t, <2>2 DEF OfItsFeed
  <2>4. work' \in [Works -> Fetch] /\ \A v \in Works : work'[v].pod <= given.pods /\ OfItsFeed(work'[v])
    BY <1>t, <1>u, <2>1, <2>2, <2>3
  <2>. QED
    BY <1>t, <2>1, <2>4, FeedWorks
<1>4. ASSUME NEW w \in Works, NEW f \in Feeds, Feed!Subscribe(w, f) PROVE FeedInv'
  <2>1. Feed!Begin(w, f, 0) /\ 0 \in 0 .. given.pods /\ 0 \notin DOMAIN pods
    BY <1>4, <1>t DEF Feed!Subscribe, Feed!NoPod
  <2>. QED
    BY <1>3, <2>1
<1>5. ASSUME NEW w \in Works, NEW p \in DOMAIN pods, Feed!Refresh(w, p) PROVE FeedInv'
  <2>1. Feed!Begin(w, pods[p].feed, p) /\ p \in 0 .. given.pods /\ pods[p].feed \in Feeds
    BY <1>5, <1>t DEF Feed!Refresh, Pod
  <2>. QED
    BY <1>3, <2>1
<1>6. ASSUME NEW w \in Works, Feed!Fetched(w) PROVE FeedInv'
  <2>1. /\ work[w].at = "fetch" /\ UNCHANGED <<upstream, pods, eps, progress, given, heard>>
        /\ \/ Feed!Done(w)
           \/ \E s \in {"upsert", "store"} :
                 work' = [work EXCEPT ![w].at = s, ![w].items = upstream[work[w].feed]]
    BY <1>6 DEF Feed!Fetched
  <2>2. CASE Feed!Done(w)
    BY <1>t, <2>1, <2>2, FeedDone, FeedWorks
  <2>3. ASSUME NEW s \in {"upsert", "store"},
               work' = [work EXCEPT ![w].at = s, ![w].items = upstream[work[w].feed]]
        PROVE  FeedInv'
    <3>. DEFINE new == [work[w] EXCEPT !.at = s, !.items = upstream[work[w].feed]]
    <3>1. work[w].feed \in Feeds /\ upstream[work[w].feed] \in SUBSET Guids
      BY <1>t, <1>u, <2>1 DEF OfItsFeed
    <3>2. /\ new \in Fetch /\ new.at = s /\ new.items = upstream[work[w].feed]
          /\ new.feed = work[w].feed /\ new.pod = work[w].pod
      BY <1>t, <3>1 DEF Fetch
    <3>3. work' = [work EXCEPT ![w] = new]
      BY <2>3
    <3>. HIDE DEF new
    <3>4. OfItsFeed(new) /\ new.pod <= given.pods
      BY <1>t, <1>u, <2>1, <3>1, <3>2 DEF OfItsFeed
    <3>5. work' \in [Works -> Fetch] /\ \A v \in Works : work'[v].pod <= given.pods /\ OfItsFeed(work'[v])
      BY <1>t, <1>u, <3>2, <3>3, <3>4
    <3>. QED
      BY <1>t, <2>1, <3>5, FeedWorks
  <2>. QED
    BY <2>1, <2>2, <2>3
<1>7. ASSUME NEW w \in Works, Feed!StoreFails(w) PROVE FeedInv'
  BY <1>7, <1>t, FeedDone, FeedWorks DEF Feed!StoreFails
<1>8. ASSUME NEW w \in Works, Feed!FetchFails(w) PROVE FeedInv'
  <2>. DEFINE p == work[w].pod
  <2>1. /\ Feed!Done(w) /\ UNCHANGED <<upstream, eps, progress, given, heard>>
        /\ pods' = [q \in DOMAIN pods |-> IF q = p THEN [pods[q] EXCEPT !.err = TRUE] ELSE pods[q]]
    BY <1>8 DEF Feed!FetchFails
  <2>2. ASSUME NEW q \in DOMAIN pods
        PROVE  [pods[q] EXCEPT !.err = TRUE] \in Pod /\ [pods[q] EXCEPT !.err = TRUE].feed = pods[q].feed
    <3>1. pods[q] \in Pod
      BY <1>t
    <3>. QED
      BY <3>1 DEF Pod
  <2>3. /\ DOMAIN pods' = DOMAIN pods /\ pods' \in [DOMAIN pods' -> Pod]
        /\ \A q \in DOMAIN pods : pods'[q].feed = pods[q].feed
    BY <1>t, <2>1, <2>2
  <2>4. /\ work' \in [Works -> Fetch]
        /\ \A v \in Works : work'[v].pod <= given.pods /\ OfItsFeed(work'[v])
    BY <2>1, FeedDone
  <2>5. FeedTypes'
    BY <1>t, <2>1, <2>3, <2>4 DEF FeedTypes
  <2>6. Named' /\ Ticked'
    BY <2>1, <2>3 DEF FeedInv, Named, Ticked
  <2>7. \A v \in Works : OfItsFeed(work[v])'
    BY <2>1, <2>3, <2>4 DEF OfItsFeed
  <2>. QED
    BY <2>5, <2>6, <2>7 DEF FeedInv
<1>9. ASSUME NEW w \in Works, Feed!Upsert(w) PROVE FeedInv'
  <2>. DEFINE f == work[w].feed
              had == {i \in DOMAIN pods : pods[i].feed = f}
  <2>1. PICK p : /\ work[w].at = "upsert" /\ UNCHANGED <<upstream, eps, progress, heard>>
                 /\ IF had = {} THEN p = given.pods + 1 ELSE p \in had
                 /\ pods' = [i \in DOMAIN pods \cup {p} |->
                                IF i = p THEN [feed |-> f, err |-> FALSE] ELSE pods[i]]
                 /\ given' = [given EXCEPT !.pods = IF had = {} THEN p ELSE given.pods]
                 /\ work' = [work EXCEPT ![w].at = "store", ![w].pod = p]
    BY <1>9 DEF Feed!Upsert, Feed!NextId
  <2>2. f \in Feeds
    BY <1>u, <2>1 DEF OfItsFeed
  <2>3. p \in Nat /\ p > 0 /\ (p \in DOMAIN pods => pods[p].feed = f)
    <3>1. CASE had = {}
      BY <1>t, <2>1, <3>1
    <3>2. CASE had # {}
      BY <1>t, <2>1, <3>2
    <3>. QED
      BY <3>1, <3>2
  <2>4. given'.pods \in Nat /\ given'.eps = given.eps /\ given' \in [pods : Nat, eps : Nat]
        /\ given.pods <= given'.pods /\ p <= given'.pods
    <3>1. CASE had = {}
      BY <1>t, <2>1, <2>3, <3>1
    <3>2. CASE had # {}
      BY <1>t, <2>1, <2>3, <3>2
    <3>. QED
      BY <3>1, <3>2
  <2>. HIDE DEF f, had
  <2>5. /\ DOMAIN pods' = DOMAIN pods \cup {p} /\ pods'[p].feed = f
        /\ \A i \in DOMAIN pods : pods'[i].feed = pods[i].feed
        /\ pods' \in [DOMAIN pods' -> Pod]
    <3>1. [feed |-> f, err |-> FALSE] \in Pod
      BY <2>2 DEF Pod
    <3>. QED
      BY <1>t, <2>1, <2>3, <3>1
  <2>6. DOMAIN pods' \subseteq 1 .. given'.pods
    BY <1>t, <2>3, <2>4, <2>5
  <2>. DEFINE new == [work[w] EXCEPT !.at = "store", !.pod = p]
  <2>7. /\ new \in Fetch /\ new.at = "store" /\ new.pod = p /\ new.feed = work[w].feed
        /\ new.items = work[w].items
    BY <1>t, <2>3 DEF Fetch
  <2>8. work' = [work EXCEPT ![w] = new]
    BY <2>1
  <2>. HIDE DEF new
  <2>9. work' \in [Works -> Fetch] /\ work'[w] = new /\ \A v \in Works \ {w} : work'[v] = work[v]
    BY <1>t, <2>7, <2>8
  <2>10. \A v \in Works : work'[v].pod <= given'.pods
    <3>1. \A v \in Works : work[v].pod \in Nat /\ work[v].pod <= given.pods
      BY <1>t DEF Fetch
    <3>. QED
      BY <1>t, <2>4, <2>7, <2>9, <3>1
  <2>11. FeedTypes'
    BY <1>t, <2>1, <2>4, <2>5, <2>6, <2>9, <2>10 DEF FeedTypes
  <2>12. Named' /\ Ticked'
    BY <2>1, <2>5 DEF FeedInv, Named, Ticked
  <2>13. ASSUME NEW v \in Works PROVE OfItsFeed(work[v])'
    <3>1. CASE v = w
      BY <1>u, <2>1, <2>2, <2>5, <2>7, <2>9, <3>1 DEF OfItsFeed, f
    <3>2. CASE v # w
      <4>1. work'[v] = work[v] /\ OfItsFeed(work[v])
        BY <1>u, <2>9, <3>2
      <4>2. work[v].pod \in DOMAIN pods' => work[v].pod \in DOMAIN pods
        <5>1. work[v].pod \in Nat /\ work[v].pod <= given.pods
          BY <1>t DEF Fetch
        <5>2. CASE had = {}
          BY <1>t, <2>1, <2>5, <5>1, <5>2
        <5>3. CASE had # {}
          BY <2>1, <2>5, <5>3 DEF had
        <5>. QED
          BY <5>2, <5>3
      <4>. QED
        BY <2>5, <4>1, <4>2 DEF OfItsFeed
    <3>. QED
      BY <3>1, <3>2
  <2>. QED
    BY <2>11, <2>12, <2>13 DEF FeedInv
<1>10. ASSUME NEW w \in Works, Feed!Store(w) PROVE FeedInv'
  <2>1. work[w].at = "store" /\ Feed!Done(w) /\ UNCHANGED <<upstream, heard>>
    BY <1>10 DEF Feed!Store
  <2>2. /\ work' \in [Works -> Fetch]
        /\ \A v \in Works : work'[v].pod <= given.pods /\ OfItsFeed(work'[v])
    BY <2>1, FeedDone
  <2>3. CASE work[w].pod \notin DOMAIN pods
    <3>1. UNCHANGED <<pods, eps, progress, given>>
      BY <1>10, <2>3 DEF Feed!Store
    <3>. QED
      BY <1>t, <2>1, <2>2, <3>1, FeedWorks
  <2>4. CASE work[w].pod \in DOMAIN pods
    <3>. DEFINE p == work[w].pod
    <3>1. PICK S \in SUBSET work[w].items : Feed!Insert(p, S)
      BY <1>10, <2>4 DEF Feed!Store
    <3>2. pods' = [pods EXCEPT ![p].err = FALSE]
      BY <1>10, <2>4 DEF Feed!Store
    <3>3. PICK up \in Upstreams : work[w].items = up[work[w].feed]
      BY <1>u, <2>1 DEF OfItsFeed
    <3>4. work[w].feed \in Feeds /\ pods[p].feed = work[w].feed
      BY <1>u, <2>1, <2>4 DEF OfItsFeed
    <3>5. IsFiniteSet(S)
      <4>1. IsFiniteSet(up[work[w].feed])
        BY <3>4 DEF FiniteFeeds
      <4>. QED
        BY <3>3, <4>1, FS_Subset
    <3>6. S \in SUBSET Guids
      BY <1>t DEF Fetch
    <3>. HIDE DEF p
    <3>7. p \in DOMAIN pods
      BY <2>4 DEF p
    <3>8. /\ progress' = progress
          /\ given' \in [pods : Nat, eps : Nat] /\ given'.pods = given.pods
          /\ DOMAIN eps' \subseteq 1 .. given'.eps /\ eps' \in [DOMAIN eps' -> Episode]
          /\ DOMAIN eps \subseteq DOMAIN eps' /\ \A i \in DOMAIN eps : eps'[i] = eps[i]
          /\ \A i \in DOMAIN eps' \ DOMAIN eps : eps'[i].pod = p /\ eps'[i].guid \in S
      BY <3>1, <3>5, <3>6, <3>7, FeedInsert
    <3>9. /\ DOMAIN pods' = DOMAIN pods /\ pods' \in [DOMAIN pods' -> Pod]
          /\ \A q \in DOMAIN pods : pods'[q].feed = pods[q].feed
      <4>1. [pods[p] EXCEPT !.err = FALSE] \in Pod /\ [pods[p] EXCEPT !.err = FALSE].feed = pods[p].feed
        <5>1. pods[p] \in Pod
          BY <1>t, <3>7
        <5>. QED
          BY <5>1 DEF Pod
      <4>2. pods' = [pods EXCEPT ![p] = [pods[p] EXCEPT !.err = FALSE]]
        BY <3>2
      <4>. QED
        BY <1>t, <3>7, <4>1, <4>2
    <3>10. FeedTypes'
      BY <1>t, <2>1, <2>2, <3>8, <3>9 DEF FeedTypes
    <3>11. ASSUME NEW i \in DOMAIN eps'
           PROVE  eps'[i].pod \in DOMAIN pods /\ Published(eps'[i].guid, pods[eps'[i].pod].feed)
      <4>1. CASE i \in DOMAIN eps
        BY <3>8, <4>1 DEF FeedInv, Named
      <4>2. CASE i \notin DOMAIN eps
        <5>1. eps'[i].pod = p /\ eps'[i].guid \in up[pods[p].feed]
          BY <3>3, <3>4, <3>8, <4>2
        <5>. QED
          BY <3>7, <5>1 DEF Published
      <4>. QED
        BY <4>1, <4>2
    <3>12. Named'
      BY <3>9, <3>11 DEF Named, Published
    <3>13. Ticked'
      BY <1>t, <2>1, <3>8 DEF FeedInv, Ticked
    <3>14. \A v \in Works : OfItsFeed(work[v])'
      BY <2>2, <3>9 DEF OfItsFeed
    <3>. QED
      BY <3>10, <3>12, <3>13, <3>14 DEF FeedInv
  <2>. QED
    BY <2>3, <2>4
<1>11. ASSUME NEW p \in DOMAIN pods, Feed!Unsubscribe(p) PROVE FeedInv'
  <2>1. /\ pods' = [i \in DOMAIN pods \ {p} |-> pods[i]]
        /\ eps' = [i \in {j \in DOMAIN eps : eps[j].pod # p} |-> eps[i]]
        /\ progress' = [i \in DOMAIN progress \cap DOMAIN eps' |-> progress[i]]
        /\ heard' = {h \in heard : h[1] # p}
        /\ UNCHANGED <<upstream, given, work>>
    BY <1>11 DEF Feed!Unsubscribe
  <2>2. /\ DOMAIN pods' = DOMAIN pods \ {p} /\ pods' \in [DOMAIN pods' -> Pod]
        /\ \A i \in DOMAIN pods' : pods'[i] = pods[i]
    BY <1>t, <2>1
  <2>3. /\ DOMAIN eps' = {j \in DOMAIN eps : eps[j].pod # p} /\ eps' \in [DOMAIN eps' -> Episode]
        /\ \A i \in DOMAIN eps' : eps'[i] = eps[i]
    BY <1>t, <2>1
  <2>4. /\ DOMAIN progress' = DOMAIN progress \cap DOMAIN eps'
        /\ progress' \in [DOMAIN progress' -> BOOLEAN]
        /\ \A i \in DOMAIN progress' : progress'[i] = progress[i]
    BY <1>t, <2>1
  <2>5. FeedTypes'
    BY <1>t, <2>1, <2>2, <2>3, <2>4 DEF FeedTypes
  <2>6. Named'
    BY <2>2, <2>3 DEF FeedInv, Named, Published
  <2>7. Ticked'
    <3>. SUFFICES ASSUME NEW h \in heard, h[1] # p
                  PROVE  \E i \in DOMAIN progress' : eps'[i] = [pod |-> h[1], guid |-> h[2]] /\ progress'[i]
      BY <2>1 DEF Ticked
    <3>1. PICK i \in DOMAIN progress : eps[i] = [pod |-> h[1], guid |-> h[2]] /\ progress[i]
      BY DEF FeedInv, Ticked
    <3>2. i \in DOMAIN eps /\ eps[i].pod # p
      BY <1>t, <3>1
    <3>3. i \in DOMAIN progress'
      BY <2>3, <2>4, <3>2
    <3>. QED
      BY <2>3, <2>4, <3>1, <3>3
  <2>8. \A v \in Works : OfItsFeed(work[v])'
    BY <1>u, <2>1, <2>2 DEF OfItsFeed
  <2>. QED
    BY <2>5, <2>6, <2>7, <2>8 DEF FeedInv
<1>12. ASSUME NEW e \in DOMAIN eps, NEW done \in BOOLEAN, Feed!Report(e, done) PROVE FeedInv'
  <2>. DEFINE had == e \in DOMAIN progress /\ progress[e]
  <2>1. /\ progress' = [i \in DOMAIN progress \cup {e} |-> IF i = e THEN had \/ done ELSE progress[i]]
        /\ heard' = IF done THEN heard \cup {<<eps[e].pod, eps[e].guid>>} ELSE heard
        /\ UNCHANGED <<upstream, pods, eps, given, work>>
    BY <1>12 DEF Feed!Report, Feed!Tick
  <2>2. (had \/ done) \in BOOLEAN /\ (progress[e] /\ e \in DOMAIN progress => (had \/ done))
    OBVIOUS
  <2>. HIDE DEF had
  <2>3. /\ DOMAIN progress' = DOMAIN progress \cup {e} /\ progress'[e] = (had \/ done)
        /\ \A i \in DOMAIN progress \ {e} : progress'[i] = progress[i]
        /\ progress' \in [DOMAIN progress' -> BOOLEAN]
    BY <1>t, <2>1, <2>2
  <2>4. FeedTypes'
    BY <1>t, <2>1, <2>3 DEF FeedTypes
  <2>5. Named' /\ \A v \in Works : OfItsFeed(work[v])'
    BY <1>u, <2>1 DEF FeedInv, Named, Published, OfItsFeed
  <2>6. ASSUME NEW h \in heard
        PROVE  \E i \in DOMAIN progress' : eps'[i] = [pod |-> h[1], guid |-> h[2]] /\ progress'[i]
    <3>1. PICK i \in DOMAIN progress : eps[i] = [pod |-> h[1], guid |-> h[2]] /\ progress[i]
      BY DEF FeedInv, Ticked
    <3>. QED
      BY <2>1, <2>2, <2>3, <3>1
  <2>7. done => eps[e] = [pod |-> eps[e].pod, guid |-> eps[e].guid] /\ progress'[e]
    <3>1. eps[e] \in Episode
      BY <1>t
    <3>2. eps[e] = [pod |-> eps[e].pod, guid |-> eps[e].guid]
      BY <3>1 DEF Episode
    <3>. QED
      BY <2>3, <3>2
  <2>8. Ticked'
    BY <2>1, <2>3, <2>6, <2>7 DEF Ticked
  <2>. QED
    BY <2>4, <2>5, <2>8 DEF FeedInv
<1>13. CASE UNCHANGED Feed!vars
  BY <1>13 DEF Feed!vars, FeedInv, FeedTypes, Named, Published, Ticked, OfItsFeed
<1>. QED
  BY <1>1, <1>2, <1>4, <1>5, <1>6, <1>7, <1>8, <1>9, <1>10, <1>11, <1>12, <1>13 DEF Feed!Next

(* An episode belongs to the podcast whose feed named it, and what was     *)
(* heard to the end stays ticked (web/handlers_podcasts.go,                *)
(* handlers_stream_podcast.go), for any feeds and any number of fetches,   *)
(* and whatever MaxIds is.                                                 *)
THEOREM HeardEpisodesStay ==
  ASSUME Upstreams \subseteq [Feeds -> SUBSET Guids],
         \A up \in Upstreams : \A f \in Feeds : IsFiniteSet(up[f])
  PROVE  Spec => []HeardStaysHeard
<1>1. FeedInv => Feed!HeardStaysHeard
  BY DEF FeedInv, Named, Published, Ticked, Feed!HeardStaysHeard
<1>2. Feed!Init => FeedInv
  BY FeedInit
<1>3. FeedInv /\ [Feed!Next]_(Feed!vars) => FeedInv'
  BY FeedNext DEF FiniteFeeds
<1>. DEFINE Inv == part = "feed" => FeedInv
<1>4. Init => Inv
  BY <1>2 DEF Init, Begun
<1>5. Inv /\ [Next]_vars => Inv'
  <2>1. ASSUME [Next]_vars, part' = "feed" PROVE part = "feed" /\ [Feed!Next]_(Feed!vars)
    BY <2>1, FeedTurn
  <2>. QED
    BY <2>1, <1>3
<1>6. Inv => HeardStaysHeard
  BY <1>1 DEF HeardStaysHeard
<1>. QED
  BY <1>4, <1>5, <1>6, PTL DEF Spec

-----------------------------------------------------------------------------
(* Music matching.  What a job holds is a file until it ends, and no album *)
(* it is going to match was rejected; whatever gets a name during a sweep  *)
(* is a file that was written after the sweep had read the names.          *)
Rg == Groups \cup {Match!None}
Covers == {Match!NoCover} \cup {Match!Embedded(a) : a \in Albums} \cup {Match!Manual(a) : a \in Albums}
          \cup {Match!Fetched(g) : g \in Rg}
AlbumRow == [status : {"", "matched", "unmatched", "skipped"}, rg : Rg, art : Covers,
             tried : Match!Tries, artTried : Match!Tries]
ArtistRow == [mbid : Rg, bio : Rg, art : Covers, tried : Match!Tries]
Hold == [of : Albums \cup Artists \cup {Match!None}, rg : Rg, hadBio : BOOLEAN, hadArt : BOOLEAN,
         cover : Covers]
Kept(c) == c \in Match!Named /\ c # Match!NoCover /\ c \notin bare
MatchTypes ==
    /\ album \in [Albums -> AlbumRow] /\ artist \in [Artists -> ArtistRow]
    /\ files \in [DOMAIN files -> {"new", "old"}] /\ held \in Hold
    /\ phase \in {"idle", "enrich", "match", "refetch", "sweep"}
    /\ chosen \subseteq Albums /\ rejected \subseteq Albums
JobHolds ==
    /\ phase \in {"idle", "sweep"} => held = Match!NoHold
    /\ held # Match!NoHold => held.of \in IF phase = "enrich" THEN Artists ELSE Albums
    /\ held.cover # Match!NoCover => held.cover \in DOMAIN files
    /\ phase = "match" => todo \cap rejected = {} /\ (held # Match!NoHold => held.of \notin rejected)
SweepSpares ==
    phase = "sweep" => \A c \in DOMAIN files : Kept(c) => c \in listed \/ files[c] = "new"
MatchInv == MatchTypes /\ JobHolds /\ SweepSpares /\ Match!ChoicesStand

LEMMA MatchInit == ASSUME Match!Init PROVE MatchInv
<1>. DEFINE al == [status |-> "", rg |-> Match!None, art |-> Match!NoCover, tried |-> "never",
                   artTried |-> "never"]
            ar == [mbid |-> Match!None, bio |-> Match!None, art |-> Match!NoCover, tried |-> "never"]
<1>1. al \in AlbumRow /\ al.art = Match!NoCover /\ ar \in ArtistRow /\ ar.art = Match!NoCover
  BY DEF AlbumRow, ArtistRow, Rg, Covers, Match!Tries
<1>2. /\ album \in [Albums -> {al}] /\ artist = [b \in Artists |-> ar]
      /\ files = [c \in {Match!Embedded(a) : a \in Albums} |-> "old"]
      /\ phase = "idle" /\ held = Match!NoHold /\ chosen = {} /\ rejected = {} /\ bare = {}
  BY DEF Match!Init
<1>. HIDE DEF al, ar
<1>3. held \in Hold /\ held.cover = Match!NoCover
  BY <1>2 DEF Match!NoHold, Hold, Rg, Covers
<1>4. MatchTypes
  BY <1>1, <1>2, <1>3 DEF MatchTypes
<1>5. Match!Named \subseteq {Match!NoCover}
  BY <1>1, <1>2 DEF Match!Named
<1>. QED
  BY <1>2, <1>3, <1>4, <1>5 DEF MatchInv, JobHolds, SweepSpares, Match!ChoicesStand

(* A file that is written is new, and the others are as they were. *)
LEMMA MatchWritten ==
  ASSUME MatchTypes, NEW c, Match!Written(c)
  PROVE  /\ files' \in [DOMAIN files' -> {"new", "old"}] /\ DOMAIN files' = DOMAIN files \cup {c}
         /\ files'[c] = "new" /\ \A f \in DOMAIN files \ {c} : files'[f] = files[f]
BY DEF MatchTypes, Match!Written

(* A step after which the files are still there, every cover that is newly *)
(* named is a new file or named without being written, and nobody's choice *)
(* is lost.                                                                *)
FilesStay ==
    /\ files' \in [DOMAIN files' -> {"new", "old"}] /\ DOMAIN files \subseteq DOMAIN files'
    /\ \A c \in DOMAIN files : files'[c] \in {files[c], "new"}
LEMMA MatchStep ==
  ASSUME MatchInv, album' \in [Albums -> AlbumRow], artist' \in [Artists -> ArtistRow],
         held' \in Hold, phase' \in {"idle", "enrich", "match", "refetch", "sweep"},
         FilesStay, JobHolds', phase' = "sweep" => phase = "sweep" /\ listed' = listed,
         bare \subseteq bare',
         \A c \in Match!Named' : \/ c \in Match!Named \/ c = Match!NoCover \/ c \in bare'
                                 \/ c \in DOMAIN files' /\ (phase' = "sweep" => files'[c] = "new"),
         \A a \in chosen' : a \in Albums /\ album'[a].art = Match!Manual(a),
         \A a \in rejected' : a \in Albums /\ album'[a].status = "skipped"
  PROVE  MatchInv'
<1>1. MatchTypes'
  BY DEF MatchInv, MatchTypes, FilesStay
<1>2. SweepSpares'
  <2>. SUFFICES ASSUME phase' = "sweep", NEW c \in DOMAIN files', Kept(c)'
                PROVE  c \in listed' \/ files'[c] = "new"
    BY DEF SweepSpares
  <2>1. CASE c \in Match!Named
    <3>1. Kept(c) /\ c \in DOMAIN files
      BY <2>1 DEF Kept, MatchInv, Match!ChoicesStand
    <3>. QED
      BY <3>1 DEF MatchInv, SweepSpares, FilesStay
  <2>2. CASE c \notin Match!Named
    BY <2>2 DEF Kept
  <2>. QED
    BY <2>1, <2>2
<1>3. (Match!Named \ ({Match!NoCover} \cup bare))' \subseteq DOMAIN files'
  BY DEF MatchInv, Match!ChoicesStand, FilesStay
<1>4. Match!ChoicesStand'
  BY <1>3 DEF Match!ChoicesStand
<1>. QED
  BY <1>1, <1>2, <1>4 DEF MatchInv

(* A step that touches one album, or one artist, names no other cover than *)
(* the one it gives it.                                                    *)
LEMMA MatchAlbum ==
  ASSUME MatchTypes, NEW a \in Albums, NEW r \in AlbumRow,
         album' = [album EXCEPT ![a] = r], artist' = artist
  PROVE  /\ album' \in [Albums -> AlbumRow] /\ artist' \in [Artists -> ArtistRow]
         /\ album'[a] = r /\ \A x \in Albums \ {a} : album'[x] = album[x]
         /\ \A c \in Match!Named' : c \in Match!Named \/ c = r.art
<1>1. /\ album' \in [Albums -> AlbumRow] /\ artist' \in [Artists -> ArtistRow]
      /\ album'[a] = r /\ \A x \in Albums \ {a} : album'[x] = album[x]
  BY DEF MatchTypes
<1>. QED
  BY <1>1 DEF Match!Named
LEMMA MatchArtist ==
  ASSUME MatchTypes, NEW b \in Artists, NEW r \in ArtistRow,
         artist' = [artist EXCEPT ![b] = r], album' = album
  PROVE  /\ album' \in [Albums -> AlbumRow] /\ artist' \in [Artists -> ArtistRow]
         /\ \A c \in Match!Named' : c \in Match!Named \/ c = r.art
<1>1. /\ album' \in [Albums -> AlbumRow] /\ artist' \in [Artists -> ArtistRow]
      /\ artist'[b] = r /\ \A x \in Artists \ {b} : artist'[x] = artist[x]
  BY DEF MatchTypes
<1>. QED
  BY <1>1 DEF Match!Named

(* What a person does leaves the job as it was: the files it holds are     *)
(* there, and whatever is newly rejected it had not listed.                *)
LEMMA MatchAct ==
  ASSUME MatchInv, Match!Act, DOMAIN files \subseteq DOMAIN files',
         \A a \in rejected' : a \in rejected \/ ~Match!Exposed(a)
  PROVE  /\ JobHolds' /\ held' \in Hold /\ phase' = phase /\ listed' = listed
         /\ phase' \in {"idle", "enrich", "match", "refetch", "sweep"}
<1>1. phase' = phase /\ todo' = todo /\ held' = held /\ listed' = listed
  BY DEF Match!Act, Match!job
<1>2. /\ phase' \in {"idle", "sweep"} => held' = Match!NoHold
      /\ held' # Match!NoHold => held'.of \in IF phase' = "enrich" THEN Artists ELSE Albums
      /\ held'.cover # Match!NoCover => held'.cover \in DOMAIN files'
  BY <1>1 DEF MatchInv, JobHolds
<1>3. phase' = "match" => todo' \cap rejected' = {} /\ (held' # Match!NoHold => held'.of \notin rejected')
  BY <1>1 DEF MatchInv, JobHolds, Match!Exposed
<1>. QED
  BY <1>1, <1>2, <1>3 DEF MatchInv, MatchTypes, JobHolds

(* A step of the job that only says what it will look at. *)
MatchQuiet == UNCHANGED <<album, artist, files, chosen, rejected, bare>>
LEMMA MatchQuietStep ==
  ASSUME MatchInv, MatchQuiet, held' \in Hold,
         phase' \in {"idle", "enrich", "match", "refetch", "sweep"},
         JobHolds', phase' = "sweep" => phase = "sweep" /\ listed' = listed
  PROVE  MatchInv'
<1>1. /\ album' \in [Albums -> AlbumRow] /\ artist' \in [Artists -> ArtistRow] /\ FilesStay
  BY DEF MatchQuiet, MatchInv, MatchTypes, FilesStay
<1>2. Match!Named' = Match!Named
  BY DEF MatchQuiet, Match!Named
<1>3. /\ bare \subseteq bare'
      /\ \A a \in chosen' : a \in Albums /\ album'[a].art = Match!Manual(a)
      /\ \A a \in rejected' : a \in Albums /\ album'[a].status = "skipped"
  BY DEF MatchQuiet, MatchInv, MatchTypes, Match!ChoicesStand
<1>. QED
  BY <1>1, <1>2, <1>3, MatchStep
LEMMA MatchNoHold == Match!NoHold \in Hold /\ Match!NoHold.cover = Match!NoCover /\ Match!NoHold.of = Match!None
BY DEF Match!NoHold, Hold, Rg, Covers

LEMMA MatchFilesSame == ASSUME MatchTypes, UNCHANGED files PROVE FilesStay
BY DEF MatchTypes, FilesStay
LEMMA MatchFilesWritten == ASSUME MatchTypes, NEW c, Match!Written(c)
                           PROVE  FilesStay /\ c \in DOMAIN files' /\ files'[c] = "new"
BY MatchWritten DEF MatchTypes, FilesStay
LEMMA MatchCovers ==
  ASSUME NEW a \in Albums
  PROVE  /\ Match!NoCover \in Covers /\ Match!Embedded(a) \in Covers /\ Match!Manual(a) \in Covers
         /\ \A g \in Rg : Match!Fetched(g) \in Covers /\ Match!Manual(a) # Match!Fetched(g)
         /\ Match!Manual(a) # Match!NoCover
BY DEF Covers, Match!NoCover, Match!Embedded, Match!Manual, Match!Fetched

LEMMA MatchJobQuiet ==
  ASSUME MatchInv
  PROVE  /\ \A f \in BOOLEAN : Match!BeginJob(f) => MatchInv'
         /\ Match!BeginMatch => MatchInv'
         /\ Match!BeginRefetch => MatchInv'
         /\ Match!EndJob => MatchInv'
         /\ Match!CancelJob => MatchInv'
<1>1. ASSUME MatchQuiet, held' = Match!NoHold, phase' \in {"idle", "enrich", "match", "refetch"},
             phase' = "match" => todo' \cap rejected = {}
      PROVE  MatchInv'
  <2>1. JobHolds'
    BY <1>1, MatchNoHold DEF JobHolds, MatchQuiet
  <2>. QED
    BY <1>1, <2>1, MatchNoHold, MatchQuietStep
<1>2. Match!Candidates \cap rejected = {}
  BY DEF MatchInv, Match!ChoicesStand, Match!Candidates
<1>3. ASSUME NEW f \in BOOLEAN, Match!BeginJob(f) PROVE MatchInv'
  BY <1>1, <1>3 DEF Match!BeginJob, Match!Begin, MatchQuiet, Match!history
<1>4. ASSUME Match!BeginMatch PROVE MatchInv'
  BY <1>1, <1>2, <1>4 DEF Match!BeginMatch, Match!Begin, MatchQuiet, Match!history
<1>5. ASSUME Match!BeginRefetch PROVE MatchInv'
  BY <1>1, <1>5 DEF Match!BeginRefetch, Match!Begin, MatchQuiet, Match!history
<1>6. ASSUME Match!EndJob PROVE MatchInv'
  BY <1>1, <1>6 DEF Match!EndJob, Match!Begin, MatchQuiet, Match!history
<1>7. ASSUME Match!CancelJob PROVE MatchInv'
  BY <1>1, <1>7 DEF Match!CancelJob, Match!Begin, MatchQuiet, Match!history
<1>. QED
  BY <1>3, <1>4, <1>5, <1>6, <1>7

(* The steps of a job that fetch: only what it holds is written or named.  *)
LEMMA MatchEnrich ==
  ASSUME MatchInv, Match!None \notin Albums \cup Artists
  PROVE  /\ \A b \in Artists : Match!EnrichBegin(b) => MatchInv'
         /\ \A g \in Groups \cup {Match!None} : Match!EnrichSearched(g) => MatchInv'
         /\ \A bio, image \in BOOLEAN : Match!EnrichFetched(bio, image) => MatchInv'
<1>1. ASSUME NEW b \in Artists, NEW r \in ArtistRow, artist' = [artist EXCEPT ![b] = r],
             phase = "enrich", phase' = phase, UNCHANGED <<album, chosen, rejected, bare>>,
             held' \in Hold, held' # Match!NoHold => held'.of \in Artists,
             held'.cover # Match!NoCover => held'.cover \in DOMAIN files',
             FilesStay, r.art = artist[b].art \/ r.art \in DOMAIN files'
      PROVE  MatchInv'
  <2>1. /\ album' \in [Albums -> AlbumRow] /\ artist' \in [Artists -> ArtistRow]
        /\ \A c \in Match!Named' : c \in Match!Named \/ c = r.art
    BY <1>1, MatchArtist DEF MatchInv
  <2>2. artist[b].art \in Match!Named
    BY DEF Match!Named
  <2>3. JobHolds'
    BY <1>1 DEF JobHolds
  <2>4. /\ \A a \in chosen' : a \in Albums /\ album'[a].art = Match!Manual(a)
        /\ \A a \in rejected' : a \in Albums /\ album'[a].status = "skipped"
    BY <1>1 DEF MatchInv, MatchTypes, Match!ChoicesStand
  <2>. QED
    BY <1>1, <2>1, <2>2, <2>3, <2>4, MatchStep
<1>2. ASSUME NEW b \in Artists, Match!EnrichBegin(b) PROVE MatchInv'
  <2>. DEFINE had == [of |-> b, rg |-> artist[b].mbid, hadBio |-> artist[b].bio # Match!None,
                      hadArt |-> artist[b].art # Match!NoCover, cover |-> Match!NoCover]
              r == [artist[b] EXCEPT !.tried = "recent"]
  <2>1. artist[b] \in ArtistRow /\ FilesStay
    BY <1>2, MatchFilesSame DEF MatchInv, MatchTypes, Match!EnrichBegin
  <2>2. had \in Hold /\ had.of = b /\ had.cover = Match!NoCover
    BY <2>1 DEF Hold, ArtistRow, Covers
  <2>3. r \in ArtistRow /\ r.art = artist[b].art
    BY <2>1 DEF ArtistRow, Match!Tries
  <2>4. /\ phase = "enrich" /\ phase' = phase /\ UNCHANGED <<album, chosen, rejected, bare>>
        /\ \/ held' = Match!NoHold /\ artist' = artist
           \/ held' = had /\ artist' = [artist EXCEPT ![b].tried = "recent"]
    BY <1>2 DEF Match!EnrichBegin, Match!Take, Match!history
  <2>5. [artist EXCEPT ![b].tried = "recent"] = [artist EXCEPT ![b] = r]
    OBVIOUS
  <2>6. artist = [artist EXCEPT ![b] = artist[b]]
    BY DEF MatchInv, MatchTypes
  <2>. HIDE DEF had, r
  <2>7. CASE held' = Match!NoHold /\ artist' = artist
    BY <2>1, <2>4, <2>6, <2>7, <1>1, MatchNoHold
  <2>8. CASE held' = had /\ artist' = [artist EXCEPT ![b].tried = "recent"]
    BY <2>1, <2>2, <2>3, <2>4, <2>5, <2>8, <1>1
  <2>. QED
    BY <2>4, <2>7, <2>8
<1>3. ASSUME phase = "enrich", Match!Continue
      PROVE  /\ held.of \in Artists /\ phase' = phase /\ artist[held.of] \in ArtistRow
             /\ artist = [artist EXCEPT ![held.of] = artist[held.of]] /\ held \in Hold
  BY <1>3 DEF MatchInv, MatchTypes, JobHolds, Match!Continue, Match!Resting
<1>4. ASSUME NEW g \in Groups \cup {Match!None}, Match!EnrichSearched(g) PROVE MatchInv'
  <2>. DEFINE b == held.of
              r == [artist[b] EXCEPT !.mbid = g]
              h == [held EXCEPT !.rg = g]
  <2>1. phase = "enrich" /\ Match!Continue /\ UNCHANGED <<album, chosen, rejected, bare>> /\ FilesStay
    BY <1>4, MatchFilesSame DEF MatchInv, Match!EnrichSearched, Match!history
  <2>2. /\ b \in Artists /\ phase' = phase /\ artist[b] \in ArtistRow /\ held \in Hold
        /\ artist = [artist EXCEPT ![b] = artist[b]]
    BY <2>1, <1>3
  <2>3. r \in ArtistRow /\ r.art = artist[b].art
    BY <2>2 DEF ArtistRow, Rg
  <2>4. h \in Hold /\ h.of = b /\ h.cover = held.cover
    BY <2>2 DEF Hold, Rg
  <2>5. \/ held' = Match!NoHold /\ artist' = artist
        \/ held' = h /\ artist' = [artist EXCEPT ![b] = r]
    BY <1>4 DEF Match!EnrichSearched
  <2>. HIDE DEF b, r, h
  <2>6. CASE held' = Match!NoHold /\ artist' = artist
    BY <2>1, <2>2, <2>6, <1>1, MatchNoHold
  <2>7. CASE held' = h /\ artist' = [artist EXCEPT ![b] = r]
    <3>1. h.cover # Match!NoCover => h.cover \in DOMAIN files'
      BY <2>1, <2>4 DEF MatchInv, JobHolds, FilesStay
    <3>. QED
      BY <2>1, <2>2, <2>3, <2>4, <2>7, <3>1, <1>1 DEF b
  <2>. QED
    BY <2>5, <2>6, <2>7
<1>5. ASSUME NEW bio \in BOOLEAN, NEW image \in BOOLEAN, Match!EnrichFetched(bio, image)
      PROVE  MatchInv'
  <2>. DEFINE b == held.of
              c == Match!Fetched(held.rg)
              r == [artist[b] EXCEPT !.bio = IF ~held.hadBio /\ bio THEN held.rg ELSE @,
                                     !.art = IF ~held.hadArt /\ image THEN c ELSE @]
  <2>1. /\ phase = "enrich" /\ Match!Continue /\ UNCHANGED <<album, chosen, rejected, bare>>
        /\ held' = Match!NoHold
        /\ IF image /\ ~(held.hadBio /\ held.hadArt) THEN Match!Written(c) ELSE UNCHANGED files
    BY <1>5 DEF Match!EnrichFetched, Match!history
  <2>2. /\ b \in Artists /\ phase' = phase /\ artist[b] \in ArtistRow /\ held \in Hold
    BY <2>1, <1>3
  <2>3. FilesStay /\ (~held.hadArt /\ image => c \in DOMAIN files')
    BY <2>1, MatchFilesSame, MatchFilesWritten DEF MatchInv
  <2>4. held.rg \in Rg /\ c \in Covers
    BY <2>2 DEF Hold, Covers
  <2>. HIDE DEF b, c
  <2>5. r \in ArtistRow /\ (r.art = artist[b].art \/ (~held.hadArt /\ image /\ r.art = c))
    BY <2>2, <2>4 DEF ArtistRow
  <2>6. artist' = [artist EXCEPT ![b] = r]
    BY <1>5 DEF Match!EnrichFetched, b, c
  <2>. HIDE DEF r
  <2>. QED
    BY <2>1, <2>2, <2>3, <2>5, <2>6, <1>1, MatchNoHold
<1>. QED
  BY <1>2, <1>4, <1>5

LEMMA MatchSearch ==
  ASSUME MatchInv, Match!None \notin Albums \cup Artists
  PROVE  /\ \A a \in Albums : Match!MatchBegin(a) => MatchInv'
         /\ \A a \in Albums : Match!RefetchBegin(a) => MatchInv'
         /\ \A g \in Groups \cup {Match!None} : Match!MatchFound(g) => MatchInv'
         /\ \A g \in Groups : Match!CoverWritten(g) => MatchInv'
         /\ \A found \in BOOLEAN : Match!CoverDone(found) => MatchInv'
<1>1. ASSUME NEW a \in Albums, NEW r \in AlbumRow, album' = [album EXCEPT ![a] = r],
             phase \in {"match", "refetch"}, phase' = phase, todo' \subseteq todo,
             UNCHANGED <<artist, files, chosen, rejected, bare>>,
             held' \in Hold, held' # Match!NoHold => held'.of = a,
             phase = "match" /\ held' # Match!NoHold => a \notin rejected,
             held'.cover # Match!NoCover => held'.cover \in DOMAIN files,
             r.art = album[a].art \/ (album[a].art = Match!NoCover /\ r.art \in DOMAIN files),
             r.status = album[a].status \/ a \notin rejected
      PROVE  MatchInv'
  <2>1. /\ album' \in [Albums -> AlbumRow] /\ artist' \in [Artists -> ArtistRow]
        /\ album'[a] = r /\ \A x \in Albums \ {a} : album'[x] = album[x]
        /\ \A c \in Match!Named' : c \in Match!Named \/ c = r.art
    BY <1>1, MatchAlbum DEF MatchInv
  <2>2. album[a].art \in Match!Named
    BY DEF Match!Named
  <2>3. JobHolds'
    BY <1>1 DEF JobHolds, MatchInv
  <2>4. FilesStay
    BY <1>1, MatchFilesSame DEF MatchInv
  <2>5. /\ \A x \in chosen' : x \in Albums /\ album'[x].art = Match!Manual(x)
        /\ \A x \in rejected' : x \in Albums /\ album'[x].status = "skipped"
    BY <1>1, <2>1, MatchCovers DEF MatchInv, MatchTypes, Match!ChoicesStand
  <2>. QED
    BY <1>1, <2>1, <2>2, <2>3, <2>4, <2>5, MatchStep
<1>2. ASSUME NEW a \in Albums, Match!MatchBegin(a) PROVE MatchInv'
  <2>. DEFINE h == [Match!NoHold EXCEPT !.of = a]
              r == [album[a] EXCEPT !.tried = "recent"]
  <2>1. /\ phase = "match" /\ a \in todo /\ phase' = phase /\ todo' \subseteq todo /\ held' = h
        /\ UNCHANGED <<artist, files, chosen, rejected, bare>> /\ album' = [album EXCEPT ![a] = r]
    BY <1>2 DEF Match!MatchBegin, Match!Take, Match!history
  <2>2. h \in Hold /\ h.of = a /\ h.cover = Match!NoCover
    BY DEF Match!NoHold, Hold, Rg, Covers
  <2>3. r \in AlbumRow /\ r.art = album[a].art /\ r.status = album[a].status
    BY DEF MatchInv, MatchTypes, AlbumRow, Match!Tries
  <2>4. a \notin rejected
    BY <2>1 DEF MatchInv, JobHolds
  <2>. HIDE DEF h, r
  <2>. QED
    BY <2>1, <2>2, <2>3, <2>4, <1>1
<1>3. ASSUME NEW a \in Albums, Match!RefetchBegin(a) PROVE MatchInv'
  <2>. DEFINE h == [Match!NoHold EXCEPT !.of = a, !.rg = album[a].rg]
  <2>1. /\ phase = "refetch" /\ phase' = phase /\ todo' \subseteq todo /\ held' = h
        /\ UNCHANGED <<album, artist, files, chosen, rejected, bare>>
    BY <1>3 DEF Match!RefetchBegin, Match!Take, Match!history
  <2>2. album[a] \in AlbumRow /\ album = [album EXCEPT ![a] = album[a]]
    BY DEF MatchInv, MatchTypes
  <2>3. h \in Hold /\ h.of = a /\ h.cover = Match!NoCover
    BY <2>2 DEF Match!NoHold, Hold, Rg, Covers, AlbumRow
  <2>. HIDE DEF h
  <2>. QED
    BY <2>1, <2>2, <2>3, <1>1
<1>4. ASSUME phase \in {"match", "refetch"}, Match!Continue
      PROVE  /\ held.of \in Albums /\ phase' = phase /\ todo' \subseteq todo
             /\ phase = "match" => held.of \notin rejected
             /\ album[held.of] \in AlbumRow /\ held \in Hold
             /\ album = [album EXCEPT ![held.of] = album[held.of]]
             /\ held.cover # Match!NoCover => held.cover \in DOMAIN files
  BY <1>4 DEF MatchInv, MatchTypes, JobHolds, Match!Continue, Match!Resting
<1>5. ASSUME NEW g \in Groups \cup {Match!None}, Match!MatchFound(g) PROVE MatchInv'
  <2>. DEFINE a == held.of
              h == [held EXCEPT !.rg = g]
              r == IF g = Match!None THEN [album[a] EXCEPT !.status = "unmatched"]
                   ELSE [album[a] EXCEPT !.status = "matched", !.rg = g]
  <2>1. /\ phase = "match" /\ Match!Continue /\ held' \in {Match!NoHold, h}
        /\ UNCHANGED <<artist, files, chosen, rejected, bare>>
    BY <1>5 DEF Match!MatchFound, Match!history
  <2>2. /\ a \in Albums /\ phase' = phase /\ todo' \subseteq todo /\ a \notin rejected
        /\ album[a] \in AlbumRow /\ held \in Hold
        /\ held.cover # Match!NoCover => held.cover \in DOMAIN files
    BY <2>1, <1>4
  <2>3. h \in Hold /\ h.of = a /\ h.cover = held.cover
    BY <2>2 DEF Hold, Rg
  <2>4. r \in AlbumRow /\ r.art = album[a].art
    BY <2>2 DEF AlbumRow, Rg
  <2>5. album' = [album EXCEPT ![a] = r]
    BY <1>5 DEF Match!MatchFound
  <2>. HIDE DEF a, h, r
  <2>. QED
    BY <2>1, <2>2, <2>3, <2>4, <2>5, <1>1, MatchNoHold
<1>6. ASSUME NEW g \in Groups, Match!CoverWritten(g) PROVE MatchInv'
  <2>. DEFINE c == Match!Fetched(g)
              h == [held EXCEPT !.cover = c]
  <2>1. /\ phase \in {"match", "refetch"} /\ Match!Continue /\ Match!Written(c) /\ held' = h
        /\ UNCHANGED <<album, artist, chosen, rejected, bare>>
    BY <1>6 DEF Match!CoverWritten, Match!history
  <2>2. /\ held.of \in Albums /\ phase' = phase /\ todo' \subseteq todo /\ held \in Hold
        /\ phase = "match" => held.of \notin rejected
    BY <2>1, <1>4
  <2>3. c \in Covers
    BY DEF Covers, Rg
  <2>. HIDE DEF c
  <2>4. h \in Hold /\ h.of = held.of /\ h.cover = c
    BY <2>2, <2>3 DEF Hold
  <2>. HIDE DEF h
  <2>5. FilesStay /\ c \in DOMAIN files'
    BY <2>1, MatchFilesWritten DEF MatchInv
  <2>6. JobHolds'
    BY <2>1, <2>2, <2>4, <2>5 DEF JobHolds, MatchInv
  <2>7. /\ album' \in [Albums -> AlbumRow] /\ artist' \in [Artists -> ArtistRow]
        /\ Match!Named' = Match!Named
    BY <2>1 DEF MatchInv, MatchTypes, Match!Named
  <2>8. /\ \A x \in chosen' : x \in Albums /\ album'[x].art = Match!Manual(x)
        /\ \A x \in rejected' : x \in Albums /\ album'[x].status = "skipped"
    BY <2>1 DEF MatchInv, MatchTypes, Match!ChoicesStand
  <2>. QED
    BY <2>1, <2>2, <2>4, <2>5, <2>6, <2>7, <2>8, MatchStep
<1>7. ASSUME NEW found \in BOOLEAN, Match!CoverDone(found) PROVE MatchInv'
  <2>. DEFINE a == held.of
              s == [album[a] EXCEPT !.art = held.cover]
              t == [album[a] EXCEPT !.artTried = "recent"]
              u == [s EXCEPT !.artTried = "recent"]
  <2>1. /\ phase \in {"match", "refetch"} /\ Match!Continue /\ held' = Match!NoHold
        /\ UNCHANGED <<artist, files, chosen, rejected, bare>> /\ (found <=> held.cover # Match!NoCover)
    BY <1>7 DEF Match!CoverDone, Match!history
  <2>2. /\ a \in Albums /\ phase' = phase /\ todo' \subseteq todo
        /\ album[a] \in AlbumRow /\ held \in Hold /\ album = [album EXCEPT ![a] = album[a]]
        /\ held.cover # Match!NoCover => held.cover \in DOMAIN files
    BY <2>1, <1>4
  <2>3. /\ s \in AlbumRow /\ s.art = held.cover /\ s.status = album[a].status
        /\ t \in AlbumRow /\ t.art = album[a].art /\ t.status = album[a].status
    BY <2>2 DEF AlbumRow, Hold, Match!Tries
  <2>4. u \in AlbumRow /\ u.art = s.art /\ u.status = s.status
    BY <2>3 DEF AlbumRow, Match!Tries
  <2>5. \/ album' = album \/ album' = [album EXCEPT ![a] = t]
        \/ /\ found /\ album[a].art = Match!NoCover
           /\ album' \in {[album EXCEPT ![a] = s], [album EXCEPT ![a] = u]}
    BY <1>7, <2>2 DEF Match!CoverDone, Match!Covered, MatchInv, MatchTypes
  <2>. HIDE DEF a, s, t, u
  <2>6. ASSUME NEW r \in AlbumRow, r.status = album[a].status, album' = [album EXCEPT ![a] = r],
               r.art = album[a].art \/ (album[a].art = Match!NoCover /\ r.art \in DOMAIN files)
        PROVE  MatchInv'
    BY <2>1, <2>2, <2>6, <1>1, MatchNoHold
  <2>7. CASE album' = album
    BY <2>2, <2>6, <2>7
  <2>8. CASE album' = [album EXCEPT ![a] = t]
    BY <2>3, <2>6, <2>8
  <2>9. CASE /\ found /\ album[a].art = Match!NoCover
             /\ album' \in {[album EXCEPT ![a] = s], [album EXCEPT ![a] = u]}
    BY <2>1, <2>2, <2>3, <2>4, <2>6, <2>9
  <2>. QED
    BY <2>5, <2>7, <2>8, <2>9
<1>. QED
  BY <1>2, <1>3, <1>5, <1>6, <1>7

(* The sweep takes only what nobody named when it read the names, nor has  *)
(* written since.                                                          *)
LEMMA MatchSweep ==
  ASSUME MatchInv
  PROVE  /\ Match!SweepList => MatchInv'
         /\ \A c \in DOMAIN files : Match!SweepFile(c) => MatchInv'
         /\ Match!Age => MatchInv'
<1>1. ASSUME Match!SweepList PROVE MatchInv'
  <2>1. /\ UNCHANGED <<album, artist, files, chosen, rejected, bare>>
        /\ listed' = Match!Named /\ held' = Match!NoHold /\ phase' = "sweep"
    BY <1>1 DEF Match!SweepList, Match!Begin, Match!history
  <2>2. Match!Named' = Match!Named
    BY <2>1 DEF Match!Named
  <2>3. MatchTypes' /\ JobHolds'
    BY <2>1, MatchNoHold DEF MatchInv, MatchTypes, JobHolds
  <2>4. SweepSpares'
    BY <2>1, <2>2 DEF SweepSpares, Kept
  <2>5. Match!ChoicesStand'
    BY <2>1, <2>2 DEF MatchInv, Match!ChoicesStand
  <2>. QED
    BY <2>3, <2>4, <2>5 DEF MatchInv
<1>2. ASSUME NEW c \in DOMAIN files, Match!SweepFile(c) PROVE MatchInv'
  <2>1. /\ UNCHANGED <<album, artist, chosen, rejected, bare, phase, todo, held, listed>>
        /\ files' = [f \in DOMAIN files \ {c} |-> files[f]]
        /\ phase = "sweep" /\ c \notin listed /\ files[c] = "old"
    BY <1>2 DEF Match!SweepFile, Match!Swept, Match!job, Match!history
  <2>2. ~Kept(c) /\ held = Match!NoHold
    BY <2>1 DEF MatchInv, SweepSpares, JobHolds
  <2>3. Match!Named' = Match!Named
    BY <2>1 DEF Match!Named
  <2>4. MatchTypes'
    BY <2>1 DEF MatchInv, MatchTypes
  <2>5. JobHolds'
    BY <2>1, <2>2, MatchNoHold DEF MatchInv, JobHolds
  <2>6. SweepSpares'
    BY <2>1, <2>3 DEF MatchInv, SweepSpares, Kept
  <2>7. Match!ChoicesStand'
    BY <2>1, <2>2, <2>3 DEF MatchInv, Match!ChoicesStand, Kept
  <2>. QED
    BY <2>4, <2>5, <2>6, <2>7 DEF MatchInv
<1>3. ASSUME Match!Age PROVE MatchInv'
  <2>1. /\ phase = "idle" /\ UNCHANGED <<chosen, rejected, bare, phase, todo, held, listed>>
        /\ files' = [c \in DOMAIN files |-> "old"]
    BY <1>3 DEF Match!Age, Match!job, Match!history
  <2>2. /\ album' \in [Albums -> AlbumRow]
        /\ \A a \in Albums : album'[a].art = album[a].art /\ album'[a].status = album[a].status
    <3>. DEFINE r(a) == [album[a] EXCEPT !.tried = IF @ = "never" THEN @ ELSE "stale",
                                         !.artTried = IF @ = "never" THEN @ ELSE "stale"]
    <3>1. \A a \in Albums : album[a] \in AlbumRow
      BY DEF MatchInv, MatchTypes
    <3>2. \A a \in Albums : r(a) \in AlbumRow /\ r(a).art = album[a].art /\ r(a).status = album[a].status
      BY <3>1 DEF AlbumRow, Match!Tries
    <3>3. album' = [a \in Albums |-> r(a)]
      BY <1>3 DEF Match!Age
    <3>. HIDE DEF r
    <3>. QED
      BY <3>2, <3>3
  <2>3. /\ artist' \in [Artists -> ArtistRow]
        /\ \A b \in Artists : artist'[b].art = artist[b].art
    <3>. DEFINE r(b) == [artist[b] EXCEPT !.tried = IF @ = "never" THEN @ ELSE "stale"]
    <3>1. \A b \in Artists : artist[b] \in ArtistRow
      BY DEF MatchInv, MatchTypes
    <3>2. \A b \in Artists : r(b) \in ArtistRow /\ r(b).art = artist[b].art
      BY <3>1 DEF ArtistRow, Match!Tries
    <3>3. artist' = [b \in Artists |-> r(b)]
      BY <1>3 DEF Match!Age
    <3>. HIDE DEF r
    <3>. QED
      BY <3>2, <3>3
  <2>4. Match!Named' = Match!Named
    BY <2>2, <2>3 DEF Match!Named
  <2>5. MatchTypes'
    BY <2>1, <2>2, <2>3 DEF MatchInv, MatchTypes
  <2>6. JobHolds' /\ SweepSpares'
    BY <2>1 DEF MatchInv, JobHolds, SweepSpares
  <2>7. chosen \subseteq Albums /\ rejected \subseteq Albums
    BY DEF MatchInv, MatchTypes
  <2>8. Match!ChoicesStand'
    BY <2>1, <2>2, <2>4, <2>7 DEF MatchInv, Match!ChoicesStand
  <2>. QED
    BY <2>5, <2>6, <2>8 DEF MatchInv
<1>. QED
  BY <1>1, <1>2, <1>3

(* What a person does to one album: the cover it gets is a new file, or    *)
(* one that is named as it is.                                             *)
LEMMA MatchPerson ==
  ASSUME MatchInv, Match!Act, FilesStay, bare \subseteq bare', NEW a \in Albums, NEW r \in AlbumRow,
         album' = [album EXCEPT ![a] = r], artist' = artist,
         chosen' \subseteq chosen \cup {a}, a \in chosen' => r.art = Match!Manual(a),
         rejected' \subseteq rejected \cup {a}, a \in rejected' => r.status = "skipped",
         a \in rejected' => a \in rejected \/ ~Match!Exposed(a),
         \/ r.art \in {album[a].art, Match!NoCover} \cup bare'
         \/ r.art \in DOMAIN files' /\ files'[r.art] = "new"
  PROVE  MatchInv'
<1>1. /\ JobHolds' /\ held' \in Hold /\ phase' = phase /\ listed' = listed
      /\ phase' \in {"idle", "enrich", "match", "refetch", "sweep"}
  <2>1. \A x \in rejected' : x \in rejected \/ ~Match!Exposed(x)
    OBVIOUS
  <2>2. DOMAIN files \subseteq DOMAIN files'
    BY DEF FilesStay
  <2>. QED
    BY <2>1, <2>2, MatchAct
<1>2. /\ album' \in [Albums -> AlbumRow] /\ artist' \in [Artists -> ArtistRow]
      /\ album'[a] = r /\ \A x \in Albums \ {a} : album'[x] = album[x]
      /\ \A c \in Match!Named' : c \in Match!Named \/ c = r.art
  BY MatchAlbum DEF MatchInv
<1>3. album[a].art \in Match!Named
  BY DEF Match!Named
<1>4. /\ \A x \in chosen' : x \in Albums /\ album'[x].art = Match!Manual(x)
      /\ \A x \in rejected' : x \in Albums /\ album'[x].status = "skipped"
  BY <1>2 DEF MatchInv, MatchTypes, Match!ChoicesStand
<1>. QED
  BY <1>1, <1>2, <1>3, <1>4, MatchStep

LEMMA MatchPeople ==
  ASSUME MatchInv
  PROVE  /\ \A a \in Albums :
               /\ Match!UploadFile(a) => MatchInv'
               /\ Match!UploadRow(a) => MatchInv'
               /\ Match!ClearArt(a) => MatchInv'
               /\ Match!Unmatch(a) => MatchInv'
               /\ Match!ReadTags(a) => MatchInv'
               /\ Match!Reject(a) => MatchInv'
               /\ Match!Rematch(a) => MatchInv'
         /\ \A a \in Albums, g \in Groups, cover \in BOOLEAN : Match!Reassign(a, g, cover) => MatchInv'
<1>1. \A a \in Albums : album[a] \in AlbumRow /\ album = [album EXCEPT ![a] = album[a]]
  BY DEF MatchInv, MatchTypes
<1>2. \A a \in Albums : a \in chosen => album[a].art = Match!Manual(a)
  BY DEF MatchInv, Match!ChoicesStand
<1>3. \A a \in Albums : a \in rejected => album[a].status = "skipped"
  BY DEF MatchInv, Match!ChoicesStand
<1>4. ASSUME NEW a \in Albums, Match!UploadFile(a) PROVE MatchInv'
  <2>1. Match!Act /\ FilesStay /\ UNCHANGED <<album, artist, chosen, rejected, bare>>
    BY <1>4, MatchFilesWritten DEF MatchInv, Match!UploadFile, Match!history
  <2>. QED
    BY <1>1, <1>2, <1>3, <2>1, MatchPerson
<1>5. ASSUME NEW a \in Albums, Match!UploadRow(a) PROVE MatchInv'
  <2>. DEFINE r == [album[a] EXCEPT !.art = Match!Manual(a)]
  <2>1. /\ Match!Act /\ FilesStay /\ album' = [album EXCEPT ![a] = r] /\ chosen' = chosen \cup {a}
        /\ Match!Manual(a) \in DOMAIN files' /\ files'[Match!Manual(a)] = "new"
        /\ UNCHANGED <<artist, rejected, bare>>
    BY <1>5, MatchFilesSame DEF MatchInv, Match!UploadRow
  <2>2. r \in AlbumRow /\ r.art = Match!Manual(a) /\ r.status = album[a].status
    BY <1>1, MatchCovers DEF AlbumRow
  <2>. HIDE DEF r
  <2>. QED
    BY <1>3, <2>1, <2>2, MatchPerson
<1>6. ASSUME NEW a \in Albums, Match!ClearArt(a) PROVE MatchInv'
  <2>. DEFINE r == [album[a] EXCEPT !.art = Match!NoCover, !.artTried = "never"]
  <2>1. /\ Match!Act /\ FilesStay /\ album' = [album EXCEPT ![a] = r] /\ chosen' = chosen \ {a}
        /\ UNCHANGED <<artist, rejected, bare>>
    BY <1>6, MatchFilesSame DEF MatchInv, Match!ClearArt
  <2>2. r \in AlbumRow /\ r.art = Match!NoCover /\ r.status = album[a].status
    BY <1>1, MatchCovers DEF AlbumRow, Match!Tries
  <2>. HIDE DEF r
  <2>. QED
    BY <1>3, <2>1, <2>2, MatchPerson
<1>7. ASSUME NEW a \in Albums, Match!Unmatch(a) PROVE MatchInv'
  <2>. DEFINE r == [status |-> "", rg |-> Match!None, art |-> Match!NoCover,
                    tried |-> "never", artTried |-> "never"]
  <2>1. /\ Match!Act /\ FilesStay /\ album' = [album EXCEPT ![a] = r] /\ chosen' = chosen \ {a}
        /\ rejected' = rejected \ {a} /\ UNCHANGED <<artist, bare>>
    BY <1>7, MatchFilesSame DEF MatchInv, Match!Unmatch
  <2>2. r \in AlbumRow /\ r.art = Match!NoCover
    BY DEF AlbumRow, Rg, Covers, Match!Tries
  <2>. HIDE DEF r
  <2>. QED
    BY <2>1, <2>2, MatchPerson
<1>8. ASSUME NEW a \in Albums, Match!ReadTags(a) PROVE MatchInv'
  <2>. DEFINE e == Match!Embedded(a)
              r == [album[a] EXCEPT !.art = e]
  <2>1. /\ Match!Act /\ album[a].art = Match!NoCover /\ album' = [album EXCEPT ![a] = r]
        /\ UNCHANGED <<artist, chosen, rejected>>
        /\ \/ bare' = bare \cup {e} /\ UNCHANGED files
           \/ Match!Written(e) /\ UNCHANGED bare
    BY <1>8 DEF Match!ReadTags, Match!Covered
  <2>2. r \in AlbumRow /\ r.art = e /\ r.status = album[a].status
    BY <1>1, MatchCovers DEF AlbumRow
  <2>3. a \notin chosen
    BY <1>2, <2>1, MatchCovers
  <2>. HIDE DEF e, r
  <2>4. CASE bare' = bare \cup {e} /\ UNCHANGED files
    <3>1. FilesStay
      BY <2>4, MatchFilesSame DEF MatchInv
    <3>. QED
      BY <1>3, <2>1, <2>2, <2>3, <2>4, <3>1, MatchPerson
  <2>5. CASE Match!Written(e) /\ UNCHANGED bare
    <3>1. FilesStay /\ e \in DOMAIN files' /\ files'[e] = "new"
      BY <2>5, MatchFilesWritten DEF MatchInv
    <3>. QED
      BY <1>3, <2>1, <2>2, <2>3, <2>5, <3>1, MatchPerson
  <2>. QED
    BY <2>1, <2>4, <2>5
<1>9. ASSUME NEW a \in Albums, Match!Reject(a) PROVE MatchInv'
  <2>. DEFINE r == [album[a] EXCEPT !.status = "skipped", !.rg = Match!None]
  <2>1. /\ Match!Act /\ FilesStay /\ album' = [album EXCEPT ![a] = r]
        /\ rejected' = IF Match!Exposed(a) THEN rejected \ {a} ELSE rejected \cup {a}
        /\ UNCHANGED <<artist, chosen, bare>>
    BY <1>9, MatchFilesSame DEF MatchInv, Match!Reject
  <2>2. r \in AlbumRow /\ r.art = album[a].art /\ r.status = "skipped"
    BY <1>1 DEF AlbumRow, Rg
  <2>. HIDE DEF r
  <2>3. /\ rejected' \subseteq rejected \cup {a}
        /\ a \in rejected' => ~Match!Exposed(a)
    BY <2>1
  <2>. QED
    BY <1>2, <2>1, <2>2, <2>3, MatchPerson
<1>10. ASSUME NEW a \in Albums, Match!Rematch(a) PROVE MatchInv'
  <2>. DEFINE r == [album[a] EXCEPT !.status = "", !.rg = Match!None]
  <2>1. /\ Match!Act /\ FilesStay /\ album' = [album EXCEPT ![a] = r]
        /\ rejected' = rejected \ {a} /\ UNCHANGED <<artist, chosen, bare>>
    BY <1>10, MatchFilesSame DEF MatchInv, Match!Rematch
  <2>2. r \in AlbumRow /\ r.art = album[a].art
    BY <1>1 DEF AlbumRow, Rg
  <2>. HIDE DEF r
  <2>. QED
    BY <1>2, <2>1, <2>2, MatchPerson
<1>11. ASSUME NEW a \in Albums, NEW g \in Groups, NEW cover \in BOOLEAN, Match!Reassign(a, g, cover)
       PROVE  MatchInv'
  <2>. DEFINE f == Match!Fetched(g)
              r == [album[a] EXCEPT !.status = "matched", !.rg = g,
                                    !.art = IF cover THEN f ELSE Match!NoCover, !.artTried = "recent"]
  <2>1. /\ Match!Act /\ album' = [album EXCEPT ![a] = r]
        /\ IF cover THEN Match!Written(f) ELSE UNCHANGED files
        /\ chosen' = chosen \ {a} /\ rejected' = rejected \ {a} /\ UNCHANGED <<artist, bare>>
    BY <1>11 DEF Match!Reassign
  <2>2. f \in Covers
    BY DEF Covers, Rg
  <2>3. r \in AlbumRow /\ r.art = IF cover THEN f ELSE Match!NoCover
    BY <1>1, <2>2, MatchCovers DEF AlbumRow, Rg, Match!Tries
  <2>. HIDE DEF f, r
  <2>4. FilesStay /\ (cover => f \in DOMAIN files' /\ files'[f] = "new")
    BY <2>1, MatchFilesSame, MatchFilesWritten DEF MatchInv
  <2>. QED
    BY <2>1, <2>3, <2>4, MatchPerson
<1>. QED
  BY <1>4, <1>5, <1>6, <1>7, <1>8, <1>9, <1>10, <1>11

LEMMA MatchOthers ==
  ASSUME MatchInv
  PROVE  /\ \A S \in SUBSET Albums : Match!Approve(S) => MatchInv'
         /\ \A b \in Artists, g \in Groups, bio, image \in BOOLEAN :
               Match!Disambiguate(b, g, bio, image) => MatchInv'
<1>1. ASSUME NEW S \in SUBSET Albums, Match!Approve(S) PROVE MatchInv'
  <2>1. Match!Act /\ FilesStay /\ UNCHANGED <<artist, files, chosen, rejected, bare>>
    BY <1>1, MatchFilesSame DEF MatchInv, Match!Approve, Match!history
  <2>2. /\ album' \in [Albums -> AlbumRow] /\ artist' \in [Artists -> ArtistRow]
        /\ \A a \in Albums : /\ album'[a].art = album[a].art
                             /\ album[a].status = "skipped" => album'[a].status = "skipped"
    <3>. DEFINE q(a) == [album[a] EXCEPT !.status = "matched"]
                r(a) == IF a \in S /\ album[a].status = "unmatched" THEN q(a) ELSE album[a]
    <3>1. \A a \in Albums : album[a] \in AlbumRow
      BY DEF MatchInv, MatchTypes
    <3>2. \A a \in Albums : q(a) \in AlbumRow /\ q(a).art = album[a].art
      BY <3>1 DEF AlbumRow
    <3>3. album' = [a \in Albums |-> r(a)]
      BY <1>1 DEF Match!Approve
    <3>. HIDE DEF q
    <3>4. \A a \in Albums : /\ r(a) \in AlbumRow /\ r(a).art = album[a].art
                            /\ album[a].status = "skipped" => r(a).status = "skipped"
      BY <3>1, <3>2
    <3>. HIDE DEF r
    <3>. QED
      BY <2>1, <3>3, <3>4 DEF MatchInv, MatchTypes
  <2>3. Match!Named' = Match!Named
    BY <2>1, <2>2 DEF Match!Named
  <2>4. /\ JobHolds' /\ held' \in Hold /\ phase' = phase /\ listed' = listed
        /\ phase' \in {"idle", "enrich", "match", "refetch", "sweep"}
    BY <2>1, MatchAct DEF FilesStay
  <2>5. /\ \A x \in chosen' : x \in Albums /\ album'[x].art = Match!Manual(x)
        /\ \A x \in rejected' : x \in Albums /\ album'[x].status = "skipped"
    BY <2>1, <2>2 DEF MatchInv, MatchTypes, Match!ChoicesStand
  <2>. QED
    BY <2>1, <2>2, <2>3, <2>4, <2>5, MatchStep
<1>2. ASSUME NEW b \in Artists, NEW g \in Groups, NEW bio \in BOOLEAN, NEW image \in BOOLEAN,
             Match!Disambiguate(b, g, bio, image)
      PROVE  MatchInv'
  <2>. DEFINE f == Match!Fetched(g)
              r == [mbid |-> g, bio |-> IF bio THEN g ELSE Match!None,
                    art |-> IF image THEN f ELSE Match!NoCover, tried |-> "never"]
  <2>1. /\ Match!Act /\ artist' = [artist EXCEPT ![b] = r]
        /\ IF image THEN Match!Written(f) ELSE UNCHANGED files
        /\ UNCHANGED <<album, chosen, rejected, bare>>
    BY <1>2 DEF Match!Disambiguate
  <2>2. r \in ArtistRow /\ r.art = IF image THEN f ELSE Match!NoCover
    BY DEF ArtistRow, Covers, Rg, Match!Tries
  <2>. HIDE DEF f, r
  <2>3. FilesStay /\ (image => f \in DOMAIN files' /\ files'[f] = "new")
    BY <2>1, MatchFilesSame, MatchFilesWritten DEF MatchInv
  <2>4. /\ album' \in [Albums -> AlbumRow] /\ artist' \in [Artists -> ArtistRow]
        /\ \A c \in Match!Named' : c \in Match!Named \/ c = r.art
    BY <2>1, <2>2, MatchArtist DEF MatchInv
  <2>5. /\ JobHolds' /\ held' \in Hold /\ phase' = phase /\ listed' = listed
        /\ phase' \in {"idle", "enrich", "match", "refetch", "sweep"}
    BY <2>1, <2>3, MatchAct DEF FilesStay
  <2>6. /\ \A x \in chosen' : x \in Albums /\ album'[x].art = Match!Manual(x)
        /\ \A x \in rejected' : x \in Albums /\ album'[x].status = "skipped"
    BY <2>1 DEF MatchInv, MatchTypes, Match!ChoicesStand
  <2>. QED
    BY <2>1, <2>2, <2>3, <2>4, <2>5, <2>6, MatchStep
<1>. QED
  BY <1>1, <1>2

LEMMA MatchNext ==
  ASSUME Match!None \notin Albums \cup Artists, MatchInv, [Match!Next]_(Match!vars)
  PROVE  MatchInv'
<1>1. CASE UNCHANGED Match!vars
  BY <1>1 DEF MatchInv, MatchTypes, JobHolds, SweepSpares, Kept, Match!ChoicesStand, Match!Named,
              Match!vars, Match!job, Match!history
<1>2. CASE Match!Next
  <2>1. CASE \/ \E f \in BOOLEAN : Match!BeginJob(f)
             \/ Match!BeginMatch \/ Match!BeginRefetch \/ Match!EndJob \/ Match!CancelJob
    <3>1. ASSUME NEW f \in BOOLEAN, Match!BeginJob(f) PROVE MatchInv'
      BY <3>1, MatchJobQuiet
    <3>2. /\ Match!BeginMatch => MatchInv'
          /\ Match!BeginRefetch => MatchInv'
          /\ Match!EndJob => MatchInv'
          /\ Match!CancelJob => MatchInv'
      BY MatchJobQuiet
    <3>. QED
      BY <2>1, <3>1, <3>2
  <2>2. CASE \/ \E b \in Artists : Match!EnrichBegin(b)
             \/ \E g \in Groups \cup {Match!None} : Match!EnrichSearched(g)
             \/ \E bio, image \in BOOLEAN : Match!EnrichFetched(bio, image)
    BY <2>2, MatchEnrich
  <2>3. CASE \/ \E a \in Albums : Match!MatchBegin(a) \/ Match!RefetchBegin(a)
             \/ \E g \in Groups \cup {Match!None} : Match!MatchFound(g)
             \/ \E g \in Groups : Match!CoverWritten(g)
             \/ \E f \in BOOLEAN : Match!CoverDone(f)
    BY <2>3, MatchSearch
  <2>4. CASE Match!SweepList \/ (\E c \in DOMAIN files : Match!SweepFile(c)) \/ Match!Age
    BY <2>4, MatchSweep
  <2>5. CASE \/ \E a \in Albums : \/ Match!UploadFile(a) \/ Match!UploadRow(a) \/ Match!ClearArt(a)
                                  \/ Match!Unmatch(a) \/ Match!ReadTags(a) \/ Match!Reject(a)
                                  \/ Match!Rematch(a)
             \/ \E a \in Albums, g \in Groups, cover \in BOOLEAN : Match!Reassign(a, g, cover)
    <3>1. ASSUME NEW a \in Albums
          PROVE  /\ Match!UploadFile(a) => MatchInv'
                 /\ Match!UploadRow(a) => MatchInv'
                 /\ Match!ClearArt(a) => MatchInv'
                 /\ Match!Unmatch(a) => MatchInv'
                 /\ Match!ReadTags(a) => MatchInv'
                 /\ Match!Reject(a) => MatchInv'
                 /\ Match!Rematch(a) => MatchInv'
      BY MatchPeople
    <3>2. ASSUME NEW a \in Albums, NEW g \in Groups, NEW cover \in BOOLEAN,
                 Match!Reassign(a, g, cover)
          PROVE  MatchInv'
      BY <3>2, MatchPeople
    <3>. QED
      BY <2>5, <3>1, <3>2
  <2>6. CASE \/ \E S \in {Albums} \cup {{a} : a \in Albums} : Match!Approve(S)
             \/ \E b \in Artists, g \in Groups, bio, image \in BOOLEAN :
                   Match!Disambiguate(b, g, bio, image)
    <3>1. {Albums} \cup {{a} : a \in Albums} \subseteq SUBSET Albums
      OBVIOUS
    <3>. QED
      BY <2>6, <3>1, MatchOthers
  <2>. QED
    BY <1>2, <2>1, <2>2, <2>3, <2>4, <2>5, <2>6 DEF Match!Next
<1>. QED
  BY <1>1, <1>2

(* What a person chose stands, and no cover that is needed is swept: the   *)
(* job writes a cover before it names one, matches only what it found      *)
(* unrejected, and its sweep reads the names before it looks at the files. *)
(* The hypothesis: the mark for no album is not the id of one.             *)
THEOREM ChoicesAreKept ==
  ASSUME Match!None \notin Albums \cup Artists
  PROVE  Spec => []ChoicesStand
<1>1. Match!Init => MatchInv
  BY MatchInit
<1>2. MatchInv /\ [Match!Next]_(Match!vars) => MatchInv'
  BY MatchNext
<1>3. MatchInv => Match!ChoicesStand
  BY DEF MatchInv
<1>. DEFINE Inv == part = "match" => MatchInv
<1>4. Init => Inv
  BY <1>1 DEF Init, Begun
<1>5. Inv /\ [Next]_vars => Inv'
  <2>1. ASSUME [Next]_vars, part' = "match" PROVE part = "match" /\ [Match!Next]_(Match!vars)
    BY <2>1, MatchTurn
  <2>. QED
    BY <2>1, <1>2
<1>6. Inv => ChoicesStand
  BY <1>3 DEF ChoicesStand
<1>. QED
  BY <1>4, <1>5, <1>6, PTL DEF Spec

-----------------------------------------------------------------------------
(* Episodes and films.  What a match job still holds nobody has decided;   *)
(* a picture on its way is for a title that has no picture of a person's,  *)
(* unless the person put it there meanwhile; and what a row names when the *)
(* sweep has read the rows was read or is new.  An upload nobody disturbs  *)
(* has its file, and the row once it is written; what a clear removes is   *)
(* not what the row names, unless the two overlap.                         *)
Titles == Ids \cup {Star}
Pictures(i) == {Video!NoPicture, Video!Tmdb(i)} \cup {Video!Manual(j) : j \in Ids \cap {i}}
Placing == {"gate", "download", "record"}
Stages == {"idle", "match", "cast", "store", "sweep"} \cup Placing
VideoHold == [files : SUBSET Files, id : Titles \cup {Video!None},
              what : {"all", "backdrop", "cast"}, keyed : BOOLEAN]
ArtOf(i) == [path : Pictures(i), manual : BOOLEAN]
Artwork == [Titles -> UNION {ArtOf(i) : i \in Titles}]
JobTypes == pc \in Stages /\ held \in VideoHold /\ todo \subseteq (SUBSET Files) \ {{}}
VideoTypes ==
    /\ kind \in {"tv", "movie"} /\ JobTypes
    /\ row = [f \in Files |-> row[f]] /\ word = [f \in Files |-> word[f]]
    /\ art \in Artwork /\ \A i \in Titles : art[i] \in ArtOf(i)
    /\ files \in [DOMAIN files -> {"new", "old"}]
OneJob ==
    /\ pc \in {"idle", "match", "sweep"} => held = Video!Free
    /\ pc # "match" /\ held.files = {} => todo = {}
    /\ pc \in Placing => held.id \in Ids
FilmsOnly == \A i \in Titles : art[i].manual => kind = "movie" /\ i \in Ids
Undecided == \A f \in held.files \cup UNION todo : word[f] = Video!None
OnItsWay ==
    held.id \notin crossed =>
        /\ pc \in {"download", "record"} => ~art[held.id].manual
        /\ pc = "record" => Video!Tmdb(held.id) \in DOMAIN files
Heeded(i) ==
    \/ art[i].path \in listed \cup {Video!NoPicture}
    \/ kind = "movie" /\ i = Star
    \/ files[art[i].path] = "new"
SweepHeeds == pc = "sweep" => \A i \in Titles \ crossed : Heeded(i)
HandsTyped ==
    /\ upload = [at |-> upload.at, id |-> upload.id, old |-> upload.old, alone |-> upload.alone]
    /\ upload.alone \in BOOLEAN
    /\ upload.at \in {Video!None, "asked", "named", "read", "stored"}
    /\ upload.at # Video!None => kind = "movie" /\ upload.id \in Ids /\ upload.old \in Pictures(upload.id)
    /\ taking = [at |-> taking.at, id |-> taking.id, old |-> taking.old]
    /\ taking.at \in {Video!None, "read", "deleted", "unmatched"}
    /\ taking.at # Video!None => kind = "movie" /\ taking.id \in Ids /\ taking.old \in Pictures(taking.id)
HandsApart ==
    upload.at # Video!None /\ taking.at # Video!None /\ upload.id = taking.id =>
        ~upload.alone /\ (upload.at = "stored" => upload.id \in crossed)
ManualMarked == \A i \in Ids : art[i].path = Video!Manual(i) => art[i].manual
Fresh(p) == p \in DOMAIN files /\ files[p] = "new"
UploadStands ==
    /\ upload.at \in {"named", "read"} /\ upload.alone => Fresh(Video!Manual(upload.id))
    /\ upload.at = "stored" =>
          /\ upload.old = Video!Tmdb(upload.id)
          /\ upload.id \notin crossed =>
                art[upload.id].manual /\ art[upload.id].path = Video!Manual(upload.id)
TakingStands ==
    taking.at # Video!None /\ taking.id \notin crossed =>
        /\ taking.old \in {Video!NoPicture, Video!Manual(taking.id)}
        /\ taking.at = "deleted" => ~art[taking.id].manual
HandsPart == HandsTyped /\ HandsApart /\ ManualMarked /\ UploadStands /\ TakingStands
VideoInv ==
    /\ VideoTypes /\ OneJob /\ FilmsOnly /\ Undecided /\ OnItsWay /\ SweepHeeds /\ HandsPart
    /\ Video!DecisionsStand

LEMMA VideoFree ==
  /\ Video!Free \in VideoHold /\ Video!Free.files = {} /\ Video!Free.id = Video!None
BY DEF Video!Free, VideoHold

LEMMA NoHands ==
  ASSUME upload = Video!NoUpload, taking = Video!NoTaking, ManualMarked PROVE HandsPart
<1>1. upload.at = Video!None /\ taking.at = Video!None /\ upload.alone = TRUE /\ HandsTyped
  BY DEF Video!NoUpload, Video!NoTaking, HandsTyped
<1>2. Video!None \notin {"named", "read", "stored", "deleted"}
  BY DEF Video!None
<1>. QED
  BY <1>1, <1>2 DEF HandsPart, HandsApart, UploadStands, TakingStands
LEMMA NoHandsNext ==
  ASSUME upload' = Video!NoUpload, taking' = Video!NoTaking, ManualMarked' PROVE HandsPart'
<1>1. upload'.at = Video!None /\ taking'.at = Video!None /\ upload'.alone = TRUE /\ HandsTyped'
  BY DEF Video!NoUpload, Video!NoTaking, HandsTyped
<1>2. Video!None \notin {"named", "read", "stored", "deleted"}
  BY DEF Video!None
<1>. QED
  BY <1>1, <1>2 DEF HandsPart, HandsApart, UploadStands, TakingStands
LEMMA HandsRest ==
  ASSUME HandsPart, UNCHANGED <<kind, upload, taking>>, crossed \subseteq crossed',
         \A i \in Ids :
            \/ art'[i] = art[i]
            \/ /\ art'[i].manual = art[i].manual /\ art'[i].path # Video!Manual(i)
               /\ i \notin crossed => ~art[i].manual,
         upload.at \in {"named", "read"} /\ upload.alone =>
            (Fresh(Video!Manual(upload.id)) => Fresh(Video!Manual(upload.id))')
  PROVE  HandsPart'
<1>1. HandsTyped' /\ HandsApart'
  BY DEF HandsPart, HandsTyped, HandsApart
<1>2. ManualMarked'
  BY DEF HandsPart, ManualMarked
<1>3. UploadStands'
  <2>1. upload.at \in {"named", "read"} /\ upload.alone => Fresh(Video!Manual(upload.id))'
    BY DEF HandsPart, UploadStands
  <2>2. ASSUME upload.at = "stored"
        PROVE  /\ upload.old = Video!Tmdb(upload.id)
               /\ upload.id \notin crossed' =>
                     art'[upload.id].manual /\ art'[upload.id].path = Video!Manual(upload.id)
    <3>1. upload.id \in Ids
      BY <2>2 DEF HandsPart, HandsTyped, Video!None
    <3>. QED
      BY <2>2, <3>1 DEF HandsPart, UploadStands
  <2>. QED
    BY <2>1, <2>2 DEF UploadStands
<1>4. TakingStands'
  <2>. SUFFICES ASSUME taking.at # Video!None, taking.id \notin crossed'
                PROVE  /\ taking.old \in {Video!NoPicture, Video!Manual(taking.id)}
                       /\ taking.at = "deleted" => ~art'[taking.id].manual
    BY DEF TakingStands
  <2>1. taking.id \in Ids
    BY DEF HandsPart, HandsTyped
  <2>. QED
    BY <2>1 DEF HandsPart, TakingStands
<1>. QED
  BY <1>1, <1>2, <1>3, <1>4 DEF HandsPart

LEMMA VideoInit == Video!Init => VideoInv
<1>. SUFFICES ASSUME Video!Init PROVE VideoInv
  OBVIOUS
<1>1. /\ kind \in {"tv", "movie"} /\ row = [f \in Files |-> Video!Open] /\ word = [f \in Files |-> Video!None]
      /\ art = [i \in Titles |-> Video!NoArt] /\ files = [p \in {} |-> "old"]
      /\ pc = "idle" /\ todo = {} /\ held = Video!Free
      /\ upload = Video!NoUpload /\ taking = Video!NoTaking
  BY DEF Video!Init, Titles
<1>2. \A i \in Titles : Video!NoArt \in ArtOf(i)
  BY DEF Video!NoArt, ArtOf, Pictures
<1>3. VideoTypes
  <2>1. art \in Artwork /\ \A i \in Titles : art[i] \in ArtOf(i)
    BY <1>1, <1>2 DEF Artwork
  <2>2. JobTypes
    BY <1>1, VideoFree DEF JobTypes, Stages
  <2>3. files \in [DOMAIN files -> {"new", "old"}]
    BY <1>1
  <2>. QED
    BY <1>1, <2>1, <2>2, <2>3 DEF VideoTypes
<1>4. \A i \in Titles : art[i].path = Video!NoPicture /\ ~art[i].manual
  BY <1>1 DEF Video!NoArt
<1>5. FilmsOnly /\ OneJob /\ Undecided /\ OnItsWay /\ SweepHeeds
  BY <1>1, <1>4, VideoFree DEF FilmsOnly, OneJob, Undecided, OnItsWay, SweepHeeds, Placing
<1>6. Video!DecisionsStand
  BY <1>1, <1>4 DEF Video!DecisionsStand, Titles
<1>7. HandsPart
  <2>1. ManualMarked
    BY <1>4 DEF ManualMarked, Titles, Video!NoPicture, Video!Manual
  <2>. QED
    BY <1>1, <2>1, NoHands
<1>. QED
  BY <1>3, <1>5, <1>6, <1>7 DEF VideoInv

(* A step of the worker that writes nothing. *)
HandsQuiet == UNCHANGED <<upload, taking>> \/ (upload' = Video!NoUpload /\ taking' = Video!NoTaking)
VideoQuiet == UNCHANGED <<kind, row, art, files, word, crossed>> /\ HandsQuiet
LEMMA VideoQuietStep ==
  ASSUME VideoInv, VideoQuiet, JobTypes', OneJob',
         held'.files \cup UNION todo' \subseteq held.files \cup UNION todo
           \/ \A f \in held'.files \cup UNION todo' : word[f] = Video!None,
         pc' \in {"download", "record"} =>
            /\ held' = held
            /\ pc = "download" \/ (pc = "record" /\ pc' = "record") \/ ~art[held.id].manual
            /\ pc' = "record" => pc = "record",
         pc' = "sweep" => \A i \in Titles \ crossed : Heeded(i)'
  PROVE  VideoInv'
<1>1. VideoTypes'
  BY DEF VideoInv, VideoTypes, VideoQuiet
<1>2. FilmsOnly'
  BY DEF VideoInv, FilmsOnly, VideoQuiet
<1>3. Undecided'
  BY DEF VideoInv, Undecided, VideoQuiet
<1>4. OnItsWay'
  BY DEF VideoInv, OnItsWay, VideoQuiet
<1>5. SweepHeeds'
  BY DEF SweepHeeds, VideoQuiet
<1>6. Video!DecisionsStand'
  BY DEF VideoInv, VideoQuiet, Video!DecisionsStand
<1>7. HandsPart'
  <2>1. HandsPart /\ UNCHANGED <<kind, art, files, crossed>>
    BY DEF VideoInv, VideoQuiet
  <2>2. CASE UNCHANGED <<upload, taking>>
    BY <2>1, <2>2, HandsRest DEF Fresh
  <2>3. CASE upload' = Video!NoUpload /\ taking' = Video!NoTaking
    <3>1. ManualMarked'
      BY <2>1 DEF HandsPart, ManualMarked
    <3>. QED
      BY <2>3, <3>1, NoHandsNext
  <2>. QED
    BY <2>1, <2>2, <2>3 DEF VideoQuiet, HandsQuiet
<1>. QED
  BY <1>1, <1>2, <1>3, <1>4, <1>5, <1>6, <1>7 DEF VideoInv

LEMMA VideoMatching ==
  ASSUME VideoInv, "skipped" \notin Ids
  PROVE  /\ Video!BeginMatch => VideoInv'
         /\ \A g \in todo, found \in Ids \cup {Video!None} : Video!Search(g, found) => VideoInv'
         /\ Video!SweepList => VideoInv'
         /\ Video!EndMatch => VideoInv'
<1>t. JobTypes /\ OneJob /\ Undecided
  BY DEF VideoInv, VideoTypes
<1>1. ASSUME Video!BeginMatch PROVE VideoInv'
  <2>1. /\ pc = "idle" /\ pc' = "match" /\ held' = held /\ VideoQuiet
        /\ todo' = {Video!Twin(f) \cap Video!Candidates : f \in Video!Candidates}
    BY <1>1 DEF Video!BeginMatch, VideoQuiet, HandsQuiet, Video!hands, Video!history
  <2>2. \A f \in Video!Candidates : f \in Video!Twin(f) \cap Video!Candidates
    BY DEF Video!Twin, Video!Candidates
  <2>3. Video!Candidates \subseteq Files
    BY DEF Video!Candidates
  <2>4. todo' \subseteq (SUBSET Files) \ {{}}
    BY <2>1, <2>2, <2>3
  <2>5. \A f \in Video!Candidates : word[f] = Video!None
    <3>. SUFFICES ASSUME NEW f \in Video!Candidates, word[f] # Video!None PROVE FALSE
      OBVIOUS
    <3>1. f \in Files /\ row[f].status = "unmatched"
      BY DEF Video!Candidates
    <3>2. row[f] = IF word[f] = "skipped" THEN [status |-> "skipped", id |-> Video!None]
                   ELSE [status |-> "matched", id |-> word[f]]
      BY <3>1 DEF VideoInv, Video!DecisionsStand
    <3>3. row[f].status \in {"skipped", "matched"}
      BY <3>2
    <3>. QED
      BY <3>1, <3>3
  <2>6. held' = Video!Free
    BY <1>t, <2>1 DEF OneJob
  <2>7. JobTypes' /\ OneJob'
    BY <2>1, <2>4, <2>6, VideoFree DEF JobTypes, OneJob, Stages, Placing
  <2>8. \A f \in held'.files \cup UNION todo' : word[f] = Video!None
    BY <2>1, <2>5, <2>6, VideoFree
  <2>. QED
    BY <2>1, <2>7, <2>8, VideoQuietStep
<1>2. ASSUME NEW g \in todo, NEW found \in Ids \cup {Video!None}, Video!Search(g, found)
      PROVE  VideoInv'
  <2>1. pc = "match" /\ todo' = todo \ {g} /\ VideoQuiet /\ held = Video!Free
    BY <1>2, <1>t DEF Video!Search, VideoQuiet, HandsQuiet, Video!hands, Video!history, OneJob
  <2>2. CASE found = Video!None
    <3>1. pc' = pc /\ held' = held
      BY <1>2, <2>2 DEF Video!Search
    <3>2. JobTypes' /\ OneJob'
      BY <1>t, <2>1, <3>1 DEF JobTypes, OneJob, Placing
    <3>. QED
      BY <2>1, <3>1, <3>2, VideoQuietStep
  <2>3. CASE found # Video!None
    <3>1. pc' = "gate" /\ held' = [Video!Free EXCEPT !.files = g, !.id = found]
      BY <1>2, <2>3 DEF Video!Search
    <3>2. g \in SUBSET Files /\ g # {} /\ found \in Ids
      BY <1>t, <2>3 DEF JobTypes
    <3>3. held' \in VideoHold /\ held'.files = g /\ held'.id = found
      BY <3>1, <3>2, VideoFree DEF VideoHold, Titles
    <3>4. JobTypes' /\ OneJob'
      BY <1>t, <2>1, <3>1, <3>2, <3>3 DEF JobTypes, OneJob, Stages, Placing
    <3>. QED
      BY <2>1, <3>1, <3>3, <3>4, VideoQuietStep
  <2>. QED
    BY <2>2, <2>3
<1>3. ASSUME Video!SweepList PROVE VideoInv'
  <2>1. /\ pc = "match" /\ todo = {} /\ todo' = {} /\ pc' = "sweep" /\ listed' = Video!Named
        /\ held' = held /\ VideoQuiet
    BY <1>3 DEF Video!SweepList, VideoQuiet, HandsQuiet, Video!hands, Video!history
  <2>2. JobTypes' /\ OneJob'
    BY <1>t, <2>1 DEF JobTypes, OneJob, Stages, Placing
  <2>3. ASSUME NEW i \in Titles \ crossed PROVE Heeded(i)'
    <3>1. art'[i] = art[i] /\ kind' = kind /\ kind \in {"tv", "movie"}
      BY <2>1 DEF VideoQuiet, VideoInv, VideoTypes
    <3>2. CASE kind = "tv" \/ i \in Ids
      <4>1. art[i].path \in listed'
        BY <2>1, <3>1, <3>2 DEF Video!Named, Titles
      <4>. QED
        BY <3>1, <4>1 DEF Heeded
    <3>3. CASE kind = "movie" /\ i = Star
      BY <3>1, <3>3 DEF Heeded
    <3>. QED
      BY <3>1, <3>2, <3>3 DEF Titles
  <2>. QED
    BY <2>1, <2>2, <2>3, VideoQuietStep
<1>4. ASSUME Video!EndMatch PROVE VideoInv'
  <2>1. pc = "sweep" /\ pc' = "idle" /\ todo' = todo /\ held' = held /\ VideoQuiet
    BY <1>4 DEF Video!EndMatch, VideoQuiet, HandsQuiet, Video!hands, Video!history
  <2>2. JobTypes' /\ OneJob'
    BY <1>t, <2>1, VideoFree DEF JobTypes, OneJob, Stages, Placing
  <2>. QED
    BY <2>1, <2>2, VideoQuietStep
<1>. QED
  BY <1>1, <1>2, <1>3, <1>4

LEMMA VideoFetches ==
  ASSUME VideoInv
  PROVE  /\ \A i \in Ids : (Video!BeginShow(i) \/ Video!BeginFilm(i) \/ Video!BeginBackdrop(i)
                            \/ Video!BeginCast(i)) => VideoInv'
         /\ Video!BeginPerson => VideoInv'
         /\ Video!GateShow => VideoInv'
         /\ Video!GateFilm => VideoInv'
         /\ Video!EndFetch => VideoInv'
         /\ Video!FetchFails => VideoInv'
         /\ Video!CancelJob => VideoInv'
         /\ Video!Restart => VideoInv'
<1>t. JobTypes /\ OneJob /\ FilmsOnly
  BY DEF VideoInv, VideoTypes
<1>1. ASSUME NEW i \in Titles, NEW what \in {"all", "backdrop", "cast"}, NEW keyed \in BOOLEAN,
             NEW step \in {"gate", "cast"}, Video!Begin(i, what, keyed, step),
             step = "gate" => i \in Ids
      PROVE  VideoInv'
  <2>1. /\ pc = "idle" /\ pc' = step /\ todo' = todo /\ VideoQuiet /\ held = Video!Free
        /\ held' = [Video!Free EXCEPT !.id = i, !.what = what, !.keyed = keyed]
    BY <1>1, <1>t DEF Video!Begin, VideoQuiet, HandsQuiet, Video!hands, Video!history, OneJob
  <2>2. held' \in VideoHold /\ held'.files = {} /\ held'.id = i
    BY <2>1, VideoFree DEF VideoHold, Video!Free
  <2>3. todo = {}
    BY <1>t, <2>1, VideoFree DEF OneJob
  <2>4. JobTypes' /\ OneJob'
    BY <1>1, <2>1, <2>2, <2>3 DEF JobTypes, OneJob, Stages, Placing
  <2>. QED
    BY <2>1, <2>2, <2>3, <2>4, VideoQuietStep
<1>2. ASSUME NEW i \in Ids, \/ Video!BeginShow(i) \/ Video!BeginFilm(i) \/ Video!BeginBackdrop(i)
                            \/ Video!BeginCast(i)
      PROVE  VideoInv'
  BY <1>1, <1>2 DEF Video!BeginShow, Video!BeginFilm, Video!BeginBackdrop, Video!BeginCast, Titles
<1>3. ASSUME Video!BeginPerson PROVE VideoInv'
  BY <1>1, <1>3 DEF Video!BeginPerson, Titles
<1>4. ASSUME pc = "gate", pc' \in {"download", "cast"}, VideoQuiet, held' = held, todo' = todo,
             pc' = "download" => ~art[held.id].manual
      PROVE  VideoInv'
  <2>1. JobTypes' /\ OneJob'
    BY <1>4, <1>t DEF JobTypes, OneJob, Stages, Placing
  <2>. QED
    BY <1>4, <2>1, VideoQuietStep
<1>5. ASSUME Video!GateShow PROVE VideoInv'
  <2>1. ~art[held.id].manual
    BY <1>5, <1>t DEF Video!GateShow, OneJob, Placing, FilmsOnly, Titles
  <2>. QED
    BY <1>4, <1>5, <2>1 DEF Video!GateShow, VideoQuiet, HandsQuiet, Video!hands, Video!history
<1>6. ASSUME Video!GateFilm PROVE VideoInv'
  BY <1>4, <1>6 DEF Video!GateFilm, Video!Gated, VideoQuiet, HandsQuiet, Video!hands, Video!history
<1>7. ASSUME VideoQuiet, held' = Video!Free, pc' \in {"idle", "match"}, todo' \in {{}, todo},
             pc' = "idle" => todo' = {}
      PROVE  VideoInv'
  <2>1. JobTypes' /\ OneJob'
    BY <1>7, <1>t, VideoFree DEF JobTypes, OneJob, Stages, Placing
  <2>2. held'.files \cup UNION todo' \subseteq held.files \cup UNION todo
    BY <1>7, VideoFree
  <2>. QED
    BY <1>7, <2>1, <2>2, VideoQuietStep
<1>8. ASSUME Video!EndFetch PROVE VideoInv'
  BY <1>7, <1>8, <1>t DEF Video!EndFetch, Video!Ended, OneJob, VideoQuiet, HandsQuiet, Video!hands, Video!history
<1>9. ASSUME Video!FetchFails PROVE VideoInv'
  BY <1>7, <1>9, <1>t DEF Video!FetchFails, Video!Ended, OneJob, VideoQuiet, HandsQuiet, Video!hands, Video!history
<1>10. ASSUME Video!CancelJob PROVE VideoInv'
  BY <1>7, <1>10 DEF Video!CancelJob, Video!Ended, VideoQuiet, HandsQuiet, Video!hands, Video!history
<1>11. ASSUME Video!Restart PROVE VideoInv'
  BY <1>7, <1>11 DEF Video!Restart, VideoQuiet, HandsQuiet, Video!hands, Video!history
<1>. QED
  BY <1>2, <1>3, <1>5, <1>6, <1>8, <1>9, <1>10, <1>11

(* The invariant in four parts: the job, the rows, the pictures, the hands. *)
WordsStand ==
    \A f \in Files : word[f] # Video!None =>
        row[f] = IF word[f] = "skipped" THEN [status |-> "skipped", id |-> Video!None]
                 ELSE [status |-> "matched", id |-> word[f]]
ArtStands ==
    \A i \in Titles \ crossed : /\ art[i].manual => art[i].path = Video!Manual(i)
                                /\ art[i].path \in DOMAIN files \cup {Video!NoPicture}
JobPart == kind \in {"tv", "movie"} /\ JobTypes /\ OneJob
RowPart ==
    /\ row = [f \in Files |-> row[f]] /\ word = [f \in Files |-> word[f]]
    /\ WordsStand /\ Undecided
ArtTypes ==
    /\ art \in Artwork /\ \A i \in Titles : art[i] \in ArtOf(i)
    /\ files \in [DOMAIN files -> {"new", "old"}]
ArtPart == ArtTypes /\ FilmsOnly /\ OnItsWay /\ SweepHeeds /\ ArtStands

LEMMA VideoParts == VideoInv <=> JobPart /\ RowPart /\ ArtPart /\ HandsPart
BY DEF VideoInv, VideoTypes, Video!DecisionsStand, JobPart, RowPart, ArtPart, ArtTypes, WordsStand, ArtStands,
       Titles
LEMMA VideoPartsNext == JobPart' /\ RowPart' /\ ArtPart' /\ HandsPart' => VideoInv'
BY DEF VideoInv, VideoTypes, Video!DecisionsStand, JobPart, RowPart, ArtPart, ArtTypes, WordsStand, ArtStands,
       Titles

LEMMA JobRests == ASSUME JobPart, UNCHANGED <<kind, pc, held, todo>> PROVE JobPart'
BY DEF JobPart, JobTypes, OneJob
LEMMA RowsRest ==
  ASSUME RowPart, UNCHANGED <<row, word>>,
         held'.files \cup UNION todo' \subseteq held.files \cup UNION todo
  PROVE  RowPart'
BY DEF RowPart, WordsStand, Undecided
LEMMA ArtRests ==
  ASSUME ArtPart, UNCHANGED <<kind, art, files>>, crossed \subseteq crossed',
         UNCHANGED <<pc, held, listed>> \/ pc' \notin {"download", "record", "sweep"}
  PROVE  ArtPart'
<1>1. ArtTypes' /\ FilmsOnly' /\ ArtStands'
  BY DEF ArtPart, ArtTypes, FilmsOnly, ArtStands
<1>2. CASE UNCHANGED <<pc, held, listed>>
  <2>1. OnItsWay' /\ SweepHeeds'
    BY <1>2 DEF ArtPart, OnItsWay, SweepHeeds, Heeded
  <2>. QED
    BY <1>1, <2>1 DEF ArtPart
<1>3. CASE pc' \notin {"download", "record", "sweep"}
  BY <1>1, <1>3 DEF ArtPart, OnItsWay, SweepHeeds
<1>. QED
  BY <1>2, <1>3

(* Pictures of two titles are two pictures. *)
LEMMA PicturesApart ==
  ASSUME NEW i \in Titles, NEW j \in Titles, i # j
  PROVE  /\ Pictures(i) \cap Pictures(j) = {Video!NoPicture}
         /\ Video!Tmdb(j) \notin Pictures(i)
BY DEF Pictures, Video!NoPicture, Video!Tmdb, Video!Manual
LEMMA PicturesOf ==
  ASSUME NEW i \in Titles
  PROVE  /\ Video!NoPicture \in Pictures(i) /\ Video!Tmdb(i) \in Pictures(i)
         /\ i \in Ids => Video!Manual(i) \in Pictures(i)
         /\ Video!Tmdb(i) # Video!NoPicture /\ Video!Manual(i) # Video!NoPicture
         /\ Video!NoArt \in ArtOf(i) /\ Video!NoArt.path = Video!NoPicture /\ ~Video!NoArt.manual
BY DEF Pictures, ArtOf, Video!NoArt, Video!NoPicture, Video!Tmdb, Video!Manual

LEMMA ArtChanged ==
  ASSUME ArtTypes, NEW i \in Titles, NEW a \in ArtOf(i), art' = [art EXCEPT ![i] = a]
  PROVE  /\ art' \in Artwork /\ \A j \in Titles : art'[j] \in ArtOf(j)
         /\ art'[i] = a /\ \A j \in Titles \ {i} : art'[j] = art[j]
<1>1. art \in [Titles -> UNION {ArtOf(j) : j \in Titles}] /\ \A j \in Titles : art[j] \in ArtOf(j)
  BY DEF ArtTypes, Artwork
<1>2. art'[i] = a /\ \A j \in Titles \ {i} : art'[j] = art[j]
  BY <1>1
<1>3. art' \in Artwork
  BY <1>1 DEF Artwork
<1>. QED
  BY <1>1, <1>2, <1>3

LEMMA VideoWritten ==
  ASSUME ArtTypes, NEW p, files' = Video!Write(p)
  PROVE  /\ files' \in [DOMAIN files' -> {"new", "old"}] /\ DOMAIN files' = DOMAIN files \cup {p}
BY DEF ArtTypes, Video!Write

(* What a download gives a title. *)
LEMMA VideoPlacing ==
  ASSUME VideoInv, Star \notin Ids
  PROVE  /\ \A ok \in BOOLEAN : Video!Download(ok) \/ Video!Cast(ok) => VideoInv'
         /\ Video!Record => VideoInv'
<1>p. JobPart /\ RowPart /\ ArtPart /\ HandsPart /\ ArtTypes /\ ArtStands /\ OnItsWay /\ FilmsOnly
  BY VideoParts DEF ArtPart
<1>t. Video!ThenCast \in {"store", "cast"}
  BY DEF Video!ThenCast
<1>0. ASSUME pc \in {"download", "record", "cast"}, pc' \in {"record", "store", "cast"},
             pc' = "record" => pc = "download",
             UNCHANGED <<kind, row, word, held, todo>>, ArtPart', HandsPart'
      PROVE  VideoInv'
  <2>1. JobPart'
    BY <1>0, <1>p DEF JobPart, JobTypes, OneJob, Stages, Placing
  <2>2. RowPart'
    BY <1>0, <1>p, RowsRest
  <2>. QED
    BY <1>0, <2>1, <2>2, VideoPartsNext
<1>1. ASSUME NEW ok \in BOOLEAN, Video!Download(ok) PROVE VideoInv'
  <2>1. /\ pc = "download" /\ UNCHANGED <<kind, row, art, todo, held, word, crossed, upload, taking>>
        /\ pc' = IF ok THEN "record" ELSE Video!ThenCast
        /\ files' = IF ok THEN Video!Write(Video!Tmdb(held.id)) ELSE files
    BY <1>1 DEF Video!Download, Video!history, Video!hands
  <2>0. HandsPart'
    <3>1. \A p : Fresh(p) => Fresh(p)'
      BY <2>1 DEF Fresh, Video!Write
    <3>. QED
      BY <1>p, <2>1, <3>1, HandsRest
  <2>2. CASE ~ok
    <3>1. ArtPart'
      BY <1>p, <1>t, <2>1, <2>2, ArtRests
    <3>. QED
      BY <1>0, <1>t, <2>0, <2>1, <2>2, <3>1
  <2>3. CASE ok
    <3>1. /\ files' \in [DOMAIN files' -> {"new", "old"}]
          /\ DOMAIN files' = DOMAIN files \cup {Video!Tmdb(held.id)}
      BY <1>p, <2>1, <2>3, VideoWritten
    <3>2. ArtTypes' /\ FilmsOnly'
      BY <1>p, <2>1, <3>1 DEF ArtTypes, FilmsOnly
    <3>3. OnItsWay' /\ SweepHeeds'
      BY <1>p, <2>1, <2>3, <3>1 DEF OnItsWay, SweepHeeds
    <3>4. ArtStands'
      BY <1>p, <2>1, <3>1 DEF ArtStands
    <3>. QED
      BY <1>0, <2>0, <2>1, <2>3, <3>2, <3>3, <3>4 DEF ArtPart
  <2>. QED
    BY <2>2, <2>3
<1>2. ASSUME Video!Record PROVE VideoInv'
  <2>. DEFINE i == held.id
              a == [art[i] EXCEPT !.path = Video!Tmdb(i)]
  <2>1. /\ pc = "record" /\ UNCHANGED <<kind, row, files, todo, held, word, crossed, upload, taking>>
        /\ pc' = Video!ThenCast /\ art' = [art EXCEPT ![i].path = Video!Tmdb(i)]
    BY <1>2 DEF Video!Record, Video!history, Video!hands
  <2>2. i \in Titles
    BY <1>p, <2>1 DEF JobPart, OneJob, Placing, Titles
  <2>3. art' = [art EXCEPT ![i] = a]
    BY <2>1
  <2>4. art[i] \in ArtOf(i)
    BY <1>p, <2>2 DEF ArtTypes
  <2>5. a \in ArtOf(i) /\ a.path = Video!Tmdb(i) /\ a.manual = art[i].manual
    BY <2>2, <2>4, PicturesOf DEF ArtOf
  <2>. HIDE DEF a
  <2>6. /\ art' \in Artwork /\ \A j \in Titles : art'[j] \in ArtOf(j)
        /\ art'[i] = a /\ \A j \in Titles \ {i} : art'[j] = art[j]
    BY <1>p, <2>2, <2>3, <2>5, ArtChanged
  <2>7. ArtTypes'
    BY <1>p, <2>1, <2>6 DEF ArtTypes
  <2>8. FilmsOnly'
    BY <1>p, <2>1, <2>5, <2>6 DEF FilmsOnly
  <2>9. ArtStands'
    <3>. SUFFICES ASSUME NEW j \in Titles \ crossed
                  PROVE  /\ art'[j].manual => art'[j].path = Video!Manual(j)
                         /\ art'[j].path \in DOMAIN files' \cup {Video!NoPicture}
      BY <2>1 DEF ArtStands
    <3>1. CASE j = i
      BY <1>p, <2>1, <2>5, <2>6, <3>1 DEF OnItsWay
    <3>2. CASE j # i
      BY <1>p, <2>1, <2>6, <3>2 DEF ArtStands
    <3>. QED
      BY <3>1, <3>2
  <2>10. OnItsWay' /\ SweepHeeds'
    BY <1>t, <2>1 DEF OnItsWay, SweepHeeds
  <2>11. HandsPart'
    <3>1. i \notin crossed => ~art[i].manual
      BY <1>p, <2>1 DEF OnItsWay
    <3>2. Video!Tmdb(i) # Video!Manual(i)
      BY DEF Video!Tmdb, Video!Manual
    <3>3. \A j \in Ids : \/ art'[j] = art[j]
                        \/ /\ art'[j].manual = art[j].manual /\ art'[j].path # Video!Manual(j)
                           /\ j \notin crossed => ~art[j].manual
      BY <2>5, <2>6, <3>1, <3>2 DEF Titles
    <3>4. \A p : Fresh(p) => Fresh(p)'
      BY <2>1 DEF Fresh
    <3>. QED
      BY <1>p, <2>1, <3>3, <3>4, HandsRest
  <2>. QED
    BY <1>0, <1>t, <2>1, <2>7, <2>8, <2>9, <2>10, <2>11 DEF ArtPart
<1>3. ASSUME NEW ok \in BOOLEAN, Video!Cast(ok) PROVE VideoInv'
  <2>. DEFINE a == [art[Star] EXCEPT !.path = Video!Tmdb(Star)]
  <2>1. /\ pc = "cast" /\ pc' = "store" /\ UNCHANGED <<kind, row, todo, held, word, crossed, upload, taking>>
        /\ \/ art[Star] = Video!NoArt /\ files' = Video!Write(Video!Tmdb(Star))
              /\ art' = [art EXCEPT ![Star].path = Video!Tmdb(Star)]
           \/ UNCHANGED <<art, files>>
    BY <1>3 DEF Video!Cast, Video!history, Video!hands
  <2>2. CASE UNCHANGED <<art, files>>
    <3>1. ArtPart'
      BY <1>p, <2>1, <2>2, ArtRests
    <3>2. HandsPart'
      BY <1>p, <2>1, <2>2, HandsRest DEF Fresh
    <3>. QED
      BY <1>0, <2>1, <3>1, <3>2
  <2>3. CASE art[Star] = Video!NoArt /\ files' = Video!Write(Video!Tmdb(Star))
             /\ art' = [art EXCEPT ![Star].path = Video!Tmdb(Star)]
    <3>1. Star \in Titles /\ art' = [art EXCEPT ![Star] = a]
      BY <2>3 DEF Titles
    <3>2. a \in ArtOf(Star) /\ a.path = Video!Tmdb(Star) /\ ~a.manual
      BY <2>3, <3>1, PicturesOf DEF ArtOf
    <3>. HIDE DEF a
    <3>3. /\ art' \in Artwork /\ \A j \in Titles : art'[j] \in ArtOf(j)
          /\ art'[Star] = a /\ \A j \in Titles \ {Star} : art'[j] = art[j]
      BY <1>p, <3>1, <3>2, ArtChanged
    <3>4. /\ files' \in [DOMAIN files' -> {"new", "old"}]
          /\ DOMAIN files' = DOMAIN files \cup {Video!Tmdb(Star)}
      BY <1>p, <2>3, VideoWritten
    <3>5. ArtTypes' /\ FilmsOnly'
      BY <1>p, <2>1, <3>2, <3>3, <3>4 DEF ArtTypes, FilmsOnly
    <3>6. ArtStands'
      BY <1>p, <2>1, <3>2, <3>3, <3>4 DEF ArtStands
    <3>7. OnItsWay' /\ SweepHeeds'
      BY <2>1 DEF OnItsWay, SweepHeeds
    <3>8. HandsPart'
      <4>1. \A p : Fresh(p) => Fresh(p)'
        BY <2>3 DEF Fresh, Video!Write
      <4>2. \A j \in Ids : art'[j] = art[j]
        BY <3>3 DEF Titles
      <4>. QED
        BY <1>p, <2>1, <4>1, <4>2, HandsRest
    <3>. QED
      BY <1>0, <2>1, <3>5, <3>6, <3>7, <3>8 DEF ArtPart
  <2>. QED
    BY <2>1, <2>2, <2>3
<1>. QED
  BY <1>1, <1>2, <1>3

(* A match is written into rows nobody has decided. *)
LEMMA VideoStores ==
  ASSUME VideoInv
  PROVE  Video!StoreShow \/ Video!StoreFilm => VideoInv'
<1>p. JobPart /\ RowPart /\ ArtPart /\ HandsPart
  BY VideoParts
<1>1. ASSUME NEW S \in SUBSET held.files, Video!Matched(S) PROVE VideoInv'
  <2>1. /\ pc = "store" /\ held.files # {} /\ pc' = "match" /\ held' = Video!Free /\ todo' = todo
        /\ UNCHANGED <<kind, art, files, word, crossed, upload, taking>>
        /\ row' = [f \in Files |-> IF f \in S THEN [status |-> "matched", id |-> held.id] ELSE row[f]]
    BY <1>1 DEF Video!Matched, Video!history, Video!hands
  <2>2. JobPart'
    BY <1>p, <2>1, VideoFree DEF JobPart, JobTypes, OneJob, Stages, Placing
  <2>3. ArtPart'
    BY <1>p, <2>1, ArtRests
  <2>4. Undecided'
    BY <1>p, <2>1, VideoFree DEF RowPart, Undecided
  <2>5. WordsStand'
    BY <1>p, <2>1 DEF RowPart, Undecided, WordsStand
  <2>6. row' = [f \in Files |-> row'[f]] /\ word' = [f \in Files |-> word'[f]]
    BY <1>p, <2>1 DEF RowPart
  <2>7. HandsPart'
    BY <1>p, <2>1, HandsRest DEF Fresh
  <2>. QED
    BY <2>2, <2>3, <2>4, <2>5, <2>6, <2>7, VideoPartsNext DEF RowPart
<1>2. ASSUME Video!StoreShow PROVE VideoInv'
  BY <1>1, <1>2 DEF Video!StoreShow
<1>3. ASSUME Video!StoreFilm PROVE VideoInv'
  BY <1>1, <1>3 DEF Video!StoreFilm
<1>. QED
  BY <1>2, <1>3

(* What a person decides of files is written, and what a job still holds   *)
(* of them it is free to overwrite.                                        *)
LEMMA VideoDecided ==
  ASSUME VideoInv, NEW S, NEW as, NEW what, Video!Decide(S, as, what), UNCHANGED <<pc, held, todo>>,
         what # Video!None =>
            as = IF what = "skipped" THEN [status |-> "skipped", id |-> Video!None]
                 ELSE [status |-> "matched", id |-> what]
  PROVE  RowPart'
<1>p. JobPart /\ RowPart
  BY VideoParts
<1>1. /\ row' = [f \in Files |-> IF f \in S THEN as ELSE row[f]]
      /\ word' = [f \in Files |-> IF f \in S THEN (IF Video!Exposed(f) THEN Video!None ELSE what) ELSE word[f]]
  BY DEF Video!Decide
<1>2. WordsStand'
  BY <1>p, <1>1 DEF RowPart, WordsStand
<1>3. Undecided'
  <2>. SUFFICES ASSUME NEW f \in held.files \cup UNION todo PROVE word'[f] = Video!None
    BY DEF Undecided
  <2>1. f \in Files
    BY <1>p DEF JobPart, JobTypes, VideoHold
  <2>2. pc # "idle"
    BY <1>p, VideoFree DEF JobPart, OneJob
  <2>3. Video!Exposed(f)
    BY <2>2 DEF Video!Exposed
  <2>4. word[f] = Video!None
    BY <1>p DEF RowPart, Undecided
  <2>. QED
    BY <1>1, <2>1, <2>3, <2>4
<1>4. row' = [f \in Files |-> row'[f]] /\ word' = [f \in Files |-> word'[f]]
  BY <1>1
<1>. QED
  BY <1>2, <1>3, <1>4 DEF RowPart

(* A file nobody names goes. *)
LEMMA PictureRemoved ==
  ASSUME ArtPart, NEW p, UNCHANGED <<kind, pc, held, listed, art, crossed>>, files' = Video!Without(p),
         \A j \in Titles \ crossed : art[j].path \notin {p} \ {Video!NoPicture},
         pc = "record" /\ held.id \notin crossed => Video!Tmdb(held.id) # p
  PROVE  ArtPart'
<1>p. ArtTypes /\ FilmsOnly /\ OnItsWay /\ SweepHeeds /\ ArtStands
  BY DEF ArtPart
<1>1. DOMAIN files' = DOMAIN files \ {p} /\ \A q \in DOMAIN files \ {p} : files'[q] = files[q]
  BY DEF Video!Without
<1>2. files' \in [DOMAIN files' -> {"new", "old"}]
  BY <1>p DEF ArtTypes, Video!Without
<1>3. ArtTypes' /\ FilmsOnly' /\ OnItsWay'
  BY <1>p, <1>1, <1>2 DEF ArtTypes, FilmsOnly, OnItsWay
<1>4. ArtStands'
  BY <1>p, <1>1 DEF ArtStands
<1>5. SweepHeeds'
  <2>. SUFFICES ASSUME pc = "sweep", NEW i \in Titles \ crossed PROVE Heeded(i)'
    BY DEF SweepHeeds
  <2>1. Heeded(i) /\ art[i].path \in (DOMAIN files \ {p}) \cup {Video!NoPicture}
    BY <1>p DEF SweepHeeds, ArtStands
  <2>. QED
    BY <1>1, <2>1 DEF Heeded
<1>. QED
  BY <1>3, <1>4, <1>5 DEF ArtPart

(* A film's picture is changed by a person: it is gone, or it is the one   *)
(* just uploaded.                                                          *)
LEMMA VideoArtChange ==
  ASSUME VideoInv, Star \notin Ids, NEW i \in Ids, NEW a \in ArtOf(i), art' = [art EXCEPT ![i] = a],
         UNCHANGED <<kind, pc, held, listed>>, files' \in [DOMAIN files' -> {"new", "old"}],
         \A p \in DOMAIN files \ {art[i].path} : p \in DOMAIN files' /\ files'[p] \in {files[p], "new"},
         crossed \subseteq crossed' \cup {i}, Video!Crossing(i) => i \in crossed',
         a.manual => kind = "movie",
         \/ a = Video!NoArt \/ i \in crossed'
         \/ a.path = Video!Manual(i) /\ a.path \in DOMAIN files' /\ files'[a.path] = "new"
  PROVE  ArtPart'
<1>p. ArtPart /\ ArtTypes /\ ArtStands /\ OnItsWay /\ FilmsOnly /\ SweepHeeds /\ JobPart
  BY VideoParts DEF ArtPart
<1>i. i \in Titles
  BY DEF Titles
<1>1. /\ art' \in Artwork /\ \A j \in Titles : art'[j] \in ArtOf(j)
      /\ art'[i] = a /\ \A j \in Titles \ {i} : art'[j] = art[j]
  BY <1>p, <1>i, ArtChanged
<1>2. ArtTypes'
  BY <1>1 DEF ArtTypes
<1>3. FilmsOnly'
  BY <1>p, <1>1 DEF FilmsOnly
<1>4. art[i].path \in Pictures(i) /\ \A j \in Titles : art[j].path \in Pictures(j)
  BY <1>p, <1>i DEF ArtTypes, ArtOf
<1>5. OnItsWay'
  <2>. SUFFICES ASSUME pc \in {"download", "record"}, held.id \notin crossed'
                PROVE  ~art'[held.id].manual /\ (pc = "record" => Video!Tmdb(held.id) \in DOMAIN files')
    BY DEF OnItsWay
  <2>1. held.id \in Ids /\ held.id \in Titles
    BY <1>p DEF JobPart, OneJob, Placing, Titles
  <2>2. held.id # i
    BY DEF Video!Crossing
  <2>3. held.id \notin crossed
    BY <2>2
  <2>4. Video!Tmdb(held.id) # art[i].path
    BY <1>4, <1>i, <2>1, <2>2, PicturesApart
  <2>5. ~art[held.id].manual /\ (pc = "record" => Video!Tmdb(held.id) \in DOMAIN files)
    BY <1>p, <2>3 DEF OnItsWay
  <2>. QED
    BY <1>1, <2>1, <2>2, <2>4, <2>5
<1>6. ASSUME NEW j \in Titles, j # i, j \notin crossed'
      PROVE  /\ j \notin crossed /\ art'[j] = art[j]
             /\ \/ art[j].path = Video!NoPicture
                \/ /\ art[j].path \in DOMAIN files /\ art[j].path \in DOMAIN files'
                   /\ files'[art[j].path] \in {files[art[j].path], "new"}
  <2>1. j \notin crossed /\ art'[j] = art[j]
    BY <1>1, <1>6
  <2>2. art[j].path \in DOMAIN files \cup {Video!NoPicture}
    BY <1>p, <2>1 DEF ArtStands
  <2>3. art[j].path = Video!NoPicture \/ art[j].path # art[i].path
    BY <1>4, <1>i, <1>6, PicturesApart
  <2>. QED
    BY <2>1, <2>2, <2>3
<1>7. ASSUME i \notin crossed'
      PROVE  /\ a.manual => a.path = Video!Manual(i)
             /\ \/ a.path = Video!NoPicture
                \/ a.path \in DOMAIN files' /\ files'[a.path] = "new"
  <2>1. CASE a = Video!NoArt
    BY <1>i, <2>1, PicturesOf
  <2>2. CASE a.path = Video!Manual(i) /\ a.path \in DOMAIN files' /\ files'[a.path] = "new"
    BY <2>2
  <2>. QED
    BY <1>7, <2>1, <2>2
<1>8. ArtStands'
  <2>. SUFFICES ASSUME NEW j \in Titles \ crossed'
                PROVE  /\ art'[j].manual => art'[j].path = Video!Manual(j)
                       /\ art'[j].path \in DOMAIN files' \cup {Video!NoPicture}
    BY DEF ArtStands
  <2>1. CASE j = i
    BY <1>1, <1>7, <2>1
  <2>2. CASE j # i
    <3>1. art[j].manual => art[j].path = Video!Manual(j)
      BY <1>p, <1>6, <2>2 DEF ArtStands
    <3>. QED
      BY <1>6, <2>2, <3>1
  <2>. QED
    BY <2>1, <2>2
<1>9. SweepHeeds'
  <2>. SUFFICES ASSUME pc = "sweep", NEW j \in Titles \ crossed' PROVE Heeded(j)'
    BY DEF SweepHeeds
  <2>1. CASE j = i
    BY <1>1, <1>7, <2>1 DEF Heeded
  <2>2. CASE j # i
    <3>1. Heeded(j)
      BY <1>p, <1>6, <2>2 DEF SweepHeeds
    <3>. QED
      BY <1>6, <2>2, <3>1 DEF Heeded
  <2>. QED
    BY <2>1, <2>2
<1>. QED
  BY <1>2, <1>3, <1>5, <1>8, <1>9 DEF ArtPart

(* A person begins to take a picture away: an upload of it is not alone.   *)
LEMMA VideoTake ==
  ASSUME VideoInv, NEW i \in Ids, NEW step \in {"read", "unmatched"}, NEW old \in Pictures(i),
         i \notin crossed => old \in {Video!NoPicture, Video!Manual(i)}, kind = "movie",
         Video!Take(i, step, old), UNCHANGED <<kind, art, files, pc, held, listed>>
  PROVE  ArtPart' /\ HandsPart'
<1>p. ArtPart /\ HandsPart
  BY VideoParts
<1>1. /\ taking' = [at |-> step, id |-> i, old |-> old]
      /\ upload' = [upload EXCEPT !.alone = @ /\ upload.id # i]
      /\ crossed \subseteq crossed' /\ (upload.id = i => i \in crossed')
  BY DEF Video!Take
<1>2. ArtPart'
  BY <1>1, <1>p, ArtRests
<1>3. taking'.at = step /\ taking'.id = i /\ taking'.old = old
  BY <1>1
<1>4. /\ upload'.at = upload.at /\ upload'.id = upload.id /\ upload'.old = upload.old
      /\ upload'.alone = (upload.alone /\ upload.id # i)
  <2>. DEFINE alone == upload.alone /\ upload.id # i
  <2>1. upload = [at |-> upload.at, id |-> upload.id, old |-> upload.old, alone |-> upload.alone]
    BY <1>p DEF HandsPart, HandsTyped
  <2>2. upload' = [upload EXCEPT !.alone = alone]
    BY <1>1
  <2>. HIDE DEF alone
  <2>3. upload' = [at |-> upload.at, id |-> upload.id, old |-> upload.old, alone |-> alone]
    BY <2>1, <2>2
  <2>4. /\ upload'.at = upload.at /\ upload'.id = upload.id /\ upload'.old = upload.old
        /\ upload'.alone = alone
    BY <2>3
  <2>. QED
    BY <2>4 DEF alone
<1>5. HandsTyped'
  <2>1. upload' = [at |-> upload'.at, id |-> upload'.id, old |-> upload'.old, alone |-> upload'.alone]
    BY <1>1, <1>p DEF HandsPart, HandsTyped
  <2>2. upload'.alone \in BOOLEAN
    BY <1>4
  <2>3. /\ upload'.at \in {Video!None, "asked", "named", "read", "stored"}
        /\ upload'.at # Video!None => /\ kind' = "movie" /\ upload'.id \in Ids
                                      /\ upload'.old \in Pictures(upload'.id)
    BY <1>4, <1>p DEF HandsPart, HandsTyped
  <2>4. /\ taking' = [at |-> taking'.at, id |-> taking'.id, old |-> taking'.old]
        /\ taking'.at \in {Video!None, "read", "deleted", "unmatched"}
        /\ taking'.at # Video!None => /\ kind' = "movie" /\ taking'.id \in Ids
                                      /\ taking'.old \in Pictures(taking'.id)
    BY <1>1, <1>3
  <2>. QED
    BY <2>1, <2>2, <2>3, <2>4 DEF HandsTyped
<1>6. HandsApart'
  BY <1>1, <1>3, <1>4 DEF HandsApart
<1>7. ManualMarked'
  BY <1>p DEF HandsPart, ManualMarked
<1>8. UploadStands'
  <2>1. upload'.at \in {"named", "read"} /\ upload'.alone => Fresh(Video!Manual(upload.id))'
    BY <1>4, <1>p DEF HandsPart, UploadStands, Fresh
  <2>2. upload'.at = "stored" =>
          /\ upload'.old = Video!Tmdb(upload'.id)
          /\ upload'.id \notin crossed' =>
                art'[upload'.id].manual /\ art'[upload'.id].path = Video!Manual(upload'.id)
    BY <1>1, <1>4, <1>p DEF HandsPart, UploadStands
  <2>. QED
    BY <2>1, <2>2 DEF UploadStands
<1>9. TakingStands'
  <2>1. i \notin crossed' => old \in {Video!NoPicture, Video!Manual(i)}
    BY <1>1
  <2>. QED
    BY <1>3, <2>1 DEF TakingStands
<1>. QED
  BY <1>2, <1>5, <1>6, <1>7, <1>8, <1>9 DEF HandsPart

(* What people decide on the review pages. *)
LEMMA VideoDecisions ==
  ASSUME VideoInv, "skipped" \notin Ids, Star \notin Ids
  PROVE  /\ \A f \in Files : Video!SkipShow(f) \/ Video!SkipFilm(f) \/ Video!Rematch(f) => VideoInv'
         /\ \A f \in Files, i \in Ids : Video!ApproveShow(f, i) \/ Video!ApproveFilm(f, i) => VideoInv'
         /\ \A i \in Ids : Video!Unmatch(i) => VideoInv'
<1>p. JobPart /\ RowPart /\ ArtPart /\ HandsPart /\ ArtTypes
  BY VideoParts DEF ArtPart
<1>1. ASSUME NEW S, NEW as, NEW what, Video!Decide(S, as, what), Video!Act,
             UNCHANGED <<art, files, crossed>>,
             what # Video!None =>
                as = IF what = "skipped" THEN [status |-> "skipped", id |-> Video!None]
                     ELSE [status |-> "matched", id |-> what]
      PROVE  VideoInv'
  <2>1. UNCHANGED <<kind, pc, todo, held, listed, upload, taking>>
    BY <1>1 DEF Video!Act, Video!Begun, Video!worker, Video!hands
  <2>2. RowPart'
    BY <1>1, <2>1, VideoDecided
  <2>3. JobPart' /\ ArtPart'
    BY <1>1, <1>p, <2>1, JobRests, ArtRests
  <2>4. HandsPart'
    BY <1>1, <1>p, <2>1, HandsRest DEF Fresh
  <2>. QED
    BY <2>2, <2>3, <2>4, VideoPartsNext
<1>2. ASSUME NEW f \in Files, Video!SkipShow(f) \/ Video!SkipFilm(f) PROVE VideoInv'
  <2>. DEFINE as == [status |-> "skipped", id |-> Video!None]
  <2>1. PICK S : /\ Video!Decide(S, as, "skipped") /\ Video!Act /\ UNCHANGED <<art, files, crossed>>
    BY <1>2 DEF Video!SkipShow, Video!SkipFilm, Video!Skipped
  <2>. QED
    BY <1>1, <2>1
<1>3. ASSUME NEW f \in Files, Video!Rematch(f) PROVE VideoInv'
  BY <1>1, <1>3 DEF Video!Rematch
<1>4. ASSUME NEW f \in Files, NEW i \in Ids, Video!ApproveShow(f, i) \/ Video!ApproveFilm(f, i)
      PROVE  VideoInv'
  <2>. DEFINE as == [status |-> "matched", id |-> i]
  <2>1. PICK S : /\ Video!Decide(S, as, i) /\ Video!Act /\ UNCHANGED <<art, files, crossed>>
    BY <1>4 DEF Video!ApproveShow, Video!ApproveFilm
  <2>2. i # "skipped"
    OBVIOUS
  <2>. QED
    BY <1>1, <2>1, <2>2
<1>5. ASSUME NEW i \in Ids, Video!Unmatch(i) PROVE VideoInv'
  <2>1. UNCHANGED <<kind, pc, todo, held, listed, art, files>> /\ kind = "movie"
    BY <1>5 DEF Video!Unmatch, Video!Begun, Video!worker
  <2>2. RowPart'
    <3>1. PICK S : Video!Decide(S, Video!Open, Video!None)
      BY <1>5 DEF Video!Unmatch
    <3>. QED
      BY <2>1, <3>1, VideoDecided
  <2>3. JobPart'
    BY <1>p, <2>1, JobRests
  <2>4. Video!NoPicture \in Pictures(i)
    BY PicturesOf DEF Titles
  <2>5. ArtPart' /\ HandsPart'
    BY <1>5, <2>1, <2>4, VideoTake DEF Video!Unmatch
  <2>. QED
    BY <2>2, <2>3, <2>5, VideoPartsNext
<1>. QED
  BY <1>2, <1>3, <1>4, <1>5

(* An upload, statement by statement. *)
LEMMA UploadKnown ==
  ASSUME HandsPart, upload.at # Video!None
  PROVE  /\ kind = "movie" /\ upload.id \in Ids /\ upload.id \in Titles
         /\ upload.old \in Pictures(upload.id)
BY DEF HandsPart, HandsTyped, Titles

(* What another step of an upload asks of the pictures. *)
LEMMA UploadMoves ==
  ASSUME HandsPart, NEW next, NEW to \in {"named", "read", "stored"},
         next = [at |-> to, id |-> upload.id, old |-> next.old, alone |-> upload.alone],
         upload' = next, upload.at # Video!None,
         next.old \in Pictures(upload.id), UNCHANGED <<kind, taking>>, HandsApart', UploadStands',
         ManualMarked', TakingStands'
  PROVE  HandsPart'
<1>1. upload'.at = to /\ upload'.id = upload.id /\ upload'.old = next.old /\ upload'.alone = upload.alone
  OBVIOUS
<1>2. HandsTyped'
  BY <1>1, UploadKnown DEF HandsPart, HandsTyped
<1>. QED
  BY <1>2 DEF HandsPart

LEMMA VideoUpload ==
  ASSUME VideoInv, Star \notin Ids
  PROVE  /\ \A i \in Ids : Video!Upload(i) => VideoInv'
         /\ Video!UploadFile \/ Video!UploadRead \/ Video!UploadRow \/ Video!UploadRemove => VideoInv'
<1>p. JobPart /\ RowPart /\ ArtPart /\ HandsPart /\ ArtTypes /\ ArtStands /\ OnItsWay /\ SweepHeeds /\ FilmsOnly
  BY VideoParts DEF ArtPart
<1>h. /\ HandsTyped /\ HandsApart /\ ManualMarked /\ UploadStands /\ TakingStands
      /\ upload = [at |-> upload.at, id |-> upload.id, old |-> upload.old, alone |-> upload.alone]
  BY <1>p DEF HandsPart, HandsTyped
<1>n. Video!None \notin {"asked", "named", "read", "stored"}
  BY DEF Video!None
<1>r. ASSUME UNCHANGED <<kind, pc, todo, held, row, word>> PROVE JobPart' /\ RowPart'
  BY <1>p, <1>r, JobRests, RowsRest
<1>1. ASSUME NEW i \in Ids, Video!Upload(i) PROVE VideoInv'
  <2>. DEFINE next == [at |-> "asked", id |-> i, old |-> Video!NoPicture, alone |-> taking.id # i]
  <2>1. /\ UNCHANGED <<kind, pc, todo, held, listed, row, word, art, files, crossed, taking>>
        /\ kind = "movie" /\ upload' = next
    BY <1>1 DEF Video!Upload, Video!Begun, Video!worker, Video!history
  <2>2. /\ next.at = "asked" /\ next.id = i /\ next.old = Video!NoPicture
        /\ next.alone = (taking.id # i) /\ next = [at |-> next.at, id |-> next.id, old |-> next.old, alone |-> next.alone]
    OBVIOUS
  <2>3. Video!NoPicture \in Pictures(i)
    BY PicturesOf DEF Titles
  <2>. HIDE DEF next
  <2>4. HandsTyped' /\ HandsApart'
    BY <1>h, <2>1, <2>2, <2>3 DEF HandsTyped, HandsApart
  <2>5. UploadStands' /\ ManualMarked' /\ TakingStands'
    BY <1>h, <2>1, <2>2 DEF UploadStands, ManualMarked, TakingStands
  <2>6. ArtPart'
    BY <1>p, <2>1, ArtRests
  <2>. QED
    BY <1>r, <2>1, <2>4, <2>5, <2>6, VideoPartsNext DEF HandsPart
<1>2. ASSUME Video!UploadFile PROVE VideoInv'
  <2>. DEFINE p == Video!Manual(upload.id)
              next == [upload EXCEPT !.at = "named"]
  <2>1. /\ UNCHANGED <<kind, pc, todo, held, listed, row, word, art, crossed, taking>>
        /\ upload.at = "asked" /\ upload' = next /\ files' = Video!Write(p)
    BY <1>2 DEF Video!UploadFile, Video!Handled, Video!worker
  <2>2. /\ files' \in [DOMAIN files' -> {"new", "old"}] /\ DOMAIN files' = DOMAIN files \cup {p}
        /\ files'[p] = "new" /\ \A q \in DOMAIN files : files'[q] \in {files[q], "new"}
    BY <1>p, <2>1, VideoWritten DEF Video!Write
  <2>3. ArtTypes' /\ FilmsOnly' /\ ArtStands' /\ OnItsWay'
    BY <1>p, <2>1, <2>2 DEF ArtTypes, FilmsOnly, ArtStands, OnItsWay
  <2>4. SweepHeeds'
    <3>. SUFFICES ASSUME pc = "sweep", NEW i \in Titles \ crossed PROVE Heeded(i)'
      BY <2>1 DEF SweepHeeds
    <3>1. Heeded(i) /\ art[i].path \in DOMAIN files \cup {Video!NoPicture}
      BY <1>p DEF SweepHeeds, ArtStands
    <3>. QED
      BY <2>1, <2>2, <3>1 DEF Heeded
  <2>5. /\ next = [at |-> "named", id |-> upload.id, old |-> next.old, alone |-> upload.alone]
        /\ next.old = upload.old
    BY <1>h
  <2>. HIDE DEF next
  <2>6. /\ upload'.at = "named" /\ upload'.id = upload.id /\ upload'.alone = upload.alone
    BY <2>1, <2>5
  <2>7. HandsApart' /\ UploadStands' /\ ManualMarked' /\ TakingStands'
    BY <1>h, <1>n, <2>1, <2>2, <2>6 DEF HandsApart, UploadStands, ManualMarked, TakingStands, Fresh
  <2>8. HandsPart'
    BY <1>p, <1>n, <2>1, <2>5, <2>7, UploadKnown, UploadMoves
  <2>. QED
    BY <1>r, <2>1, <2>3, <2>4, <2>8, VideoPartsNext DEF ArtPart
<1>3. ASSUME Video!UploadRead PROVE VideoInv'
  <2>. DEFINE next == [at |-> "read", id |-> upload.id, old |-> art[upload.id].path, alone |-> upload.alone]
  <2>1. /\ UNCHANGED <<kind, pc, todo, held, listed, row, word, art, files, crossed, taking>>
        /\ upload.at = "named" /\ upload' = next
    BY <1>3 DEF Video!UploadRead, Video!Handled, Video!worker
  <2>2. upload.id \in Ids /\ upload.id \in Titles
    BY <1>p, <1>n, <2>1, UploadKnown
  <2>3. art[upload.id].path \in Pictures(upload.id)
    BY <1>p, <2>2 DEF ArtTypes, ArtOf
  <2>5. /\ next = [at |-> "read", id |-> upload.id, old |-> next.old, alone |-> upload.alone]
        /\ next.old = art[upload.id].path
    OBVIOUS
  <2>. HIDE DEF next
  <2>6. /\ upload'.at = "read" /\ upload'.id = upload.id /\ upload'.alone = upload.alone
    BY <2>1, <2>5
  <2>7. HandsApart' /\ UploadStands' /\ ManualMarked' /\ TakingStands'
    BY <1>h, <1>n, <2>1, <2>6 DEF HandsApart, UploadStands, ManualMarked, TakingStands, Fresh
  <2>8. HandsPart'
    BY <1>p, <1>n, <2>1, <2>3, <2>5, <2>7, UploadMoves
  <2>9. ArtPart'
    BY <1>p, <2>1, ArtRests
  <2>. QED
    BY <1>r, <2>1, <2>8, <2>9, VideoPartsNext
<1>4. ASSUME Video!UploadRow PROVE VideoInv'
  <2>. DEFINE i == upload.id
              a == [path |-> Video!Manual(i), manual |-> TRUE]
              next == [upload EXCEPT !.at = "stored"]
  <2>1. /\ UNCHANGED <<kind, pc, todo, held, listed, row, word, files, taking>>
        /\ upload.at = "read" /\ art' = [art EXCEPT ![i] = a]
        /\ \/ upload.old \notin {Video!NoPicture, Video!Manual(i)} /\ upload' = next
           \/ upload' = Video!NoUpload
        /\ crossed' = IF Video!Crossing(i) \/ ~upload.alone THEN crossed \cup {i} ELSE crossed \ {i}
    BY <1>4 DEF Video!UploadRow, Video!Supersedes, Video!Handled, Video!worker
  <2>2. i \in Ids /\ i \in Titles /\ kind = "movie" /\ upload.old \in Pictures(i)
    BY <1>p, <1>n, <2>1, UploadKnown
  <2>3. a \in ArtOf(i) /\ a.path = Video!Manual(i) /\ a.manual = TRUE
    BY <2>2, PicturesOf DEF ArtOf
  <2>. HIDE DEF a
  <2>4. /\ files' \in [DOMAIN files' -> {"new", "old"}]
        /\ \A p \in DOMAIN files \ {art[i].path} : p \in DOMAIN files' /\ files'[p] \in {files[p], "new"}
    BY <1>p, <2>1 DEF ArtTypes
  <2>5. i \in crossed' \/ (a.path \in DOMAIN files' /\ files'[a.path] = "new")
    <3>1. CASE upload.alone
      BY <1>h, <2>1, <2>3, <3>1 DEF UploadStands, Fresh
    <3>2. CASE ~upload.alone
      BY <2>1, <3>2
    <3>. QED
      BY <3>1, <3>2
  <2>6. crossed \subseteq crossed' \cup {i} /\ (Video!Crossing(i) => i \in crossed')
    BY <2>1
  <2>7. ArtPart'
    <3>1. \/ a = Video!NoArt \/ i \in crossed'
          \/ a.path = Video!Manual(i) /\ a.path \in DOMAIN files' /\ files'[a.path] = "new"
      BY <2>3, <2>5
    <3>. QED
      BY <2>1, <2>2, <2>3, <2>4, <2>6, <3>1, VideoArtChange
  <2>8. /\ art'[i] = a /\ \A j \in Titles \ {i} : art'[j] = art[j]
    BY <1>p, <2>1, <2>2, <2>3, ArtChanged
  <2>9. ManualMarked'
    <3>. SUFFICES ASSUME NEW j \in Ids, art'[j].path = Video!Manual(j) PROVE art'[j].manual
      BY DEF ManualMarked
    <3>1. CASE j = i
      BY <2>3, <2>8, <3>1
    <3>2. CASE j # i
      BY <1>h, <2>8, <3>2 DEF ManualMarked, Titles
    <3>. QED
      BY <3>1, <3>2
  <2>10. TakingStands'
    <3>. SUFFICES ASSUME taking.at # Video!None, taking.id \notin crossed'
                  PROVE  /\ taking.old \in {Video!NoPicture, Video!Manual(taking.id)}
                         /\ taking.at = "deleted" => ~art'[taking.id].manual
      BY <2>1 DEF TakingStands
    <3>1. taking.id \in Ids
      BY <1>h DEF HandsTyped
    <3>2. taking.id # i
      BY <1>h, <1>n, <2>1 DEF HandsApart
    <3>3. taking.id \notin crossed /\ art'[taking.id] = art[taking.id]
      BY <2>6, <2>8, <3>1, <3>2 DEF Titles
    <3>. QED
      BY <1>h, <3>3 DEF TakingStands
  <2>11. HandsPart'
    <3>1. CASE upload' = Video!NoUpload
      <4>1. /\ upload'.at = Video!None /\ upload'.alone = TRUE
            /\ upload' = [at |-> upload'.at, id |-> upload'.id, old |-> upload'.old, alone |-> upload'.alone]
        BY <3>1 DEF Video!NoUpload
      <4>2. HandsTyped'
        BY <1>h, <2>1, <4>1 DEF HandsTyped
      <4>3. HandsApart' /\ UploadStands'
        BY <1>n, <4>1 DEF HandsApart, UploadStands
      <4>. QED
        BY <2>9, <2>10, <4>2, <4>3 DEF HandsPart
    <3>2. CASE upload.old \notin {Video!NoPicture, Video!Manual(i)} /\ upload' = next
      <4>1. /\ next = [at |-> "stored", id |-> i, old |-> next.old, alone |-> upload.alone]
            /\ next.old = upload.old
        BY <1>h
      <4>. HIDE DEF next
      <4>2. /\ upload'.at = "stored" /\ upload'.id = i /\ upload'.alone = upload.alone
            /\ upload'.old = upload.old
        BY <3>2, <4>1
      <4>3. upload.old = Video!Tmdb(i)
        BY <2>2, <3>2 DEF Pictures
      <4>4. UploadStands'
        BY <2>3, <2>8, <4>2, <4>3 DEF UploadStands
      <4>5. HandsApart'
        BY <1>h, <1>n, <2>1, <4>2 DEF HandsApart
      <4>. QED
        BY <1>p, <1>n, <2>1, <2>2, <2>9, <2>10, <3>2, <4>1, <4>4, <4>5, UploadMoves
    <3>. QED
      BY <2>1, <3>1, <3>2
  <2>. QED
    BY <1>r, <2>1, <2>7, <2>11, VideoPartsNext
<1>5. ASSUME Video!UploadRemove PROVE VideoInv'
  <2>. DEFINE i == upload.id
              p == Video!Tmdb(i)
  <2>1. /\ UNCHANGED <<kind, pc, todo, held, listed, row, word, art, crossed, taking>>
        /\ upload.at = "stored" /\ upload' = Video!NoUpload /\ files' = Video!Without(upload.old)
    BY <1>5 DEF Video!UploadRemove, Video!Handled, Video!worker
  <2>2. i \in Ids /\ i \in Titles
    BY <1>p, <1>n, <2>1, UploadKnown
  <2>3. /\ upload.old = p
        /\ i \notin crossed => art[i].manual /\ art[i].path = Video!Manual(i)
    BY <1>h, <2>1 DEF UploadStands
  <2>4. ASSUME NEW j \in Titles \ crossed PROVE art[j].path # p
    <3>1. CASE j = i
      BY <2>3, <3>1 DEF Video!Tmdb, Video!Manual
    <3>2. CASE j # i
      <4>1. art[j].path \in Pictures(j) /\ p \notin Pictures(j)
        BY <1>p, <2>2, <3>2, PicturesApart DEF ArtTypes, ArtOf
      <4>. QED
        BY <4>1
    <3>. QED
      BY <3>1, <3>2
  <2>5. pc = "record" /\ held.id \notin crossed => Video!Tmdb(held.id) # p
    <3>. SUFFICES ASSUME pc = "record", held.id \notin crossed, Video!Tmdb(held.id) = p PROVE FALSE
      OBVIOUS
    <3>1. held.id = i
      BY DEF Video!Tmdb
    <3>2. ~art[held.id].manual
      BY <1>p DEF OnItsWay
    <3>. QED
      BY <2>3, <3>1, <3>2
  <2>6. ArtPart'
    BY <1>p, <2>1, <2>3, <2>4, <2>5, PictureRemoved
  <2>7. /\ upload'.at = Video!None /\ upload'.alone = TRUE
        /\ upload' = [at |-> upload'.at, id |-> upload'.id, old |-> upload'.old, alone |-> upload'.alone]
    BY <2>1 DEF Video!NoUpload
  <2>8. HandsTyped'
    BY <1>h, <2>1, <2>7 DEF HandsTyped
  <2>9. HandsApart' /\ UploadStands' /\ ManualMarked' /\ TakingStands'
    BY <1>h, <1>n, <2>1, <2>7 DEF HandsApart, UploadStands, ManualMarked, TakingStands
  <2>. QED
    BY <1>r, <2>1, <2>6, <2>8, <2>9, VideoPartsNext DEF HandsPart
<1>. QED
  BY <1>1, <1>2, <1>3, <1>4, <1>5

(* A clear and an unmatch, statement by statement. *)
LEMMA TakingKnown ==
  ASSUME HandsPart, taking.at # Video!None
  PROVE  /\ kind = "movie" /\ taking.id \in Ids /\ taking.id \in Titles
         /\ taking.old \in Pictures(taking.id)
BY DEF HandsPart, HandsTyped, Titles

LEMMA VideoTaking ==
  ASSUME VideoInv, Star \notin Ids
  PROVE  /\ \A i \in Ids : Video!ClearArt(i) => VideoInv'
         /\ Video!UnmatchArt \/ Video!ClearRow \/ Video!ClearFile \/ Video!HandlerFails => VideoInv'
<1>p. JobPart /\ RowPart /\ ArtPart /\ HandsPart /\ ArtTypes /\ ArtStands /\ OnItsWay /\ SweepHeeds /\ FilmsOnly
  BY VideoParts DEF ArtPart
<1>h. /\ HandsTyped /\ HandsApart /\ ManualMarked /\ UploadStands /\ TakingStands
      /\ taking = [at |-> taking.at, id |-> taking.id, old |-> taking.old]
  BY <1>p DEF HandsPart, HandsTyped
<1>n. Video!None \notin {"named", "read", "stored", "deleted", "unmatched"}
  BY DEF Video!None
<1>r. ASSUME UNCHANGED <<kind, pc, todo, held, row, word>> PROVE JobPart' /\ RowPart'
  BY <1>p, <1>r, JobRests, RowsRest
<1>e. /\ Video!NoTaking.at = Video!None /\ Video!NoUpload.at = Video!None /\ Video!NoUpload.alone = TRUE
      /\ Video!NoTaking = [at |-> Video!NoTaking.at, id |-> Video!NoTaking.id, old |-> Video!NoTaking.old]
      /\ Video!NoUpload = [at |-> Video!NoUpload.at, id |-> Video!NoUpload.id, old |-> Video!NoUpload.old,
                           alone |-> Video!NoUpload.alone]
  BY DEF Video!NoTaking, Video!NoUpload
<1>1. ASSUME NEW i \in Ids, Video!ClearArt(i) PROVE VideoInv'
  <2>. DEFINE old == IF art[i].manual THEN art[i].path ELSE Video!NoPicture
  <2>1. /\ UNCHANGED <<kind, pc, todo, held, listed, row, word, art, files>> /\ kind = "movie"
        /\ Video!Take(i, "read", old)
    BY <1>1 DEF Video!ClearArt, Video!Begun, Video!worker
  <2>2. i \in Titles
    BY DEF Titles
  <2>3. old \in Pictures(i)
    BY <1>p, <2>2, PicturesOf DEF ArtTypes, ArtOf
  <2>4. i \notin crossed => old \in {Video!NoPicture, Video!Manual(i)}
    BY <1>p, <2>2 DEF ArtStands
  <2>. HIDE DEF old
  <2>5. ArtPart' /\ HandsPart'
    BY <2>1, <2>3, <2>4, VideoTake
  <2>. QED
    BY <1>r, <2>1, <2>5, VideoPartsNext
<1>a. ASSUME NEW a \in ArtOf(taking.id), taking.at # Video!None, Video!Reach(taking.id, a),
             a = Video!NoArt \/ a = art[taking.id],
             UNCHANGED <<kind, pc, held, listed, files, upload>>
      PROVE  /\ ArtPart' /\ ManualMarked' /\ UploadStands' /\ crossed \subseteq crossed'
             /\ art'[taking.id] = a
  <2>. DEFINE i == taking.id
  <2>1. i \in Ids /\ i \in Titles /\ kind = "movie"
    BY <1>p, <1>a, TakingKnown
  <2>2. /\ art' = [art EXCEPT ![i] = a] /\ crossed \subseteq crossed'
        /\ Video!Crossing(i) => i \in crossed'
    BY <1>a DEF Video!Reach
  <2>3. art'[i] = a /\ \A j \in Titles \ {i} : art'[j] = art[j]
    BY <1>p, <1>a, <2>1, <2>2, ArtChanged
  <2>4. Video!NoArt.path = Video!NoPicture /\ ~Video!NoArt.manual /\ Video!Manual(i) # Video!NoPicture
    BY <2>1, PicturesOf
  <2>5. ArtPart'
    <3>1. CASE a = Video!NoArt
      <4>1. /\ files' \in [DOMAIN files' -> {"new", "old"}]
            /\ \A p \in DOMAIN files \ {art[i].path} : p \in DOMAIN files' /\ files'[p] \in {files[p], "new"}
        BY <1>p, <1>a DEF ArtTypes
      <4>2. crossed \subseteq crossed' \cup {i} /\ (a.manual => kind = "movie")
        BY <2>1, <2>2
      <4>. QED
        BY <1>a, <2>1, <2>2, <3>1, <4>1, <4>2, VideoArtChange
    <3>2. CASE a = art[i]
      <4>1. art \in [Titles -> UNION {ArtOf(j) : j \in Titles}]
        BY <1>p DEF ArtTypes, Artwork
      <4>2. art' = art
        BY <2>2, <3>2, <4>1
      <4>. QED
        BY <1>p, <1>a, <2>2, <4>2, ArtRests
    <3>. QED
      BY <1>a, <3>1, <3>2
  <2>6. ManualMarked'
    <3>. SUFFICES ASSUME NEW j \in Ids, art'[j].path = Video!Manual(j) PROVE art'[j].manual
      BY DEF ManualMarked
    <3>1. j \in Titles
      BY DEF Titles
    <3>2. art'[j] = art[j] \/ (j = i /\ art'[j] = Video!NoArt)
      BY <1>a, <2>3, <3>1
    <3>. QED
      BY <1>h, <2>4, <3>2 DEF ManualMarked
  <2>7. UploadStands'
    <3>1. upload'.at \in {"named", "read"} /\ upload'.alone => Fresh(Video!Manual(upload.id))'
      BY <1>h, <1>a DEF UploadStands, Fresh
    <3>2. ASSUME upload.at = "stored"
          PROVE  /\ upload.old = Video!Tmdb(upload.id)
                 /\ upload.id \notin crossed' =>
                       art'[upload.id].manual /\ art'[upload.id].path = Video!Manual(upload.id)
      <4>1. upload.id \in Titles
        BY <1>p, <3>2, UploadKnown DEF Video!None
      <4>2. upload.id = i => upload.id \in crossed'
        BY <1>h, <1>a, <2>2, <3>2 DEF HandsApart, Video!None
      <4>3. upload.id # i => art'[upload.id] = art[upload.id]
        BY <2>3, <4>1
      <4>. QED
        BY <1>h, <2>2, <3>2, <4>2, <4>3 DEF UploadStands
    <3>. QED
      BY <1>a, <3>1, <3>2 DEF UploadStands
  <2>. QED
    BY <2>2, <2>3, <2>5, <2>6, <2>7
<1>b. ASSUME taking' = Video!NoTaking, UNCHANGED <<kind, upload>>,
             ManualMarked', UploadStands'
      PROVE  HandsPart'
  <2>1. /\ taking'.at = Video!None
        /\ taking' = [at |-> taking'.at, id |-> taking'.id, old |-> taking'.old]
    BY <1>b, <1>e
  <2>2. HandsTyped'
    BY <1>b, <1>h, <2>1 DEF HandsTyped
  <2>3. HandsApart' /\ TakingStands'
    BY <2>1 DEF HandsApart, TakingStands
  <2>. QED
    BY <1>b, <2>2, <2>3 DEF HandsPart
<1>2. ASSUME Video!UnmatchArt PROVE VideoInv'
  <2>1. /\ UNCHANGED <<kind, pc, todo, held, listed, row, word, files, upload>>
        /\ taking.at = "unmatched" /\ taking' = Video!NoTaking /\ Video!Reach(taking.id, Video!NoArt)
    BY <1>2 DEF Video!UnmatchArt, Video!Handled, Video!worker
  <2>2. taking.id \in Titles
    BY <1>p, <1>n, <2>1, TakingKnown
  <2>3. Video!NoArt \in ArtOf(taking.id)
    BY <2>2, PicturesOf
  <2>4. ArtPart' /\ ManualMarked' /\ UploadStands'
    BY <1>a, <1>n, <2>1, <2>3
  <2>5. HandsPart'
    BY <1>b, <2>1, <2>4
  <2>. QED
    BY <1>r, <2>1, <2>4, <2>5, VideoPartsNext
<1>3. ASSUME Video!ClearRow PROVE VideoInv'
  <2>. DEFINE i == taking.id
              a == IF art[i].manual THEN Video!NoArt ELSE art[i]
              next == [taking EXCEPT !.at = "deleted"]
  <2>1. /\ UNCHANGED <<kind, pc, todo, held, listed, row, word, files, upload>>
        /\ taking.at = "read" /\ taking' = next /\ Video!Reach(i, a)
    BY <1>3 DEF Video!ClearRow, Video!Handled, Video!worker
  <2>2. i \in Titles /\ i \in Ids /\ taking.at # Video!None /\ kind = "movie" /\ taking.old \in Pictures(i)
    BY <1>p, <2>1, TakingKnown DEF Video!None
  <2>3. /\ a \in ArtOf(i) /\ ~a.manual /\ (a = Video!NoArt \/ a = art[i])
    BY <1>p, <2>2, PicturesOf DEF ArtTypes
  <2>. HIDE DEF a
  <2>4. /\ ArtPart' /\ ManualMarked' /\ UploadStands' /\ crossed \subseteq crossed' /\ art'[i] = a
    BY <1>a, <2>1, <2>2, <2>3
  <2>5. next = [at |-> "deleted", id |-> i, old |-> taking.old]
    BY <1>h
  <2>. HIDE DEF next
  <2>6. /\ taking'.at = "deleted" /\ taking'.id = i /\ taking'.old = taking.old
        /\ taking' = [at |-> taking'.at, id |-> taking'.id, old |-> taking'.old]
    BY <2>1, <2>5
  <2>7. HandsTyped'
    BY <1>h, <2>1, <2>2, <2>6 DEF HandsTyped
  <2>8. HandsApart'
    BY <1>h, <2>1, <2>2, <2>4, <2>6 DEF HandsApart
  <2>9. TakingStands'
    BY <1>h, <2>2, <2>3, <2>4, <2>6 DEF TakingStands
  <2>. QED
    BY <1>r, <2>1, <2>4, <2>7, <2>8, <2>9, VideoPartsNext DEF HandsPart
<1>4. ASSUME Video!ClearFile PROVE VideoInv'
  <2>. DEFINE i == taking.id
              p == taking.old
  <2>1. /\ UNCHANGED <<kind, pc, todo, held, listed, row, word, art, upload, crossed>>
        /\ taking.at = "deleted" /\ taking' = Video!NoTaking /\ files' = Video!Without(p)
    BY <1>4 DEF Video!ClearFile, Video!Handled, Video!worker
  <2>2. i \in Titles /\ i \in Ids /\ taking.at # Video!None /\ p \in Pictures(i)
    BY <1>p, <1>n, <2>1, TakingKnown
  <2>3. i \notin crossed => p \in {Video!NoPicture, Video!Manual(i)} /\ ~art[i].manual
    BY <1>h, <2>1, <2>2 DEF TakingStands
  <2>4. ASSUME NEW j \in Titles \ crossed PROVE art[j].path \notin {p} \ {Video!NoPicture}
    <3>1. CASE j = i
      BY <1>h, <2>2, <2>3, <3>1 DEF ManualMarked
    <3>2. CASE j # i
      <4>1. art[j].path \in Pictures(j)
        BY <1>p DEF ArtTypes, ArtOf
      <4>. QED
        BY <2>2, <3>2, <4>1, PicturesApart
    <3>. QED
      BY <3>1, <3>2
  <2>5. pc = "record" /\ held.id \notin crossed => Video!Tmdb(held.id) # p
    <3>. SUFFICES ASSUME pc = "record", held.id \notin crossed PROVE Video!Tmdb(held.id) # p
      OBVIOUS
    <3>1. held.id \in Ids /\ held.id \in Titles
      BY <1>p DEF JobPart, OneJob, Placing, Titles
    <3>2. CASE held.id = i
      BY <2>3, <3>2 DEF Video!Tmdb, Video!Manual, Video!NoPicture
    <3>3. CASE held.id # i
      BY <2>2, <3>1, <3>3, PicturesApart
    <3>. QED
      BY <3>2, <3>3
  <2>6. ArtPart'
    BY <1>p, <2>1, <2>4, <2>5, PictureRemoved
  <2>7. ManualMarked'
    BY <1>h, <2>1 DEF ManualMarked
  <2>8. UploadStands'
    <3>1. upload.at \in {"named", "read"} /\ upload.alone => Fresh(Video!Manual(upload.id))'
      <4>. SUFFICES ASSUME upload.at \in {"named", "read"}, upload.alone
                    PROVE  Fresh(Video!Manual(upload.id))'
        OBVIOUS
      <4>1. Fresh(Video!Manual(upload.id))
        BY <1>h DEF UploadStands
      <4>2. upload.id \in Ids /\ upload.id \in Titles /\ upload.at # Video!None
        BY <1>p, <1>n, UploadKnown
      <4>3. upload.id # i
        BY <1>h, <2>2, <4>2 DEF HandsApart
      <4>4. Video!Manual(upload.id) \in Pictures(upload.id) /\ Video!Manual(upload.id) # Video!NoPicture
        BY <4>2, PicturesOf
      <4>5. Video!Manual(upload.id) # p
        BY <2>2, <4>2, <4>3, <4>4, PicturesApart
      <4>. QED
        BY <2>1, <4>1, <4>5 DEF Fresh, Video!Without
    <3>. QED
      BY <1>h, <2>1, <3>1 DEF UploadStands
  <2>9. HandsPart'
    BY <1>b, <2>1, <2>7, <2>8
  <2>. QED
    BY <1>r, <2>1, <2>6, <2>9, VideoPartsNext
<1>5. ASSUME Video!HandlerFails PROVE VideoInv'
  <2>1. UNCHANGED <<kind, pc, todo, held, listed, row, word, art, files, crossed>>
    BY <1>5 DEF Video!HandlerFails, Video!Handled, Video!worker
  <2>2. ManualMarked'
    BY <1>h, <2>1 DEF ManualMarked
  <2>3. HandsPart'
    <3>1. CASE upload' = Video!NoUpload /\ UNCHANGED taking
      <4>1. /\ upload'.at = Video!None /\ upload'.alone = TRUE
            /\ upload' = [at |-> upload'.at, id |-> upload'.id, old |-> upload'.old, alone |-> upload'.alone]
        BY <1>e, <3>1
      <4>2. HandsTyped'
        BY <1>h, <2>1, <3>1, <4>1 DEF HandsTyped
      <4>3. HandsApart' /\ UploadStands' /\ TakingStands'
        BY <1>h, <1>n, <2>1, <3>1, <4>1 DEF HandsApart, UploadStands, TakingStands
      <4>. QED
        BY <2>2, <4>2, <4>3 DEF HandsPart
    <3>2. CASE taking' = Video!NoTaking /\ UNCHANGED upload
      <4>1. UploadStands'
        BY <1>h, <2>1, <3>2 DEF UploadStands, Fresh
      <4>. QED
        BY <1>b, <2>1, <2>2, <3>2, <4>1
    <3>. QED
      BY <1>5, <3>1, <3>2 DEF Video!HandlerFails
  <2>4. ArtPart'
    BY <1>p, <2>1, ArtRests
  <2>. QED
    BY <1>r, <2>1, <2>3, <2>4, VideoPartsNext
<1>. QED
  BY <1>1, <1>2, <1>3, <1>4, <1>5

(* Pages that only look, and the clock. *)
LEMMA VideoPages ==
  ASSUME VideoInv
  PROVE  /\ \A i \in Ids : Video!ViewShow(i) \/ Video!ViewFilm(i) => VideoInv'
         /\ Video!ViewPerson => VideoInv'
         /\ \A fetch \in queued : Video!CancelQueued(fetch) => VideoInv'
         /\ Video!Age => VideoInv'
<1>p. JobPart /\ RowPart /\ ArtPart /\ HandsPart /\ ArtTypes
  BY VideoParts DEF ArtPart
<1>1. ASSUME UNCHANGED <<kind, pc, todo, held, listed, row, art, files, word, crossed, upload, taking>>
      PROVE  VideoInv'
  <2>1. HandsPart'
    BY <1>1, <1>p, HandsRest DEF Fresh
  <2>. QED
    BY <1>1, <1>p, <2>1, JobRests, RowsRest, ArtRests, VideoPartsNext
<1>2. ASSUME NEW i \in Ids, Video!ViewShow(i) \/ Video!ViewFilm(i) PROVE VideoInv'
  BY <1>1, <1>2 DEF Video!ViewShow, Video!ViewFilm, Video!Seen, Video!Act, Video!Begun, Video!hands, Video!worker, Video!history
<1>3. ASSUME Video!ViewPerson PROVE VideoInv'
  BY <1>1, <1>3 DEF Video!ViewPerson, Video!Seen, Video!Act, Video!Begun, Video!hands, Video!worker, Video!history
<1>4. ASSUME NEW fetch \in queued, Video!CancelQueued(fetch) PROVE VideoInv'
  BY <1>1, <1>4 DEF Video!CancelQueued, Video!Act, Video!Begun, Video!hands, Video!worker, Video!history
<1>5. ASSUME Video!Age PROVE VideoInv'
  <2>1. /\ pc = "idle" /\ UNCHANGED <<kind, pc, todo, held, listed, row, art, word, crossed>>
        /\ files' = [p \in DOMAIN files |-> "old"] /\ upload = Video!NoUpload /\ UNCHANGED <<upload, taking>>
    BY <1>5 DEF Video!Age, Video!worker, Video!history, Video!hands
  <2>2. JobPart' /\ RowPart'
    BY <1>p, <2>1, JobRests, RowsRest
  <2>3. ArtTypes' /\ FilmsOnly' /\ ArtStands' /\ DOMAIN files' = DOMAIN files
    BY <1>p, <2>1 DEF ArtPart, ArtTypes, FilmsOnly, ArtStands
  <2>4. OnItsWay' /\ SweepHeeds'
    BY <2>1 DEF OnItsWay, SweepHeeds
  <2>5. HandsPart'
    <3>1. upload.at \notin {"named", "read"}
      BY <2>1 DEF Video!NoUpload, Video!None
    <3>. QED
      BY <1>p, <2>1, <3>1, HandsRest
  <2>. QED
    BY <2>2, <2>3, <2>4, <2>5, VideoPartsNext DEF ArtPart
<1>. QED
  BY <1>2, <1>3, <1>4, <1>5

(* The sweep deletes nothing a row names: what it did not read is new. *)
LEMMA VideoSweep ==
  ASSUME VideoInv, Star \notin Ids
  PROVE  \A p \in DOMAIN files : Video!SweepFile(p) => VideoInv'
<1>p. JobPart /\ RowPart /\ ArtPart /\ HandsPart /\ ArtTypes /\ ArtStands /\ SweepHeeds /\ FilmsOnly
  BY VideoParts DEF ArtPart
<1>. SUFFICES ASSUME NEW p \in DOMAIN files, Video!SweepFile(p) PROVE VideoInv'
  OBVIOUS
<1>1. /\ pc = "sweep" /\ p \notin listed /\ files[p] = "old" /\ files' = Video!Without(p)
      /\ kind = "movie" => p # Video!Tmdb(Star)
      /\ UNCHANGED <<kind, pc, todo, held, listed, row, art, word, crossed, upload, taking>>
  BY DEF Video!SweepFile, Video!worker, Video!history, Video!hands
<1>2. JobPart' /\ RowPart'
  BY <1>1, <1>p, JobRests, RowsRest
<1>3. DOMAIN files' = DOMAIN files \ {p} /\ \A q \in DOMAIN files \ {p} : files'[q] = files[q]
  BY <1>1 DEF Video!Without
<1>4. files' \in [DOMAIN files' -> {"new", "old"}]
  BY <1>1, <1>p DEF ArtTypes, Video!Without
<1>5. ASSUME NEW i \in Titles \ crossed PROVE art[i].path \in DOMAIN files' \cup {Video!NoPicture}
  <2>1. art[i].path \in DOMAIN files \cup {Video!NoPicture} /\ Heeded(i)
    BY <1>1, <1>p DEF ArtStands, SweepHeeds
  <2>2. CASE art[i].path = p /\ p # Video!NoPicture
    <3>1. kind = "movie" /\ i = Star
      BY <1>1, <2>1, <2>2 DEF Heeded
    <3>2. art[i].path \in Pictures(Star)
      BY <1>p, <3>1 DEF ArtTypes, ArtOf
    <3>3. art[i].path \in {Video!NoPicture, Video!Tmdb(Star)}
      BY <3>2 DEF Pictures
    <3>. QED
      BY <1>1, <2>2, <3>1, <3>3
  <2>. QED
    BY <1>3, <2>1, <2>2
<1>6. ArtStands'
  BY <1>1, <1>p, <1>5 DEF ArtStands
<1>7. SweepHeeds'
  <2>. SUFFICES ASSUME NEW i \in Titles \ crossed PROVE Heeded(i)'
    BY <1>1 DEF SweepHeeds
  <2>1. Heeded(i)
    BY <1>1, <1>p DEF SweepHeeds
  <2>2. CASE art[i].path = Video!NoPicture
    BY <1>1, <2>2 DEF Heeded
  <2>3. CASE art[i].path # Video!NoPicture
    <3>1. art[i].path \in DOMAIN files \ {p}
      BY <1>3, <1>5, <2>3
    <3>2. files'[art[i].path] = files[art[i].path]
      BY <1>3, <3>1
    <3>. QED
      BY <1>1, <2>1, <3>2 DEF Heeded
  <2>. QED
    BY <2>2, <2>3
<1>8. ArtTypes' /\ FilmsOnly' /\ OnItsWay'
  BY <1>1, <1>4, <1>p DEF ArtTypes, FilmsOnly, OnItsWay
<1>9. HandsPart'
  <2>1. \A q : Fresh(q) => Fresh(q)'
    BY <1>1, <1>3 DEF Fresh
  <2>. QED
    BY <1>1, <1>p, <2>1, HandsRest
<1>. QED
  BY <1>2, <1>6, <1>7, <1>8, <1>9, VideoPartsNext DEF ArtPart

LEMMA VideoTurn ==
  ASSUME [Next]_vars, part' = "video" PROVE part = "video" /\ [Video!Next]_(Video!vars)
<1>1. CASE Next
  BY <1>1 DEF Next, Turn
<1>2. CASE UNCHANGED vars
  BY <1>2 DEF vars, sharedVars, videoVars, Video!vars, Video!worker, Video!fetches, Video!hands, Video!history
<1>. QED
  BY <1>1, <1>2

LEMMA VideoNext ==
  ASSUME "skipped" \notin Ids, Star \notin Ids, VideoInv, [Video!Next]_(Video!vars)
  PROVE  VideoInv'
<1>1. CASE UNCHANGED Video!vars
  <2>1. UNCHANGED <<kind, pc, todo, held, listed, row, art, files, word, crossed, upload, taking>>
    BY <1>1 DEF Video!vars, Video!worker, Video!hands, Video!history
  <2>2. HandsPart'
    BY <2>1, VideoParts, HandsRest DEF Fresh
  <2>. QED
    BY <2>1, <2>2, VideoParts, JobRests, RowsRest, ArtRests, VideoPartsNext
<1>2. CASE Video!Next
  <2>1. CASE \/ Video!BeginMatch \/ Video!SweepList \/ Video!EndMatch
             \/ \E g \in todo, found \in Ids \cup {Video!None} : Video!Search(g, found)
    BY <2>1, VideoMatching
  <2>2. CASE \/ Video!GateShow \/ Video!GateFilm \/ Video!EndFetch \/ Video!FetchFails
             \/ Video!CancelJob \/ Video!BeginPerson \/ Video!Restart
             \/ \E i \in Ids : \/ Video!BeginShow(i) \/ Video!BeginFilm(i)
                               \/ Video!BeginBackdrop(i) \/ Video!BeginCast(i)
    BY <2>2, VideoFetches
  <2>3. CASE Video!Record \/ \E ok \in BOOLEAN : Video!Download(ok) \/ Video!Cast(ok)
    BY <2>3, VideoPlacing
  <2>4. CASE Video!StoreShow \/ Video!StoreFilm
    BY <2>4, VideoStores
  <2>5. CASE \E p \in DOMAIN files : Video!SweepFile(p)
    BY <2>5, VideoSweep
  <2>6. CASE \/ \E f \in Files : Video!SkipShow(f) \/ Video!SkipFilm(f) \/ Video!Rematch(f)
             \/ \E f \in Files, i \in Ids : Video!ApproveShow(f, i) \/ Video!ApproveFilm(f, i)
             \/ \E i \in Ids : Video!Unmatch(i)
    BY <2>6, VideoDecisions
  <2>7. CASE \/ \E i \in Ids : Video!Upload(i) \/ Video!ClearArt(i)
             \/ Video!UploadFile \/ Video!UploadRead \/ Video!UploadRow \/ Video!UploadRemove
             \/ Video!UnmatchArt \/ Video!ClearRow \/ Video!ClearFile \/ Video!HandlerFails
    BY <2>7, VideoUpload, VideoTaking
  <2>8. CASE \/ \E i \in Ids : Video!ViewShow(i) \/ Video!ViewFilm(i)
             \/ Video!ViewPerson \/ (\E fetch \in queued : Video!CancelQueued(fetch)) \/ Video!Age
    BY <2>8, VideoPages
  <2>. QED
    BY <1>2, <2>1, <2>2, <2>3, <2>4, <2>5, <2>6, <2>7, <2>8 DEF Video!Next
<1>. QED
  BY <1>1, <1>2

(* What a person decides of episodes and films stands, an uploaded picture *)
(* stays a film's, and a picture a row names is on disk, through every     *)
(* match job, fetch, sweep and restart (internal/tmdb/matcher.go,          *)
(* internal/tmdb/movie.go, web/handlers_tv.go, web/handlers_movie.go): a   *)
(* job lists open rows only, a person's choice for what it holds is not    *)
(* counted on, its sweep reads the names after the last download, and an   *)
(* upload alone leaves the row naming the file it wrote.  An upload of a   *)
(* picture that overlaps a clear or an unmatch of it is not counted on.    *)
(* The hypotheses: the mark for a skipped title is not the id of one, and  *)
(* a person is not a title.                                                *)
THEOREM DecisionsAreKept ==
  ASSUME "skipped" \notin Ids, Star \notin Ids
  PROVE  Spec => [](part = "video" => Video!DecisionsStand)
<1>1. Video!Init => VideoInv
  BY VideoInit
<1>2. VideoInv /\ [Video!Next]_(Video!vars) => VideoInv'
  BY VideoNext
<1>3. VideoInv => Video!DecisionsStand
  BY DEF VideoInv
<1>. DEFINE Inv == part = "video" => VideoInv
<1>4. Init => Inv
  BY <1>1 DEF Init, Begun
<1>5. Inv /\ [Next]_vars => Inv'
  <2>1. ASSUME [Next]_vars, part' = "video" PROVE part = "video" /\ [Video!Next]_(Video!vars)
    BY <2>1, VideoTurn
  <2>. QED
    BY <2>1, <1>2
<1>6. Inv => (part = "video" => Video!DecisionsStand)
  BY <1>3
<1>. QED
  BY <1>4, <1>5, <1>6, PTL DEF Spec
-----------------------------------------------------------------------------
(* The music library.  Rows and albums are finitely many, refer to what is *)
(* there, and are told apart by path, artist and number; an operation on   *)
(* them keeps every row's number, path and file unless it says otherwise.  *)
SizeOfLibrary == \A S : Music!Cardinality(S) = Cardinality(S)
LEMMA MusicSizes == SizeOfLibrary
BY DEF SizeOfLibrary, Music!Cardinality, Cardinality

LEMMA ImageOfFinite ==
  ASSUME NEW S, IsFiniteSet(S), NEW f
  PROVE  /\ IsFiniteSet({f[x] : x \in S}) /\ Cardinality({f[x] : x \in S}) \in Nat
         /\ Cardinality({f[x] : x \in S}) <= Cardinality(S)
<1>. DEFINE T == {f[x] : x \in S}
            g == [x \in S |-> f[x]]
<1>1. g \in Surjection(S, T)
  BY DEF Surjection
<1>2. IsFiniteSet(T) /\ Cardinality(T) <= Cardinality(S)
  BY <1>1, FS_Surjection, Zenon
<1>3. Cardinality(T) \in Nat
  BY <1>2, FS_CardinalityType
<1>. QED
  BY <1>2, <1>3
LEMMA NumbersAreFinite ==
  ASSUME NEW S, IsFiniteSet(S)
  PROVE  /\ IsFiniteSet({r.id : r \in S}) /\ Cardinality({r.id : r \in S}) \in Nat
         /\ Cardinality({r.id : r \in S}) <= Cardinality(S)
<1>. DEFINE f == [r \in S |-> r.id]
            T == {f[x] : x \in S}
<1>1. T = {r.id : r \in S}
  OBVIOUS
<1>. HIDE DEF f
<1>2. IsFiniteSet(T) /\ Cardinality(T) \in Nat /\ Cardinality(T) <= Cardinality(S)
  BY ImageOfFinite
<1>. QED
  BY <1>1, <1>2
LEMMA NewNumber ==
  ASSUME NEW S, IsFiniteSet(S)
  PROVE  Music!NewId(S) \in Nat /\ \A r \in S : r.id # Music!NewId(S)
<1>. DEFINE ids == {r.id : r \in S}
            n == Cardinality(S)
            D == 1 .. n + 1
<1>1. IsFiniteSet(ids) /\ Cardinality(ids) \in Nat /\ Cardinality(ids) <= n /\ n \in Nat
  BY NumbersAreFinite, FS_CardinalityType
<1>. HIDE DEF n
<1>2. \E i \in D : i \notin ids
  <2>1. SUFFICES ASSUME D \subseteq ids PROVE FALSE
    OBVIOUS
  <2>2. Cardinality(D) = n + 1
    BY <1>1, FS_Interval
  <2>3. Cardinality(D) <= Cardinality(ids)
    BY <1>1, <2>1, FS_Subset
  <2>. QED
    BY <1>1, <2>2, <2>3
<1>3. Music!NewId(S) = CHOOSE i \in D : i \notin ids
  BY MusicSizes DEF Music!NewId, SizeOfLibrary, n
<1>4. Music!NewId(S) \in D /\ Music!NewId(S) \notin ids
  BY <1>2, <1>3, Zenon
<1>. QED
  BY <1>1, <1>4

RowFields == {"id", "path", "seen", "artist", "album"}
PlayFields == {"track", "artist", "album", "of"}
StoreFields == {"rows", "albums", "plays"}
Shelf(st) ==
    /\ DOMAIN st = StoreFields
    /\ IsFiniteSet(st.rows) /\ IsFiniteSet(st.albums)
    /\ \A r \in st.rows : DOMAIN r = RowFields /\ r.path \in Paths
    /\ \A r \in st.rows : \E a \in st.albums : a.id = r.album
    /\ \A r, s \in st.rows : r.path = s.path \/ r.id = s.id => r = s
    /\ \A a, b \in st.albums : a.id = b.id \/ a.artist = b.artist => a = b
    /\ \A x \in st.plays : /\ DOMAIN x = PlayFields
                           /\ \E r \in st.rows : r.id = x.track
                           /\ \E a \in st.albums : a.id = x.album
Alike(r, s) == r.id = s.id /\ r.path = s.path /\ r.seen = s.seen
SameFiles(R, S) ==
    /\ \A r \in R : \E s \in S : Alike(r, s)
    /\ \A s \in S : \E r \in R : Alike(r, s)
LEMMA SameFilesChain ==
  ASSUME NEW R, NEW S, NEW T, SameFiles(R, S), SameFiles(S, T) PROVE SameFiles(R, T)
BY DEF SameFiles, Alike
LEMMA SameFilesSelf == ASSUME NEW R PROVE SameFiles(R, R)
BY DEF SameFiles, Alike

LEMMA Rebound ==
  ASSUME NEW r, DOMAIN r = RowFields, NEW v
  PROVE  LET s == [r EXCEPT !.album = v] IN Alike(r, s) /\ s.album = v /\ DOMAIN s = RowFields
BY DEF RowFields, Alike

Rehomed(R, A, v) == {IF r.album \in A THEN [r EXCEPT !.album = v] ELSE r : r \in R}
OnlyRows(R) == \A r, s \in R : r.path = s.path \/ r.id = s.id => r = s
Follow(R, S, A, v) ==
    \A s \in S : \E r \in R :
        /\ Alike(r, s) /\ DOMAIN s = RowFields
        /\ r.album \in A => s.album = v
        /\ r.album \notin A => s.album = r.album
LEMMA RowsRebound ==
  ASSUME NEW R, IsFiniteSet(R), \A r \in R : DOMAIN r = RowFields, NEW A, NEW v, OnlyRows(R)
  PROVE  LET S == Rehomed(R, A, v) IN
         IsFiniteSet(S) /\ SameFiles(R, S) /\ Follow(R, S, A, v) /\ OnlyRows(S)
<1>. DEFINE f == [r \in R |-> IF r.album \in A THEN [r EXCEPT !.album = v] ELSE r]
            S == {f[r] : r \in R}
<1>1. S = Rehomed(R, A, v)
  BY DEF Rehomed
<1>2. ASSUME NEW r \in R
      PROVE  /\ Alike(r, f[r]) /\ DOMAIN f[r] = RowFields
             /\ f[r].album = IF r.album \in A THEN v ELSE r.album
  <2>1. CASE r.album \in A
    <3>1. f[r] = [r EXCEPT !.album = v]
      BY <2>1
    <3>. QED
      BY <2>1, <3>1, Rebound
  <2>2. CASE r.album \notin A
    BY <2>2 DEF Alike
  <2>. QED
    BY <2>1, <2>2
<1>. HIDE DEF f
<1>3. IsFiniteSet(S)
  BY ImageOfFinite
<1>4. SameFiles(R, S)
  BY <1>2 DEF SameFiles
<1>5. \A s \in S : \E r \in R : s = f[r]
  OBVIOUS
<1>6. ASSUME NEW s \in S, NEW t \in S, s.path = t.path \/ s.id = t.id PROVE s = t
  <2>1. PICK r \in R : s = f[r]
    BY <1>5
  <2>2. PICK q \in R : t = f[q]
    BY <1>5
  <2>3. r.path = q.path \/ r.id = q.id
    BY <1>2, <1>6, <2>1, <2>2 DEF Alike
  <2>. QED
    BY <2>1, <2>2, <2>3 DEF OnlyRows
<1>. HIDE DEF S
<1>7. IsFiniteSet(S) /\ SameFiles(R, S) /\ Follow(R, S, A, v) /\ OnlyRows(S)
  BY <1>2, <1>3, <1>4, <1>5, <1>6 DEF Follow, OnlyRows
<1>. QED
  BY <1>1, <1>7

Numbered(R, S) == \A r \in R : \E s \in S : s.id = r.id
LEMMA FileTaken ==
  ASSUME NEW st, Shelf(st), NEW p \in Paths, NEW f
  PROVE  LET n == Music!WithFile(st, p, f) IN
         /\ Shelf(n) /\ Numbered(st.rows, n.rows)
         /\ \A r \in st.rows : r.path # p => r \in n.rows
         /\ \E r \in n.rows : r.path = p /\ r.seen = f
<1>. DEFINE name == Music!AlbumArtist(f)
            same == {a \in st.albums : a.artist = name}
            id == IF same = {} THEN Music!NewId(st.albums) ELSE (CHOOSE a \in same : TRUE).id
            old == {r \in st.rows : r.path = p}
            num == IF old = {} THEN Music!NewId(st.rows) ELSE (CHOOSE r \in old : TRUE).id
            row1 == [id |-> num, path |-> p, seen |-> f, artist |-> f.artist, album |-> id]
            alb == [id |-> id, artist |-> name, comp |-> Music!Marked(f)]
            albums1 == (st.albums \ same) \cup {alb}
            rows1 == (st.rows \ old) \cup {row1}
            n == Music!WithFile(st, p, f)
<1>1. n.albums = albums1 /\ n.rows = rows1 /\ n.plays = st.plays /\ DOMAIN n = StoreFields
  <2>1. n = [albums |-> albums1, rows |-> rows1, plays |-> st.plays]
    BY Zenon DEF Music!WithFile
  <2>. HIDE DEF n, albums1, rows1
  <2>. QED
    BY <2>1 DEF StoreFields
<1>. HIDE DEF n
<1>2. /\ row1.id = num /\ row1.path = p /\ row1.seen = f /\ row1.album = id /\ DOMAIN row1 = RowFields
      /\ alb.id = id /\ alb.artist = name
  BY DEF RowFields
<1>. HIDE DEF row1, alb
<1>3. /\ \A a \in st.albums \ same : a.id # id /\ a.artist # name
      /\ \A a \in same : a.id = id
  <2>1. CASE same = {}
    <3>1. \A a \in st.albums : a.id # Music!NewId(st.albums)
      BY NewNumber, Zenon DEF Shelf
    <3>. QED
      BY <2>1, <3>1
  <2>2. CASE same # {}
    <3>. DEFINE b == CHOOSE a \in same : TRUE
    <3>1. b \in same
      BY <2>2
    <3>2. id = b.id
      BY <2>2
    <3>. HIDE DEF b
    <3>3. b \in st.albums /\ b.artist = name
      BY <3>1
    <3>4. \A a \in st.albums : a.id = b.id \/ a.artist = b.artist => a = b
      BY <3>3, Zenon DEF Shelf
    <3>5. \A a \in same : a = b
      BY <3>3, <3>4
    <3>6. \A a \in st.albums \ same : a.id # b.id /\ a.artist # name
      BY <3>1, <3>4
    <3>. QED
      BY <3>2, <3>5, <3>6
  <2>. QED
    BY <2>1, <2>2
<1>4. /\ \A r \in st.rows \ old : r.id # num /\ r.path # p
      /\ \A r \in old : r.id = num
  <2>1. CASE old = {}
    <3>1. \A r \in st.rows : r.id # Music!NewId(st.rows)
      BY NewNumber, Zenon DEF Shelf
    <3>. QED
      BY <2>1, <3>1
  <2>2. CASE old # {}
    <3>. DEFINE b == CHOOSE r \in old : TRUE
    <3>1. b \in old
      BY <2>2
    <3>2. num = b.id
      BY <2>2
    <3>. HIDE DEF b
    <3>3. b \in st.rows /\ b.path = p
      BY <3>1
    <3>4. \A r \in st.rows : r.path = b.path \/ r.id = b.id => r = b
      BY <3>3, Zenon DEF Shelf
    <3>5. \A r \in old : r = b
      BY <3>3, <3>4
    <3>6. \A r \in st.rows \ old : r.id # b.id /\ r.path # p
      BY <3>1, <3>4
    <3>. QED
      BY <3>2, <3>5, <3>6
  <2>. QED
    BY <2>1, <2>2
<1>. HIDE DEF id
<1>. HIDE DEF num
<1>5. IsFiniteSet(rows1) /\ IsFiniteSet(albums1)
  <2>1. IsFiniteSet(st.rows \ old) /\ IsFiniteSet(st.albums \ same)
    <3>1. IsFiniteSet(st.rows) /\ IsFiniteSet(st.albums)
      BY Zenon DEF Shelf
    <3>2. st.rows \ old \in SUBSET st.rows /\ st.albums \ same \in SUBSET st.albums
      OBVIOUS
    <3>. QED
      BY <3>1, <3>2, FS_Subset
  <2>2. IsFiniteSet((st.rows \ old) \cup {row1}) /\ IsFiniteSet((st.albums \ same) \cup {alb})
    BY <2>1, FS_AddElement
  <2>. QED
    BY <2>2
<1>6. \A a \in st.albums : \E b \in albums1 : b.id = a.id
  BY <1>2, <1>3
<1>7. \A r \in st.rows : \E s \in rows1 : s.id = r.id
  BY <1>2, <1>4
<1>. HIDE DEF same, old
<1>8. /\ \A r \in st.rows : DOMAIN r = RowFields /\ r.path \in Paths /\ \E a \in st.albums : a.id = r.album
      /\ \A r, s \in st.rows : r.path = s.path \/ r.id = s.id => r = s
      /\ \A a, b \in st.albums : a.id = b.id \/ a.artist = b.artist => a = b
      /\ \A x \in st.plays : /\ DOMAIN x = PlayFields
                             /\ \E r \in st.rows : r.id = x.track
                             /\ \E a \in st.albums : a.id = x.album
  BY DEF Shelf
<1>9. \A r \in rows1 : DOMAIN r = RowFields /\ r.path \in Paths
  BY <1>2, <1>8
<1>10. \A r \in rows1 : \E a \in albums1 : a.id = r.album
  <2>1. alb \in albums1
    OBVIOUS
  <2>. QED
    BY <1>2, <1>6, <1>8, <2>1
<1>11. \A r, s \in rows1 : r.path = s.path \/ r.id = s.id => r = s
  BY <1>2, <1>4, <1>8
<1>12. \A a, b \in albums1 : a.id = b.id \/ a.artist = b.artist => a = b
  BY <1>2, <1>3, <1>8
<1>13. \A x \in st.plays : /\ DOMAIN x = PlayFields
                           /\ \E r \in rows1 : r.id = x.track
                           /\ \E a \in albums1 : a.id = x.album
  BY <1>6, <1>7, <1>8
<1>14. Shelf(n)
  BY <1>1, <1>5, <1>9, <1>10, <1>11, <1>12, <1>13 DEF Shelf
<1>15. \A r \in st.rows : r.path # p => r \in rows1
  BY DEF old
<1>16. \E r \in rows1 : r.path = p /\ r.seen = f
  BY <1>2
<1>. QED
  BY <1>1, <1>7, <1>14, <1>15, <1>16 DEF n, Numbered

(* What a promotion leaves. *)
LEMMA PromotionKeeps ==
  ASSUME NEW st, Shelf(st), NEW a
  PROVE  LET n == Music!Promoted(st, a) IN Shelf(n) /\ SameFiles(st.rows, n.rows)
<1>. DEFINE own == Music!On(st.rows, a)
            other == {v \in st.albums : v.artist = Music!VA /\ v.id # a}
            filled == {v \in other : Music!On(st.rows, v.id) # {}}
            goal == IF filled # {} THEN (CHOOSE v \in filled : TRUE).id ELSE a
            kept == {v \in st.albums : v.id # goal /\ v \notin other \ filled}
            fragments == {v.id : v \in {w \in kept : w.id # a /\ Music!Colocated(st, {a, goal}, w.id)}}
            merge == fragments \cup (IF goal = a THEN {} ELSE {a})
            alb == [id |-> goal, artist |-> Music!VA, comp |-> TRUE]
            albums1 == kept \cup {alb}
            rows1 == {IF r.album \in merge THEN [r EXCEPT !.album = goal] ELSE r : r \in st.rows}
            plays1 == {x \in st.plays : x.album \notin {v.id : v \in other \ filled}}
            n == Music!Promoted(st, a)
<1>1. \/ n = st
      \/ /\ own # {} /\ n.albums = albums1 /\ n.rows = rows1 /\ n.plays = plays1
         /\ DOMAIN n = StoreFields
  <2>. DEFINE most == Music!Max({Music!Cardinality({r \in own : r.artist = x}) :
                                   x \in {r.artist : r \in own}} \cup {0})
  <2>0. n = IF own = {} \/ 2 * most > Music!Cardinality(own) THEN st
            ELSE [albums |-> albums1, rows |-> rows1, plays |-> plays1]
    BY DEF Music!Promoted
  <2>. HIDE DEF most
  <2>1. n = st \/ (own # {} /\ n = [albums |-> albums1, rows |-> rows1, plays |-> plays1])
    BY <2>0, Zenon
  <2>. HIDE DEF n, own, albums1, rows1, plays1
  <2>. QED
    BY <2>1 DEF StoreFields
<1>. HIDE DEF n
<1>2. CASE n = st
  BY <1>2, SameFilesSelf DEF n
<1>3. CASE /\ own # {} /\ n.albums = albums1 /\ n.rows = rows1 /\ n.plays = plays1
           /\ DOMAIN n = StoreFields
  <2>1. /\ \A r \in st.rows : DOMAIN r = RowFields /\ r.path \in Paths
        /\ \A r \in st.rows : \E b \in st.albums : b.id = r.album
        /\ \A r, s \in st.rows : r.path = s.path \/ r.id = s.id => r = s
        /\ \A b, c \in st.albums : b.id = c.id \/ b.artist = c.artist => b = c
        /\ \A x \in st.plays : /\ DOMAIN x = PlayFields
                               /\ \E r \in st.rows : r.id = x.track
                               /\ \E b \in st.albums : b.id = x.album
        /\ IsFiniteSet(st.rows) /\ IsFiniteSet(st.albums)
    BY Zenon DEF Shelf
  <2>2. alb.id = goal /\ alb.artist = Music!VA
    OBVIOUS
  <2>. HIDE DEF alb
  <2>3. filled # {} => \E v \in filled : goal = v.id /\ \A w \in filled : w = v
    <3>1. ASSUME filled # {} PROVE \E v \in filled : goal = v.id
      <4>. DEFINE v == CHOOSE w \in filled : TRUE
      <4>1. v \in filled
        BY <3>1
      <4>2. goal = v.id
        BY <3>1
      <4>. QED
        BY <4>1, <4>2
    <3>2. \A v, w \in filled : v = w
      BY <2>1
    <3>. QED
      BY <3>1, <3>2
  <2>4. filled = {} => goal = a
    OBVIOUS
  <2>. HIDE DEF goal
  <2>5. \A v \in kept : v.artist # Music!VA
    <3>1. SUFFICES ASSUME NEW v \in kept, v.artist = Music!VA PROVE FALSE
      OBVIOUS
    <3>2. v \in st.albums /\ v.id # goal /\ v \notin other \ filled
      OBVIOUS
    <3>3. CASE filled = {}
      BY <2>4, <3>1, <3>2, <3>3
    <3>4. CASE filled # {}
      <4>1. PICK w \in filled : goal = w.id
        BY <2>3, <3>4
      <4>2. w \in st.albums /\ w.artist = Music!VA
        OBVIOUS
      <4>3. v = w
        BY <2>1, <3>1, <3>2, <4>2
      <4>. QED
        BY <3>2, <4>1, <4>3
    <3>. QED
      BY <3>3, <3>4
  <2>6. \A b \in st.albums : b \notin other \ filled => \E c \in albums1 : c.id = b.id
    BY <2>2
  <2>7. \A r \in st.rows : \E c \in albums1 : c.id = r.album
    <3>1. SUFFICES ASSUME NEW r \in st.rows PROVE \E c \in albums1 : c.id = r.album
      OBVIOUS
    <3>2. PICK b \in st.albums : b.id = r.album
      BY <2>1
    <3>3. r \in Music!On(st.rows, b.id)
      BY <3>2 DEF Music!On
    <3>4. b \notin other \ filled
      BY <3>3
    <3>. QED
      BY <2>6, <3>2, <3>4
  <2>8. \A b, c \in albums1 : b.id = c.id \/ b.artist = c.artist => b = c
    <3>1. \A b \in kept : b \in st.albums /\ b.id # goal
      OBVIOUS
    <3>. HIDE DEF kept
    <3>. QED
      BY <2>1, <2>2, <2>5, <3>1
  <2>9. IsFiniteSet(albums1)
    <3>1. kept \in SUBSET st.albums
      OBVIOUS
    <3>. HIDE DEF kept
    <3>2. IsFiniteSet(kept)
      BY <2>1, <3>1, FS_Subset
    <3>. QED
      BY <3>2, FS_AddElement
  <2>10. \A x \in plays1 : x \in st.plays /\ \E c \in albums1 : c.id = x.album
    <3>1. SUFFICES ASSUME NEW x \in plays1 PROVE \E c \in albums1 : c.id = x.album
      OBVIOUS
    <3>2. PICK b \in st.albums : b.id = x.album
      BY <2>1
    <3>3. b \notin other \ filled
      BY <3>2
    <3>. QED
      BY <2>6, <3>2, <3>3
  <2>. HIDE DEF albums1, plays1, merge, kept, filled, other
  <2>11. /\ IsFiniteSet(rows1) /\ SameFiles(st.rows, rows1)
         /\ Follow(st.rows, rows1, merge, goal) /\ OnlyRows(rows1)
    <3>1. rows1 = Rehomed(st.rows, merge, goal)
      BY DEF Rehomed
    <3>2. OnlyRows(st.rows)
      BY <2>1 DEF OnlyRows
    <3>. HIDE DEF rows1
    <3>. QED
      BY <2>1, <3>1, <3>2, RowsRebound
  <2>. HIDE DEF rows1
  <2>12. \A s \in rows1 : DOMAIN s = RowFields /\ s.path \in Paths
    BY <2>1, <2>11 DEF Alike, Follow
  <2>13. \A s \in rows1 : \E c \in albums1 : c.id = s.album
    <3>1. \E c \in albums1 : c.id = goal
      BY <2>2 DEF albums1
    <3>. QED
      BY <2>7, <2>11, <3>1 DEF Follow
  <2>14. \A x \in plays1 : /\ DOMAIN x = PlayFields
                           /\ \E r \in rows1 : r.id = x.track
                           /\ \E c \in albums1 : c.id = x.album
    BY <2>1, <2>10, <2>11 DEF SameFiles, Alike
  <2>15. Shelf(n)
    BY <1>3, <2>8, <2>9, <2>11, <2>12, <2>13, <2>14 DEF Shelf, OnlyRows
  <2>. QED
    BY <1>3, <2>11, <2>15 DEF n
<1>. QED
  BY <1>1, <1>2, <1>3

(* The stores after each candidate, and after each file. *)
Promotions(st, ids, m, g) ==
    g = [n \in 0 .. m |-> IF n = 0 THEN st ELSE Music!Promoted(g[n - 1], ids[n])]
LEMMA PromotionsExist ==
  ASSUME NEW st, NEW ids, NEW m \in Nat PROVE \E g : Promotions(st, ids, m, g)
<1>. DEFINE T == {k \in Nat : ~ \E g : Promotions(st, ids, k, g)}
<1>1. SUFFICES ASSUME T # {} PROVE FALSE
  OBVIOUS
<1>2. PICK k \in T : \A n \in T : k <= n
  BY <1>1, Least
<1>3. CASE k = 0
  <2>. DEFINE h == [n \in 0 .. 0 |-> st]
  <2>1. h = [n \in 0 .. 0 |-> IF n = 0 THEN st ELSE Music!Promoted(h[n - 1], ids[n])]
    OBVIOUS
  <2>2. Promotions(st, ids, 0, h)
    BY <2>1 DEF Promotions
  <2>. QED
    BY <1>3, <2>2
<1>4. CASE k # 0
  <2>1. k \in Nat /\ k - 1 \in Nat /\ k - 1 \notin T
    BY <1>2, <1>4
  <2>2. PICK g : Promotions(st, ids, k - 1, g)
    BY <2>1
  <2>. DEFINE h == [n \in 0 .. k |-> IF n = k THEN Music!Promoted(g[k - 1], ids[k]) ELSE g[n]]
  <2>3. \A n \in 0 .. k - 1 : g[n] = IF n = 0 THEN st ELSE Music!Promoted(g[n - 1], ids[n])
    BY <2>1, <2>2 DEF Promotions
  <2>4. /\ \A n \in 0 .. k - 1 : h[n] = g[n]
        /\ h[k] = Music!Promoted(g[k - 1], ids[k])
    BY <2>1
  <2>5. ASSUME NEW n \in 0 .. k
        PROVE  h[n] = IF n = 0 THEN st ELSE Music!Promoted(h[n - 1], ids[n])
    <3>1. CASE n = k
      <4>1. h[n - 1] = g[k - 1]
        BY <2>1, <2>4, <3>1
      <4>. QED
        BY <1>4, <2>4, <3>1, <4>1
    <3>2. CASE n = 0
      <4>1. n \in 0 .. k - 1
        BY <1>4, <2>1, <3>2
      <4>. QED
        BY <2>3, <2>4, <3>2, <4>1
    <3>3. CASE n # 0 /\ n # k
      <4>1. n \in 0 .. k - 1 /\ n - 1 \in 0 .. k - 1
        BY <2>1, <3>3
      <4>2. h[n] = Music!Promoted(g[n - 1], ids[n]) /\ h[n - 1] = g[n - 1]
        BY <2>3, <2>4, <3>3, <4>1
      <4>. QED
        BY <3>3, <4>2
    <3>. QED
      BY <3>1, <3>2, <3>3
  <2>6. h = [n \in 0 .. k |-> h[n]]
    OBVIOUS
  <2>. HIDE DEF h
  <2>7. Promotions(st, ids, k, h)
    BY <2>5, <2>6 DEF Promotions
  <2>. QED
    BY <1>2, <2>1, <2>7
<1>. QED
  BY <1>3, <1>4

LEMMA FinalizingKeeps ==
  ASSUME NEW st, Shelf(st)
  PROVE  LET n == Music!Finalized(st) IN Shelf(n) /\ SameFiles(st.rows, n.rows)
<1>. DEFINE S == {a.id : a \in {b \in st.albums :
                    ~b.comp /\ Music!Cardinality({r.artist : r \in Music!On(st.rows, b.id)}) > 1}}
            ids == Music!InOrder(S)
            m == Len(ids)
            after == CHOOSE g : g = [n \in 0 .. m |-> IF n = 0 THEN st
                                                      ELSE Music!Promoted(g[n - 1], ids[n])]
<1>1. Music!Finalized(st) = after[m]
  BY Zenon DEF Music!Finalized
<1>2. m \in Nat
  <2>. DEFINE A == {b \in st.albums :
                      ~b.comp /\ Music!Cardinality({r.artist : r \in Music!On(st.rows, b.id)}) > 1}
  <2>1. IsFiniteSet(st.albums) /\ A \in SUBSET st.albums
    BY DEF Shelf
  <2>. HIDE DEF A
  <2>2. IsFiniteSet(A)
    BY <2>1, FS_Subset
  <2>3. Cardinality({a.id : a \in A}) \in Nat
    BY <2>2, NumbersAreFinite
  <2>4. Cardinality(S) \in Nat
    BY <2>3 DEF A
  <2>. HIDE DEF S
  <2>5. ids = [n \in 1 .. Cardinality(S) |-> Music!Place(S, n)]
    BY MusicSizes DEF Music!InOrder, SizeOfLibrary
  <2>6. Len(ids) = Cardinality(S)
    BY <2>4, <2>5
  <2>. QED
    BY <2>4, <2>6
<1>. HIDE DEF S
<1>. HIDE DEF ids
<1>. HIDE DEF m
<1>3. Promotions(st, ids, m, after)
  <2>1. \E g : g = [n \in 0 .. m |-> IF n = 0 THEN st ELSE Music!Promoted(g[n - 1], ids[n])]
    <3>1. PICK g : Promotions(st, ids, m, g)
      BY <1>2, PromotionsExist
    <3>2. g = [n \in 0 .. m |-> IF n = 0 THEN st ELSE Music!Promoted(g[n - 1], ids[n])]
      BY <3>1, Zenon DEF Promotions
    <3>. QED
      BY <3>2, Zenon
  <2>2. after = [n \in 0 .. m |-> IF n = 0 THEN st ELSE Music!Promoted(after[n - 1], ids[n])]
    BY <2>1, Zenon
  <2>. QED
    BY <2>2 DEF Promotions
<1>. HIDE DEF after
<1>4. /\ after[0] = st
      /\ \A n \in 1 .. m : after[n] = Music!Promoted(after[n - 1], ids[n])
  <2>1. \A n \in 0 .. m : after[n] = IF n = 0 THEN st ELSE Music!Promoted(after[n - 1], ids[n])
    BY <1>3 DEF Promotions
  <2>. QED
    BY <1>2, <2>1
<1>. DEFINE Good(x) == Shelf(x) /\ SameFiles(st.rows, x.rows)
            T == {k \in 0 .. m : ~Good(after[k])}
<1>5. T = {}
  <2>1. SUFFICES ASSUME T # {} PROVE FALSE
    OBVIOUS
  <2>2. T \subseteq Nat
    BY <1>2
  <2>3. PICK k \in T : \A n \in T : k <= n
    BY <2>1, <2>2, Least
  <2>4. CASE k = 0
    BY <1>4, <2>3, <2>4, SameFilesSelf
  <2>5. CASE k # 0
    <3>1. k \in 1 .. m /\ k - 1 \in 0 .. m /\ k - 1 \notin T
      BY <1>2, <2>3, <2>5
    <3>2. Good(after[k - 1])
      BY <3>1
    <3>. DEFINE x == after[k - 1]
                y == Music!Promoted(x, ids[k])
    <3>3. Shelf(y) /\ SameFiles(x.rows, y.rows)
      BY <3>2, PromotionKeeps
    <3>4. after[k] = y
      BY <1>4, <3>1
    <3>. HIDE DEF x, y
    <3>5. SameFiles(st.rows, y.rows)
      BY <3>2, <3>3, SameFilesChain DEF x
    <3>. QED
      BY <2>3, <3>3, <3>4, <3>5
  <2>. QED
    BY <2>4, <2>5
<1>6. Good(after[m])
  BY <1>2, <1>5
<1>. QED
  BY <1>1, <1>6

LEMMA CleaningKeeps ==
  ASSUME NEW st, Shelf(st)
  PROVE  LET n == Music!Cleaned(st) IN Shelf(n) /\ n.rows = st.rows
<1>. DEFINE kept == {a \in st.albums : Music!On(st.rows, a.id) # {}}
            artists == {a.artist : a \in kept} \cup {r.artist : r \in st.rows}
            plays1 == {x \in st.plays : x.album \in {a.id : a \in kept} /\ x.artist \in artists}
            n == Music!Cleaned(st)
<1>1. n = [st EXCEPT !.albums = kept, !.plays = plays1]
  BY DEF Music!Cleaned
<1>2. n.rows = st.rows /\ n.albums = kept /\ n.plays = plays1 /\ DOMAIN n = StoreFields
  <2>1. DOMAIN st = StoreFields
    BY Zenon DEF Shelf
  <2>. HIDE DEF n, kept, plays1
  <2>. QED
    BY <1>1, <2>1 DEF StoreFields
<1>. HIDE DEF n
<1>3. /\ IsFiniteSet(st.rows) /\ IsFiniteSet(st.albums)
      /\ \A r \in st.rows : DOMAIN r = RowFields /\ r.path \in Paths
      /\ \A r \in st.rows : \E a \in st.albums : a.id = r.album
      /\ \A r, s \in st.rows : r.path = s.path \/ r.id = s.id => r = s
      /\ \A a, b \in st.albums : a.id = b.id \/ a.artist = b.artist => a = b
      /\ \A x \in st.plays : DOMAIN x = PlayFields /\ \E r \in st.rows : r.id = x.track
  BY Zenon DEF Shelf
<1>4. \A r \in st.rows : \E a \in kept : a.id = r.album
  BY <1>3 DEF Music!On
<1>5. \A x \in plays1 : x \in st.plays /\ \E a \in kept : a.id = x.album
  OBVIOUS
<1>6. kept \in SUBSET st.albums
  OBVIOUS
<1>. HIDE DEF kept, plays1
<1>7. IsFiniteSet(kept)
  BY <1>3, <1>6, FS_Subset
<1>8. Shelf(n)
  BY <1>2, <1>3, <1>4, <1>5, <1>6, <1>7 DEF Shelf
<1>. QED
  BY <1>2, <1>8 DEF n

Readings(st, paths, d, m, g) ==
    g = [n \in 0 .. m |-> IF n = 0 THEN st
                          ELSE IF d[paths[n]] = Music!Gone THEN g[n - 1]
                          ELSE Music!WithFile(g[n - 1], paths[n], d[paths[n]])]
LEMMA ReadingsExist ==
  ASSUME NEW st, NEW paths, NEW d, NEW m \in Nat PROVE \E g : Readings(st, paths, d, m, g)
<1>. DEFINE Step(x, n) == IF d[paths[n]] = Music!Gone THEN x
                          ELSE Music!WithFile(x, paths[n], d[paths[n]])
            T == {k \in Nat : ~ \E g : Readings(st, paths, d, k, g)}
<1>0. \A k, g : Readings(st, paths, d, k, g)
                  <=> g = [n \in 0 .. k |-> IF n = 0 THEN st ELSE Step(g[n - 1], n)]
  BY Zenon DEF Readings
<1>. HIDE DEF Step
<1>1. SUFFICES ASSUME T # {} PROVE FALSE
  OBVIOUS
<1>2. PICK k \in T : \A n \in T : k <= n
  BY <1>1, Least
<1>3. CASE k = 0
  <2>. DEFINE h == [n \in 0 .. 0 |-> st]
  <2>1. h = [n \in 0 .. 0 |-> IF n = 0 THEN st ELSE Step(h[n - 1], n)]
    OBVIOUS
  <2>2. Readings(st, paths, d, 0, h)
    BY <1>0, <2>1, Zenon
  <2>. QED
    BY <1>3, <2>2
<1>4. CASE k # 0
  <2>1. k \in Nat /\ k - 1 \in Nat /\ k - 1 \notin T
    BY <1>2, <1>4
  <2>2. PICK g : Readings(st, paths, d, k - 1, g)
    BY <2>1
  <2>. DEFINE h == [n \in 0 .. k |-> IF n = k THEN Step(g[k - 1], k) ELSE g[n]]
  <2>20. g = [n \in 0 .. k - 1 |-> IF n = 0 THEN st ELSE Step(g[n - 1], n)]
    BY <1>0, <2>2, Zenon
  <2>3. \A n \in 0 .. k - 1 : g[n] = IF n = 0 THEN st ELSE Step(g[n - 1], n)
    BY <2>1, <2>20
  <2>4. /\ \A n \in 0 .. k - 1 : h[n] = g[n]
        /\ h[k] = Step(g[k - 1], k)
    BY <2>1
  <2>5. ASSUME NEW n \in 0 .. k
        PROVE  h[n] = IF n = 0 THEN st ELSE Step(h[n - 1], n)
    <3>1. CASE n = k
      <4>1. h[n - 1] = g[k - 1]
        BY <2>1, <2>4, <3>1
      <4>. QED
        BY <1>4, <2>4, <3>1, <4>1
    <3>2. CASE n = 0
      <4>1. n \in 0 .. k - 1
        BY <1>4, <2>1, <3>2
      <4>. QED
        BY <2>3, <2>4, <3>2, <4>1
    <3>3. CASE n # 0 /\ n # k
      <4>1. n \in 0 .. k - 1 /\ n - 1 \in 0 .. k - 1
        BY <2>1, <3>3
      <4>2. h[n] = Step(g[n - 1], n) /\ h[n - 1] = g[n - 1]
        BY <2>3, <2>4, <3>3, <4>1
      <4>. QED
        BY <3>3, <4>2
    <3>. QED
      BY <3>1, <3>2, <3>3
  <2>6. h = [n \in 0 .. k |-> h[n]]
    OBVIOUS
  <2>. HIDE DEF h
  <2>7. h = [n \in 0 .. k |-> IF n = 0 THEN st ELSE Step(h[n - 1], n)]
    BY <2>5, <2>6
  <2>8. Readings(st, paths, d, k, h)
    BY <1>0, <2>7, Zenon
  <2>. QED
    BY <1>2, <2>1, <2>8
<1>. QED
  BY <1>3, <1>4

LEMMA RescanKeeps ==
  ASSUME NEW st, Shelf(st), NEW paths, NEW d, Len(paths) \in Nat,
         \A n \in 1 .. Len(paths) : paths[n] \in Paths
  PROVE  LET n == Music!Rescanned(st, paths, d) IN Shelf(n) /\ Numbered(st.rows, n.rows)
<1>. DEFINE m == Len(paths)
            after == CHOOSE g : g = [n \in 0 .. m |-> IF n = 0 THEN st
                                       ELSE IF d[paths[n]] = Music!Gone THEN g[n - 1]
                                       ELSE Music!WithFile(g[n - 1], paths[n], d[paths[n]])]
<1>1. Music!Rescanned(st, paths, d) = Music!Cleaned(Music!Finalized(after[m]))
  BY Zenon DEF Music!Rescanned
<1>2. m \in Nat /\ \A n \in 1 .. m : paths[n] \in Paths
  OBVIOUS
<1>. HIDE DEF m
<1>3. Readings(st, paths, d, m, after)
  <2>1. PICK g : Readings(st, paths, d, m, g)
    BY <1>2, ReadingsExist
  <2>2. g = [n \in 0 .. m |-> IF n = 0 THEN st
                              ELSE IF d[paths[n]] = Music!Gone THEN g[n - 1]
                              ELSE Music!WithFile(g[n - 1], paths[n], d[paths[n]])]
    BY <2>1, Zenon DEF Readings
  <2>3. after = [n \in 0 .. m |-> IF n = 0 THEN st
                                  ELSE IF d[paths[n]] = Music!Gone THEN after[n - 1]
                                  ELSE Music!WithFile(after[n - 1], paths[n], d[paths[n]])]
    BY <2>2, Zenon
  <2>. QED
    BY <2>3, Zenon DEF Readings
<1>. HIDE DEF after
<1>4. /\ after[0] = st
      /\ \A n \in 1 .. m : after[n] = IF d[paths[n]] = Music!Gone THEN after[n - 1]
                                      ELSE Music!WithFile(after[n - 1], paths[n], d[paths[n]])
  <2>1. \A n \in 0 .. m : after[n] = IF n = 0 THEN st
                              ELSE IF d[paths[n]] = Music!Gone THEN after[n - 1]
                              ELSE Music!WithFile(after[n - 1], paths[n], d[paths[n]])
    BY <1>3 DEF Readings
  <2>. QED
    BY <1>2, <2>1
<1>. DEFINE Good(x) == Shelf(x) /\ Numbered(st.rows, x.rows)
            T == {k \in 0 .. m : ~Good(after[k])}
<1>5. T = {}
  <2>1. SUFFICES ASSUME T # {} PROVE FALSE
    OBVIOUS
  <2>2. T \subseteq Nat
    BY <1>2
  <2>3. PICK k \in T : \A n \in T : k <= n
    BY <2>1, <2>2, Least
  <2>4. CASE k = 0
    BY <1>4, <2>3, <2>4 DEF Numbered
  <2>5. CASE k # 0
    <3>1. k \in 1 .. m /\ k - 1 \in 0 .. m /\ k - 1 \notin T
      BY <1>2, <2>3, <2>5
    <3>2. Good(after[k - 1]) /\ paths[k] \in Paths
      BY <1>2, <3>1
    <3>3. CASE d[paths[k]] = Music!Gone
      <4>1. after[k] = after[k - 1]
        BY <1>4, <3>1, <3>3
      <4>. QED
        BY <2>3, <3>2, <4>1
    <3>4. CASE d[paths[k]] # Music!Gone
      <4>. DEFINE x == after[k - 1]
                  y == Music!WithFile(x, paths[k], d[paths[k]])
      <4>1. Shelf(y) /\ Numbered(x.rows, y.rows)
        BY <3>2, FileTaken
      <4>2. after[k] = y
        BY <1>4, <3>1, <3>4
      <4>. HIDE DEF y
      <4>3. Numbered(st.rows, y.rows)
        BY <3>2, <4>1 DEF Numbered
      <4>. QED
        BY <2>3, <4>1, <4>2, <4>3
    <3>. QED
      BY <3>3, <3>4
  <2>. QED
    BY <2>4, <2>5
<1>6. Good(after[m])
  BY <1>2, <1>5
<1>. DEFINE x == after[m]
            y == Music!Finalized(x)
            z == Music!Cleaned(y)
<1>7. Shelf(y) /\ SameFiles(x.rows, y.rows)
  BY <1>6, FinalizingKeeps
<1>. HIDE DEF y
<1>8. Shelf(z) /\ z.rows = y.rows
  BY <1>7, CleaningKeeps
<1>9. Numbered(st.rows, z.rows)
  BY <1>6, <1>7, <1>8 DEF Numbered, SameFiles, Alike
<1>. QED
  BY <1>1, <1>8, <1>9 DEF y

-----------------------------------------------------------------------------
(* What lyrics and the playlist refer to is there, and no two entries      *)
(* stand in one place.                                                     *)
Shelved == Shelf([rows |-> tracks, albums |-> albums, plays |-> plays])
Listings ==
    /\ \A t \in lyrics \cup DOMAIN entries : \E r \in tracks : r.id = t
    /\ \A t \in DOMAIN entries : entries[t] \in Nat
    /\ \A s, t \in DOMAIN entries : entries[s] = entries[t] => s = t
    /\ todo \subseteq Paths
MusicTypes == Shelved /\ Listings

LEMMA StoreShelved == Shelved => Shelf(Music!Store)
BY DEF Shelved, Music!Store
LEMMA NowShelved ==
  ASSUME NEW st, Shelf(st), tracks' = st.rows, albums' = st.albums, plays' = st.plays
  PROVE  Shelved'
BY DEF Shelf, Shelved, StoreFields
LEMMA ShelfStays ==
  ASSUME Shelved, UNCHANGED <<tracks, albums, plays>> PROVE Shelved'
BY DEF Shelved
LEMMA ListingsStay ==
  ASSUME Listings, Numbered(tracks, tracks'), UNCHANGED <<lyrics, entries>>, todo' \subseteq Paths
  PROVE  Listings'
BY DEF Listings, Numbered
LEMMA ListedFinitely ==
  ASSUME MusicTypes PROVE IsFiniteSet(DOMAIN entries)
<1>1. IsFiniteSet(tracks)
  BY DEF MusicTypes, Shelved, Shelf
<1>2. IsFiniteSet({r.id : r \in tracks})
  BY <1>1, NumbersAreFinite
<1>3. DOMAIN entries \in SUBSET {r.id : r \in tracks}
  BY DEF MusicTypes, Listings
<1>. QED
  BY <1>2, <1>3, FS_Subset

LEMMA Greatest ==
  ASSUME NEW T, T \subseteq Nat, IsFiniteSet(T), T # {}
  PROVE  \E m \in T : \A n \in T : n <= m
<1>. DEFINE above(x) == {y \in T : x < y}
            C == {Cardinality(above(x)) : x \in T}
<1>1. \A x \in T : IsFiniteSet(above(x)) /\ Cardinality(above(x)) \in Nat
  <2>1. \A x \in T : above(x) \in SUBSET T
    OBVIOUS
  <2>. HIDE DEF above
  <2>. QED
    BY <2>1, FS_Subset, FS_CardinalityType
<1>2. C \subseteq Nat /\ C # {}
  BY <1>1
<1>3. PICK c \in C : \A d \in C : c <= d
  BY <1>2, Least
<1>4. PICK x \in T : c = Cardinality(above(x))
  BY <1>3
<1>5. ASSUME NEW y \in T, x < y PROVE FALSE
  <2>0. x \in Nat /\ y \in Nat /\ \A z \in T : z \in Nat
    BY <1>4, <1>5
  <2>1. above(y) \in SUBSET above(x) /\ y \in above(x) /\ y \notin above(y)
    <3>. HIDE DEF C
    <3>1. \A z \in T : y < z => x < z
      BY <1>5, <2>0
    <3>2. ~(y < y)
      BY <2>0
    <3>. QED
      BY <1>5, <3>1, <3>2
  <2>2. Cardinality(above(x)) <= Cardinality(above(y))
    BY <1>3, <1>4
  <2>. HIDE DEF above
  <2>3. /\ Cardinality(above(y)) <= Cardinality(above(x))
        /\ Cardinality(above(x)) = Cardinality(above(y)) => above(x) = above(y)
    BY <1>1, <2>1, FS_Subset
  <2>. QED
    BY <1>1, <2>1, <2>2, <2>3
<1>. QED
  BY <1>5

LEMMA EndIsBeyond ==
  ASSUME MusicTypes
  PROVE  Music!End \in Nat /\ \A t \in DOMAIN entries : entries[t] < Music!End
<1>. DEFINE V == {entries[t] : t \in DOMAIN entries}
            T == V \cup {0}
<1>1. IsFiniteSet(V)
  BY ListedFinitely, ImageOfFinite
<1>2. T \subseteq Nat
  BY DEF MusicTypes, Listings
<1>3. IsFiniteSet(T)
  BY <1>1, FS_AddElement
<1>4. PICK m \in T : \A n \in T : n <= m
  BY <1>2, <1>3, Greatest
<1>. HIDE DEF V
<1>. DEFINE g == CHOOSE x \in T : \A y \in T : x >= y
<1>5. \E x \in T : \A y \in T : x >= y
  BY <1>2, <1>4
<1>6. g \in T /\ \A y \in T : g >= y
  BY <1>5
<1>. HIDE DEF g
<1>7. Music!End = g + 1
  BY DEF Music!End, Music!Max, g, V
<1>8. \A t \in DOMAIN entries : entries[t] \in T
  BY DEF V
<1>. HIDE DEF T
<1>9. g \in Nat /\ \A t \in DOMAIN entries : entries[t] \in Nat /\ g >= entries[t]
  BY <1>2, <1>6, <1>8
<1>10. g + 1 \in Nat /\ \A n \in Nat : g >= n => n < g + 1
  BY <1>9
<1>. QED
  BY <1>7, <1>9, <1>10

(* Numbering anew keeps entries apart. *)
LEMMA RanksApart ==
  ASSUME MusicTypes, NEW D, D \subseteq DOMAIN entries
  PROVE  /\ \A t \in D : Music!Rank(t, D) \in Nat
         /\ \A s, t \in D : Music!Rank(s, D) = Music!Rank(t, D) => s = t
<1>. DEFINE upto(t) == {s \in D : entries[s] <= entries[t]}
<1>1. IsFiniteSet(D)
  BY ListedFinitely, FS_Subset
<1>2. \A t \in D : upto(t) \in SUBSET D
  OBVIOUS
<1>3. \A t : Music!Rank(t, D) = Cardinality(upto(t))
  BY MusicSizes DEF Music!Rank, SizeOfLibrary
<1>4. /\ \A t \in D : entries[t] \in Nat
      /\ \A s, t \in D : entries[s] = entries[t] => s = t
  BY DEF MusicTypes, Listings
<1>5. ASSUME NEW s \in D, NEW t \in D, entries[s] < entries[t]
      PROVE  upto(s) \in SUBSET upto(t) /\ upto(s) # upto(t)
  <2>1. t \in upto(t) /\ t \notin upto(s)
    BY <1>4, <1>5
  <2>2. upto(s) \in SUBSET upto(t)
    BY <1>4, <1>5
  <2>. QED
    BY <2>1, <2>2
<1>. HIDE DEF upto
<1>6. \A t \in D : IsFiniteSet(upto(t)) /\ Cardinality(upto(t)) \in Nat
  BY <1>1, <1>2, FS_Subset, FS_CardinalityType
<1>7. ASSUME NEW s \in D, NEW t \in D, entries[s] < entries[t]
      PROVE  Cardinality(upto(s)) # Cardinality(upto(t))
  BY <1>5, <1>6, <1>7, FS_Subset
<1>8. ASSUME NEW s \in D, NEW t \in D, Cardinality(upto(s)) = Cardinality(upto(t)) PROVE s = t
  <2>1. ~(entries[s] < entries[t]) /\ ~(entries[t] < entries[s])
    BY <1>7, <1>8
  <2>. QED
    BY <1>4, <2>1
<1>. QED
  BY <1>3, <1>6, <1>8

(* Where a scan that nobody disturbs stands: what it processed is known;   *)
(* until the history is carried over a file that moved has its entry at    *)
(* the row that lost it, and then at the row that has it.                  *)
Lost(r) == tree[r.path] = Music!Gone
OneCopy(f) == \E p \in Paths : \A q \in Paths : tree[q] # Music!Gone /\ tree[q] = f <=> q = p
Awaits(f) == \E r \in tracks : r.seen = f /\ Lost(r) /\ r.id \in DOMAIN entries
Arrived(f) == \E r \in tracks : r.seen = f /\ ~Lost(r) /\ r.id \in DOMAIN entries
ScanInv ==
    settled =>
      /\ stage = "files" => \A p \in Music!Present : p \in todo \/ Music!Known(p)
      /\ stage \in {"finalize", "relink", "prune", "cleanup", "done"} =>
           \A p \in Music!Present : Music!Known(p)
      /\ stage \in {"cleanup", "done"} => \A r \in tracks : ~Lost(r)
      /\ stage \in {"files", "finalize", "relink"} => \A f \in moved : Awaits(f)
      /\ stage \in {"prune", "cleanup", "done"} =>
           \A f \in moved \ clashed : OneCopy(f) => Arrived(f)
LibraryInv == MusicTypes /\ ScanInv

LEMMA LibraryBegins == Music!Init => LibraryInv
<1>1. SUFFICES ASSUME Music!Init PROVE LibraryInv
  OBVIOUS
<1>2. tracks = {} /\ albums = {} /\ plays = {} /\ lyrics = {} /\ DOMAIN entries = {} /\ todo = {} /\ ~settled
  BY <1>1 DEF Music!Init
<1>3. Shelved
  BY <1>2, FS_EmptySet DEF Shelved, Shelf, StoreFields
<1>. QED
  BY <1>2, <1>3 DEF LibraryInv, MusicTypes, Listings, ScanInv

-----------------------------------------------------------------------------
(* The scan, step by step. *)
LEMMA LibraryBeginScan ==
  ASSUME LibraryInv, Music!BeginScan PROVE LibraryInv'
<1>1. /\ stage' = "files" /\ todo' = Music!Present /\ tree' = tree
      /\ UNCHANGED <<tracks, albums, plays, lyrics, entries>>
      /\ moved' = {r.seen : r \in {s \in tracks : Music!Orphan(s) /\ s.id \in DOMAIN entries}}
  BY DEF Music!BeginScan, Music!data
<1>2. MusicTypes'
  <2>1. todo' \subseteq Paths
    BY <1>1 DEF Music!Present
  <2>. QED
    BY <1>1, <2>1 DEF LibraryInv, MusicTypes, Shelved, Listings
<1>3. Music!Present' = Music!Present
  BY <1>1 DEF Music!Present
<1>4. \A f \in moved' : Awaits(f)'
  BY <1>1 DEF Awaits, Lost, Music!Orphan
<1>5. ScanInv'
  BY <1>1, <1>3, <1>4 DEF ScanInv
<1>. QED
  BY <1>2, <1>5 DEF LibraryInv

LEMMA LibraryScanFile ==
  ASSUME LibraryInv, NEW p \in Paths, Music!ScanFile(p) PROVE LibraryInv'
<1>1. /\ stage = "files" /\ p \in todo /\ todo' = todo \ {p}
      /\ UNCHANGED <<tree, stage, settled, moved, clashed>>
  BY DEF Music!ScanFile, Music!history
<1>2. todo' \subseteq Paths /\ Music!Present' = Music!Present
  BY <1>1 DEF LibraryInv, MusicTypes, Listings, Music!Present
<1>3. CASE (tree[p] = Music!Gone \/ Music!Known(p)) /\ UNCHANGED Music!data
  <2>1. UNCHANGED <<tracks, albums, plays, lyrics, entries>>
    BY <1>3 DEF Music!data
  <2>2. MusicTypes'
    BY <1>2, <2>1 DEF LibraryInv, MusicTypes, Shelved, Listings
  <2>3. \A q \in Music!Present : q # p \/ Music!Known(p)
    BY <1>3 DEF Music!Present
  <2>4. \A q : Music!Known(q)' <=> Music!Known(q)
    BY <1>1, <2>1 DEF Music!Known
  <2>5. \A f : Awaits(f) => Awaits(f)'
    BY <1>1, <2>1 DEF Awaits, Lost
  <2>6. ScanInv'
    BY <1>1, <1>2, <2>3, <2>4, <2>5 DEF LibraryInv, ScanInv
  <2>. QED
    BY <2>2, <2>6 DEF LibraryInv
<1>4. CASE tree[p] # Music!Gone /\ Music!Becomes(Music!WithFile(Music!Store, p, tree[p]))
  <2>. DEFINE st == Music!Store
              n == Music!WithFile(st, p, tree[p])
  <2>1. Shelf(st) /\ st.rows = tracks
    BY StoreShelved DEF LibraryInv, MusicTypes, Music!Store
  <2>. HIDE DEF st
  <2>2. /\ Shelf(n) /\ Numbered(st.rows, n.rows)
        /\ \A r \in st.rows : r.path # p => r \in n.rows
        /\ \E r \in n.rows : r.path = p /\ r.seen = tree[p]
    BY <2>1, FileTaken
  <2>3. tracks' = n.rows /\ albums' = n.albums /\ plays' = n.plays /\ UNCHANGED <<lyrics, entries>>
    BY <1>4 DEF Music!Becomes, st
  <2>. HIDE DEF n
  <2>4. MusicTypes'
    <3>1. Shelved'
      BY <2>2, <2>3, NowShelved
    <3>2. Numbered(tracks, tracks')
      BY <2>1, <2>2, <2>3
    <3>3. Listings'
      BY <1>2, <2>3, <3>2, ListingsStay DEF LibraryInv, MusicTypes
    <3>. QED
      BY <3>1, <3>3 DEF MusicTypes
  <2>5. Music!Known(p)'
    BY <1>1, <2>2, <2>3 DEF Music!Known
  <2>6. \A q : q # p /\ Music!Known(q) => Music!Known(q)'
    BY <1>1, <2>1, <2>2, <2>3 DEF Music!Known
  <2>7. \A f : Awaits(f) => Awaits(f)'
    BY <1>1, <1>4, <2>1, <2>2, <2>3 DEF Awaits, Lost
  <2>8. ScanInv'
    BY <1>1, <1>2, <2>5, <2>6, <2>7 DEF LibraryInv, ScanInv
  <2>. QED
    BY <2>4, <2>8 DEF LibraryInv
<1>. QED
  BY <1>3, <1>4 DEF Music!ScanFile

LEMMA LibraryEndFiles ==
  ASSUME LibraryInv, NEW none, Music!EndFiles(none) PROVE LibraryInv'
<1>1. /\ stage = "files" /\ todo = {} /\ stage' \in {"idle", "finalize"}
      /\ UNCHANGED <<tree, tracks, albums, plays, lyrics, entries, todo, settled, moved, clashed>>
  BY DEF Music!EndFiles, Music!data, Music!history
<1>2. MusicTypes'
  BY <1>1 DEF LibraryInv, MusicTypes, Shelved, Listings
<1>3. Music!Present' = Music!Present /\ \A q : Music!Known(q)' <=> Music!Known(q)
  BY <1>1 DEF Music!Present, Music!Known
<1>4. \A f : Awaits(f) => Awaits(f)'
  BY <1>1 DEF Awaits, Lost
<1>5. ScanInv'
  BY <1>1, <1>3, <1>4 DEF LibraryInv, ScanInv
<1>. QED
  BY <1>2, <1>5 DEF LibraryInv

LEMMA LibraryFinalize ==
  ASSUME LibraryInv, Music!Finalize PROVE LibraryInv'
<1>. DEFINE st == Music!Store
            n == Music!Finalized(st)
<1>1. /\ stage = "finalize" /\ stage' = "relink"
      /\ UNCHANGED <<tree, todo, settled, moved, clashed>>
  BY DEF Music!Finalize, Music!history
<1>2. Shelf(st) /\ st.rows = tracks
  BY StoreShelved DEF LibraryInv, MusicTypes, Music!Store
<1>. HIDE DEF st
<1>3. Shelf(n) /\ SameFiles(st.rows, n.rows)
  BY <1>2, FinalizingKeeps
<1>4. tracks' = n.rows /\ albums' = n.albums /\ plays' = n.plays /\ UNCHANGED <<lyrics, entries>>
  BY DEF Music!Finalize, Music!Becomes, st
<1>. HIDE DEF n
<1>5. SameFiles(tracks, tracks')
  BY <1>2, <1>3, <1>4
<1>6. MusicTypes'
  <2>1. Shelved'
    BY <1>3, <1>4, NowShelved
  <2>2. Numbered(tracks, tracks') /\ todo' \subseteq Paths
    BY <1>1, <1>5 DEF SameFiles, Alike, Numbered, LibraryInv, MusicTypes, Listings
  <2>3. Listings'
    BY <1>4, <2>2, ListingsStay DEF LibraryInv, MusicTypes
  <2>. QED
    BY <2>1, <2>3 DEF MusicTypes
<1>7. Music!Present' = Music!Present
  BY <1>1 DEF Music!Present
<1>8. \A q : Music!Known(q) => Music!Known(q)'
  BY <1>1, <1>5 DEF Music!Known, SameFiles, Alike
<1>9. \A f : Awaits(f) => Awaits(f)'
  BY <1>1, <1>4, <1>5 DEF Awaits, Lost, SameFiles, Alike
<1>10. ScanInv'
  BY <1>1, <1>7, <1>8, <1>9 DEF LibraryInv, ScanInv
<1>. QED
  BY <1>6, <1>10 DEF LibraryInv

LEMMA LibraryPrune ==
  ASSUME LibraryInv, Music!Prune PROVE LibraryInv'
<1>. DEFINE left == {r.id : r \in tracks'}
<1>1. /\ stage = "prune" /\ stage' = "cleanup" /\ tracks' = {r \in tracks : ~Music!Orphan(r)}
      /\ plays' = {x \in plays : x.track \in left} /\ lyrics' = lyrics \cap left
      /\ entries' = [t \in DOMAIN entries \cap left |-> entries[t]]
      /\ UNCHANGED <<tree, albums, todo, settled, moved, clashed>>
  BY DEF Music!Prune, Music!history
<1>2. tracks' = {r \in tracks : ~Lost(r)}
  BY <1>1 DEF Music!Orphan, Lost
<1>3. /\ \A t : t \in left <=> \E r \in tracks' : r.id = t
      /\ tracks' \in SUBSET tracks
  BY <1>2
<1>. HIDE DEF left
<1>4. /\ IsFiniteSet(tracks) /\ IsFiniteSet(albums)
      /\ \A r \in tracks : DOMAIN r = RowFields /\ r.path \in Paths
      /\ \A r \in tracks : \E a \in albums : a.id = r.album
      /\ \A r, s \in tracks : r.path = s.path \/ r.id = s.id => r = s
      /\ \A a, b \in albums : a.id = b.id \/ a.artist = b.artist => a = b
      /\ \A x \in plays : DOMAIN x = PlayFields /\ \E a \in albums : a.id = x.album
  BY DEF LibraryInv, MusicTypes, Shelved, Shelf
<1>5. Shelved'
  <2>1. IsFiniteSet(tracks')
    BY <1>3, <1>4, FS_Subset
  <2>2. \A x \in plays' : x \in plays /\ \E r \in tracks' : r.id = x.track
    BY <1>1, <1>3
  <2>. DEFINE st == [rows |-> tracks', albums |-> albums', plays |-> plays']
  <2>3. st.rows = tracks' /\ st.albums = albums /\ st.plays = plays' /\ DOMAIN st = StoreFields
    BY <1>1 DEF StoreFields
  <2>. HIDE DEF st
  <2>4. Shelf(st)
    BY <1>3, <1>4, <2>1, <2>2, <2>3 DEF Shelf
  <2>. QED
    BY <2>4 DEF st, Shelved
<1>6. Listings'
  <2>1. /\ \A t \in DOMAIN entries : entries[t] \in Nat
        /\ \A s, t \in DOMAIN entries : entries[s] = entries[t] => s = t
        /\ todo \subseteq Paths
    BY DEF LibraryInv, MusicTypes, Listings
  <2>2. /\ DOMAIN entries' = DOMAIN entries \cap left
        /\ \A t \in DOMAIN entries' : entries'[t] = entries[t]
    BY <1>1
  <2>3. \A t \in lyrics' \cup DOMAIN entries' : \E r \in tracks' : r.id = t
    BY <1>1, <1>3, <2>2
  <2>. QED
    BY <1>1, <2>1, <2>2, <2>3 DEF Listings
<1>7. Music!Present' = Music!Present /\ \A q \in Music!Present : Music!Known(q) => Music!Known(q)'
  BY <1>1, <1>2 DEF Music!Present, Music!Known, Lost
<1>8. \A f : Arrived(f) => Arrived(f)'
  <2>1. DOMAIN entries' = DOMAIN entries \cap left
    BY <1>1
  <2>. QED
    BY <1>1, <1>2, <1>3, <2>1 DEF Arrived, Lost
<1>9. \A f : OneCopy(f)' <=> OneCopy(f)
  BY <1>1 DEF OneCopy
<1>10. \A r \in tracks' : ~Lost(r)'
  BY <1>1, <1>2 DEF Lost
<1>11. ScanInv'
  BY <1>1, <1>7, <1>8, <1>9, <1>10 DEF LibraryInv, ScanInv
<1>. QED
  BY <1>5, <1>6, <1>11 DEF LibraryInv, MusicTypes

LEMMA LibraryCleanup ==
  ASSUME LibraryInv, Music!Cleanup PROVE LibraryInv'
<1>. DEFINE st == Music!Store
            n == Music!Cleaned(st)
<1>1. /\ stage = "cleanup" /\ stage' = "done"
      /\ UNCHANGED <<tree, todo, settled, moved, clashed>>
  BY DEF Music!Cleanup, Music!history
<1>2. Shelf(st) /\ st.rows = tracks
  BY StoreShelved DEF LibraryInv, MusicTypes, Music!Store
<1>. HIDE DEF st
<1>3. Shelf(n) /\ n.rows = tracks
  BY <1>2, CleaningKeeps
<1>4. tracks' = n.rows /\ albums' = n.albums /\ plays' = n.plays /\ UNCHANGED <<lyrics, entries>>
  BY DEF Music!Cleanup, Music!Becomes, st
<1>. HIDE DEF n
<1>5. tracks' = tracks
  BY <1>3, <1>4
<1>6. MusicTypes'
  <2>1. Shelved'
    BY <1>3, <1>4, NowShelved
  <2>. QED
    BY <1>1, <1>4, <1>5, <2>1 DEF LibraryInv, MusicTypes, Listings
<1>7. Music!Present' = Music!Present /\ \A q : Music!Known(q) => Music!Known(q)'
  BY <1>1, <1>5 DEF Music!Known, Music!Present
<1>8. \A f : (Arrived(f) => Arrived(f)') /\ (OneCopy(f)' <=> OneCopy(f))
  BY <1>1, <1>4, <1>5 DEF Arrived, Lost, OneCopy
<1>9. \A r \in tracks' : ~Lost(r) => ~Lost(r)'
  BY <1>1 DEF Lost
<1>10. ScanInv'
  BY <1>1, <1>5, <1>7, <1>8, <1>9 DEF LibraryInv, ScanInv
<1>. QED
  BY <1>6, <1>10 DEF LibraryInv

-----------------------------------------------------------------------------
(* What somebody does to the files or the albums ends the undisturbed scan. *)
LEMMA LibraryUnsettled == ASSUME MusicTypes', ~settled' PROVE LibraryInv'
BY DEF LibraryInv, ScanInv
LEMMA LibraryCancel ==
  ASSUME LibraryInv, Music!Cancel PROVE LibraryInv'
BY DEF Music!Cancel, Music!data, LibraryInv, MusicTypes, Shelved, Listings, ScanInv

LEMMA LibraryFilesChange ==
  ASSUME LibraryInv, UNCHANGED <<tracks, albums, plays, lyrics, entries>>, todo' \subseteq todo, ~settled'
  PROVE  LibraryInv'
BY DEF LibraryInv, MusicTypes, Shelved, Listings, ScanInv
LEMMA LibraryOutside ==
  ASSUME LibraryInv, NEW p \in Paths, NEW q \in Paths, NEW a,
         Music!ScanFileFails(p) \/ Music!Unlink(p) \/ Music!Relocate(p, q) \/ Music!Writeback(a)
  PROVE  LibraryInv'
<1>1. CASE Music!ScanFileFails(p)
  BY <1>1, LibraryFilesChange DEF Music!ScanFileFails, Music!data
<1>2. CASE Music!Unlink(p)
  BY <1>2, LibraryFilesChange DEF Music!Unlink, Music!data
<1>3. CASE Music!Relocate(p, q)
  BY <1>3, LibraryFilesChange DEF Music!Relocate, Music!data
<1>4. CASE Music!Writeback(a)
  BY <1>4, LibraryFilesChange DEF Music!Writeback, Music!data
<1>. QED
  BY <1>1, <1>2, <1>3, <1>4

LEMMA PathLists ==
  ASSUME NEW S, IsFiniteSet(S), S \subseteq Paths, NEW paths \in Music!SetToSeqs(S)
  PROVE  Len(paths) \in Nat /\ \A n \in 1 .. Len(paths) : paths[n] \in Paths
<1>. DEFINE m == Cardinality(S)
<1>1. m \in Nat
  BY FS_CardinalityType
<1>2. paths \in [1 .. m -> S]
  BY MusicSizes DEF Music!SetToSeqs, SizeOfLibrary
<1>. HIDE DEF m
<1>3. Len(paths) = m
  BY <1>1, <1>2
<1>. QED
  BY <1>1, <1>2, <1>3
LEMMA LibraryRescanned ==
  ASSUME LibraryInv, NEW S, IsFiniteSet(S), S \subseteq Paths, NEW d,
         NEW paths \in Music!SetToSeqs(S), Music!Becomes(Music!Rescanned(Music!Store, paths, d)),
         ~settled', todo' = todo
  PROVE  LibraryInv'
<1>. DEFINE st == Music!Store
            n == Music!Rescanned(st, paths, d)
<1>1. Len(paths) \in Nat /\ \A k \in 1 .. Len(paths) : paths[k] \in Paths
  BY PathLists
<1>2. Shelf(st) /\ st.rows = tracks
  BY StoreShelved DEF LibraryInv, MusicTypes, Music!Store
<1>. HIDE DEF st
<1>3. Shelf(n) /\ Numbered(st.rows, n.rows)
  BY <1>1, <1>2, RescanKeeps
<1>4. tracks' = n.rows /\ albums' = n.albums /\ plays' = n.plays /\ UNCHANGED <<lyrics, entries>>
  BY DEF Music!Becomes, st
<1>. HIDE DEF n
<1>5. Shelved'
  BY <1>3, <1>4, NowShelved
<1>6. Numbered(tracks, tracks') /\ todo' \subseteq Paths
  BY <1>2, <1>3, <1>4 DEF LibraryInv, MusicTypes, Listings
<1>7. Listings'
  BY <1>4, <1>6, ListingsStay DEF LibraryInv, MusicTypes
<1>. QED
  BY <1>5, <1>7, LibraryUnsettled DEF MusicTypes

LEMMA AlbumPathsFinite ==
  ASSUME LibraryInv, NEW a
  PROVE  IsFiniteSet(Music!AlbumPaths(a)) /\ Music!AlbumPaths(a) \subseteq Paths
<1>. DEFINE R == Music!On(tracks, a)
            f == [r \in R |-> r.path]
<1>1. IsFiniteSet(tracks) /\ \A r \in tracks : r.path \in Paths
  BY DEF LibraryInv, MusicTypes, Shelved, Shelf
<1>2. R \in SUBSET tracks
  BY DEF Music!On
<1>3. Music!AlbumPaths(a) = {f[r] : r \in R}
  BY DEF Music!AlbumPaths
<1>4. Music!AlbumPaths(a) \subseteq Paths
  BY <1>1, <1>2, <1>3
<1>. HIDE DEF R
<1>5. IsFiniteSet(R)
  BY <1>1, <1>2, FS_Subset
<1>. HIDE DEF f
<1>6. IsFiniteSet({f[r] : r \in R})
  BY <1>5, ImageOfFinite
<1>. QED
  BY <1>3, <1>4, <1>6
LEMMA LibraryEdit ==
  ASSUME LibraryInv, NEW S, IsFiniteSet(S), S \subseteq Paths, NEW name, Music!Edit(S, name)
  PROVE  LibraryInv'
<1>. DEFINE T == {p \in S : tree[p] # Music!Gone}
<1>1. PICK paths \in Music!SetToSeqs(T) : Music!Becomes(Music!Rescanned(Music!Store, paths, tree'))
  BY DEF Music!Edit
<1>2. ~settled' /\ todo' = todo
  BY DEF Music!Edit
<1>3. T \in SUBSET S /\ T \subseteq Paths
  OBVIOUS
<1>. HIDE DEF T
<1>4. IsFiniteSet(T)
  BY <1>3, FS_Subset
<1>. QED
  BY <1>1, <1>2, <1>3, <1>4, LibraryRescanned
LEMMA LibraryEdits ==
  ASSUME LibraryInv, NEW a \in albums, NEW r \in tracks, NEW name,
         Music!AlbumEdit(a.id, name) \/ Music!TrackEdit(r, name) \/ Music!Rescan(a.id)
  PROVE  LibraryInv'
<1>1. CASE Music!AlbumEdit(a.id, name)
  BY <1>1, AlbumPathsFinite, LibraryEdit DEF Music!AlbumEdit
<1>2. CASE Music!TrackEdit(r, name)
  <2>1. IsFiniteSet({r.path}) /\ {r.path} \subseteq Paths
    BY FS_Singleton DEF LibraryInv, MusicTypes, Shelved, Shelf
  <2>. QED
    BY <1>2, <2>1, LibraryEdit DEF Music!TrackEdit
<1>3. CASE Music!Rescan(a.id)
  <2>1. PICK paths \in Music!SetToSeqs(Music!AlbumPaths(a.id)) :
            Music!Becomes(Music!Rescanned(Music!Store, paths, tree))
    BY <1>3 DEF Music!Rescan
  <2>2. ~settled' /\ todo' = todo
    BY <1>3 DEF Music!Rescan
  <2>. QED
    BY <2>1, <2>2, AlbumPathsFinite, LibraryRescanned
<1>. QED
  BY <1>1, <1>2, <1>3

LEMMA LibraryMerge ==
  ASSUME LibraryInv, NEW a \in albums, NEW b \in albums, Music!MergeAlbums(a, b)
  PROVE  LibraryInv'
<1>. DEFINE rs == Rehomed(tracks, {b.id}, a.id)
            g == [x \in plays |-> IF x.album = b.id THEN [x EXCEPT !.album = a.id] ELSE x]
            ps == {IF x.album = b.id THEN [x EXCEPT !.album = a.id] ELSE x : x \in plays}
            artists == {c.artist : c \in albums \ {b}} \cup {r.artist : r \in rs}
            pn == {x \in ps : x.artist \in artists}
<1>1. /\ a # b /\ tracks' = rs /\ albums' = albums \ {b} /\ plays' = pn
      /\ UNCHANGED <<lyrics, entries, todo>> /\ ~settled'
  <2>1. rs = {IF r.album = b.id THEN [r EXCEPT !.album = a.id] ELSE r : r \in tracks}
    BY DEF Rehomed
  <2>. HIDE DEF rs
  <2>2. /\ a # b /\ ~settled' /\ todo' = todo
        /\ Music!Becomes([rows |-> rs, albums |-> albums \ {b}, plays |-> pn])
    BY <2>1 DEF Music!MergeAlbums
  <2>. HIDE DEF pn
  <2>. QED
    BY <2>2 DEF Music!Becomes
<1>2. /\ IsFiniteSet(tracks) /\ IsFiniteSet(albums)
      /\ \A r \in tracks : DOMAIN r = RowFields /\ r.path \in Paths
      /\ \A r \in tracks : \E c \in albums : c.id = r.album
      /\ \A r, s \in tracks : r.path = s.path \/ r.id = s.id => r = s
      /\ \A c, e \in albums : c.id = e.id \/ c.artist = e.artist => c = e
      /\ \A x \in plays : /\ DOMAIN x = PlayFields
                          /\ \E r \in tracks : r.id = x.track
                          /\ \E c \in albums : c.id = x.album
  BY DEF LibraryInv, MusicTypes, Shelved, Shelf
<1>3. /\ IsFiniteSet(rs) /\ SameFiles(tracks, rs) /\ Follow(tracks, rs, {b.id}, a.id) /\ OnlyRows(rs)
  <2>1. OnlyRows(tracks)
    BY <1>2 DEF OnlyRows
  <2>. HIDE DEF rs
  <2>2. /\ IsFiniteSet(Rehomed(tracks, {b.id}, a.id)) /\ SameFiles(tracks, Rehomed(tracks, {b.id}, a.id))
        /\ Follow(tracks, Rehomed(tracks, {b.id}, a.id), {b.id}, a.id)
        /\ OnlyRows(Rehomed(tracks, {b.id}, a.id))
    BY <1>2, <2>1, RowsRebound
  <2>. QED
    BY <2>2 DEF rs
<1>. HIDE DEF rs
<1>4. a \in albums \ {b} /\ \A c \in albums : c # b => c.id # b.id
  BY <1>1, <1>2
<1>5. \A s \in rs : /\ DOMAIN s = RowFields /\ s.path \in Paths
                    /\ \E c \in albums \ {b} : c.id = s.album
  <2>1. SUFFICES ASSUME NEW s \in rs
                 PROVE  /\ DOMAIN s = RowFields /\ s.path \in Paths
                        /\ \E c \in albums \ {b} : c.id = s.album
    OBVIOUS
  <2>2. PICK r \in tracks : /\ Alike(r, s) /\ DOMAIN s = RowFields
                            /\ r.album \in {b.id} => s.album = a.id
                            /\ r.album \notin {b.id} => s.album = r.album
    BY <1>3 DEF Follow
  <2>3. s.path \in Paths
    BY <1>2, <2>2 DEF Alike
  <2>4. PICK c \in albums : c.id = r.album
    BY <1>2
  <2>5. \E e \in albums \ {b} : e.id = s.album
    <3>1. CASE r.album = b.id
      BY <1>4, <2>2, <3>1
    <3>2. CASE r.album # b.id
      BY <2>2, <2>4, <3>2
    <3>. QED
      BY <3>1, <3>2
  <2>. QED
    BY <2>2, <2>3, <2>5
<1>6. \A x \in pn : \E y \in plays : x = g[y]
  OBVIOUS
<1>7. ASSUME NEW y \in plays
      PROVE  /\ DOMAIN g[y] = PlayFields /\ g[y].track = y.track
             /\ g[y].album = IF y.album = b.id THEN a.id ELSE y.album
  <2>1. DOMAIN y = PlayFields
    BY <1>2
  <2>2. CASE y.album = b.id
    <3>1. g[y] = [y EXCEPT !.album = a.id]
      BY <2>2
    <3>. HIDE DEF g
    <3>. QED
      BY <2>1, <2>2, <3>1 DEF PlayFields
  <2>3. CASE y.album # b.id
    BY <2>1, <2>3
  <2>. QED
    BY <2>2, <2>3
<1>. HIDE DEF g, pn
<1>8. \A x \in pn : /\ DOMAIN x = PlayFields
                    /\ \E r \in rs : r.id = x.track
                    /\ \E c \in albums \ {b} : c.id = x.album
  <2>1. SUFFICES ASSUME NEW x \in pn
                 PROVE  /\ DOMAIN x = PlayFields
                        /\ \E r \in rs : r.id = x.track
                        /\ \E c \in albums \ {b} : c.id = x.album
    OBVIOUS
  <2>2. PICK y \in plays : x = g[y]
    BY <1>6
  <2>3. /\ DOMAIN x = PlayFields /\ x.track = y.track
        /\ x.album = IF y.album = b.id THEN a.id ELSE y.album
    BY <1>7, <2>2
  <2>4. \E r \in rs : r.id = x.track
    BY <1>2, <1>3, <2>3 DEF SameFiles, Alike
  <2>5. PICK c \in albums : c.id = y.album
    BY <1>2
  <2>6. \E e \in albums \ {b} : e.id = x.album
    <3>1. CASE y.album = b.id
      BY <1>4, <2>3, <3>1
    <3>2. CASE y.album # b.id
      BY <2>3, <2>5, <3>2
    <3>. QED
      BY <3>1, <3>2
  <2>. QED
    BY <2>3, <2>4, <2>6
<1>9. IsFiniteSet(albums \ {b})
  BY <1>2, FS_Subset
<1>10. Shelved'
  <2>. DEFINE st == [rows |-> tracks', albums |-> albums', plays |-> plays']
  <2>1. st.rows = rs /\ st.albums = albums \ {b} /\ st.plays = pn /\ DOMAIN st = StoreFields
    BY <1>1 DEF StoreFields
  <2>. HIDE DEF st
  <2>2. Shelf(st)
    BY <1>2, <1>3, <1>5, <1>8, <1>9, <2>1 DEF Shelf, OnlyRows
  <2>. QED
    BY <2>2 DEF st, Shelved
<1>11. Numbered(tracks, tracks') /\ todo' \subseteq Paths
  BY <1>1, <1>3 DEF SameFiles, Alike, Numbered, LibraryInv, MusicTypes, Listings
<1>12. Listings'
  BY <1>1, <1>11, ListingsStay DEF LibraryInv, MusicTypes
<1>. QED
  BY <1>1, <1>10, <1>12, LibraryUnsettled DEF MusicTypes

-----------------------------------------------------------------------------
(* Plays, lyrics and the playlist. *)
LEMMA LibraryListed ==
  ASSUME LibraryInv, MusicTypes', UNCHANGED <<tree, tracks, stage, todo, settled, clashed>>,
         moved' \subseteq moved,
         \A f \in moved' : \A r \in tracks :
            r.seen = f /\ r.id \in DOMAIN entries => r.id \in DOMAIN entries'
  PROVE  LibraryInv'
<1>1. Music!Present' = Music!Present /\ \A q : Music!Known(q)' <=> Music!Known(q)
  BY DEF Music!Present, Music!Known
<1>2. \A f \in moved' : (Awaits(f) => Awaits(f)') /\ (Arrived(f) => Arrived(f)')
  BY DEF Awaits, Arrived, Lost
<1>3. \A f : OneCopy(f)' <=> OneCopy(f)
  BY DEF OneCopy
<1>4. \A r : Lost(r)' <=> Lost(r)
  BY DEF Lost
<1>5. ScanInv'
  BY <1>1, <1>2, <1>3, <1>4 DEF LibraryInv, ScanInv
<1>. QED
  BY <1>5 DEF LibraryInv

LEMMA LibraryHeard ==
  ASSUME LibraryInv, NEW r \in tracks, Music!Play(r) \/ Music!Lyrics(r)
  PROVE  LibraryInv'
<1>1. CASE Music!Play(r)
  <2>. DEFINE x == [track |-> r.id, artist |-> r.artist, album |-> r.album, of |-> r.seen.song]
  <2>1. /\ plays' = plays \cup {x}
        /\ UNCHANGED <<tree, tracks, albums, lyrics, entries, stage, todo, settled, moved, clashed>>
    BY <1>1 DEF Music!Play
  <2>2. DOMAIN x = PlayFields /\ x.track = r.id /\ x.album = r.album
    BY DEF PlayFields
  <2>. HIDE DEF x
  <2>3. Shelved'
    BY <2>1, <2>2 DEF LibraryInv, MusicTypes, Shelved, Shelf, StoreFields
  <2>4. MusicTypes'
    BY <2>1, <2>3 DEF LibraryInv, MusicTypes, Listings
  <2>. QED
    BY <2>1, <2>4, LibraryListed
<1>2. CASE Music!Lyrics(r)
  <2>1. /\ lyrics' = lyrics \cup {r.id}
        /\ UNCHANGED <<tree, tracks, albums, plays, entries, stage, todo, settled, moved, clashed>>
    BY <1>2 DEF Music!Lyrics, Music!history
  <2>2. MusicTypes'
    BY <2>1 DEF LibraryInv, MusicTypes, Shelved, Listings
  <2>. QED
    BY <2>1, <2>2, LibraryListed
<1>. QED
  BY <1>1, <1>2

LEMMA LibraryAdd ==
  ASSUME LibraryInv, NEW r \in tracks, Music!AddTrack(r)
  PROVE  LibraryInv'
<1>1. /\ r.id \notin DOMAIN entries
      /\ entries' = [t \in DOMAIN entries \cup {r.id} |-> IF t = r.id THEN Music!End ELSE entries[t]]
      /\ UNCHANGED <<tree, tracks, albums, plays, lyrics, stage, todo, settled, moved, clashed>>
  BY DEF Music!AddTrack, Music!history
<1>2. /\ DOMAIN entries' = DOMAIN entries \cup {r.id} /\ entries'[r.id] = Music!End
      /\ \A t \in DOMAIN entries : entries'[t] = entries[t]
  BY <1>1
<1>3. Music!End \in Nat /\ \A t \in DOMAIN entries : entries[t] < Music!End
  BY EndIsBeyond DEF LibraryInv
<1>4. /\ \A t \in lyrics \cup DOMAIN entries : \E s \in tracks : s.id = t
      /\ \A t \in DOMAIN entries : entries[t] \in Nat
      /\ \A s, t \in DOMAIN entries : entries[s] = entries[t] => s = t
      /\ todo \subseteq Paths
  BY DEF LibraryInv, MusicTypes, Listings
<1>5. \A t \in DOMAIN entries : entries[t] # Music!End
  BY <1>3, <1>4
<1>6. /\ \A t \in lyrics' \cup DOMAIN entries' : \E s \in tracks' : s.id = t
      /\ \A t \in DOMAIN entries' : entries'[t] \in Nat
      /\ todo' \subseteq Paths
  BY <1>1, <1>2, <1>3, <1>4
<1>7. \A s, t \in DOMAIN entries' : entries'[s] = entries'[t] => s = t
  BY <1>2, <1>4, <1>5
<1>8. MusicTypes'
  BY <1>1, <1>6, <1>7 DEF LibraryInv, MusicTypes, Shelved, Listings
<1>. QED
  BY <1>1, <1>2, <1>8, LibraryListed

LEMMA LibraryUnlist ==
  ASSUME LibraryInv, NEW t \in DOMAIN entries, Music!RemoveTrack(t)
  PROVE  LibraryInv'
<1>. DEFINE left == DOMAIN entries \ {t}
<1>1. /\ entries' = [s \in left |-> Music!Rank(s, left)]
      /\ moved' = moved \ {r.seen : r \in {s \in tracks : s.id = t}}
      /\ UNCHANGED <<tree, tracks, albums, plays, lyrics, stage, todo, settled, clashed>>
  BY DEF Music!RemoveTrack
<1>2. /\ \A s \in left : Music!Rank(s, left) \in Nat
      /\ \A s, u \in left : Music!Rank(s, left) = Music!Rank(u, left) => s = u
  <2>1. left \subseteq DOMAIN entries /\ MusicTypes
    BY DEF LibraryInv
  <2>. HIDE DEF left
  <2>. QED
    BY <2>1, RanksApart
<1>3. DOMAIN entries' = left /\ \A s \in left : entries'[s] = Music!Rank(s, left)
  BY <1>1
<1>4. /\ \A s \in DOMAIN entries' : entries'[s] \in Nat
      /\ \A s, u \in DOMAIN entries' : entries'[s] = entries'[u] => s = u
  BY <1>2, <1>3
<1>5. MusicTypes'
  BY <1>1, <1>3, <1>4 DEF LibraryInv, MusicTypes, Shelved, Listings
<1>6. \A f \in moved' : \A r \in tracks : r.seen = f /\ r.id \in DOMAIN entries => r.id \in DOMAIN entries'
  BY <1>1, <1>3
<1>. QED
  BY <1>1, <1>5, <1>6, LibraryListed

LEMMA LibraryReorder ==
  ASSUME LibraryInv, NEW t \in DOMAIN entries, NEW by, Music!MoveTrack(t, by)
  PROVE  LibraryInv'
<1>. DEFINE D == DOMAIN entries
            now(s) == Music!Rank(s, D)
<1>1. PICK u \in D :
          /\ entries' = [s \in D |-> IF s = t THEN now(u) ELSE IF s = u THEN now(t) ELSE now(s)]
          /\ UNCHANGED <<tree, tracks, albums, plays, lyrics, stage, todo, settled, moved, clashed>>
  BY DEF Music!MoveTrack, Music!history
<1>2. /\ \A s \in D : now(s) \in Nat
      /\ \A s, v \in D : now(s) = now(v) => s = v
  BY RanksApart DEF LibraryInv
<1>3. /\ DOMAIN entries' = D
      /\ \A s \in D : entries'[s] = IF s = t THEN now(u) ELSE IF s = u THEN now(t) ELSE now(s)
  BY <1>1
<1>. HIDE DEF now
<1>4. /\ \A s \in D : entries'[s] \in Nat
      /\ \A s, v \in D : entries'[s] = entries'[v] => s = v
  BY <1>2, <1>3
<1>5. MusicTypes'
  BY <1>1, <1>3, <1>4 DEF LibraryInv, MusicTypes, Shelved, Listings
<1>. QED
  BY <1>1, <1>3, <1>5, LibraryListed

LEMMA LibraryClears ==
  ASSUME LibraryInv, Music!DeletePlaylist PROVE LibraryInv'
<1>1. /\ DOMAIN entries' = {} /\ moved' = {}
      /\ UNCHANGED <<tree, tracks, albums, plays, lyrics, stage, todo, settled, clashed>>
  BY DEF Music!DeletePlaylist
<1>2. MusicTypes'
  BY <1>1 DEF LibraryInv, MusicTypes, Shelved, Listings
<1>. QED
  BY <1>1, <1>2, LibraryListed

-----------------------------------------------------------------------------
(* The history moves to the row that has the file. *)
LEMMA HeirOf ==
  \A o, h : o \in Music!Heir(h) <=>
      \E r \in tracks : /\ r.id = o /\ Music!Orphan(r) /\ ~(o \in lyrics /\ h \in lyrics)
                        /\ \E x \in Music!Heirs(r) : x.id = h
BY DEF Music!Heir
LEMMA HeirsOf ==
  ASSUME IsFiniteSet(tracks), NEW r
  PROVE  /\ \A x \in Music!Heirs(r) : x \in tracks /\ x.seen = r.seen /\ ~Music!Orphan(x)
         /\ Music!Heirs(r) # {} =>
              \E o : \A x \in tracks : x.seen = r.seen /\ Music!Orphan(x) => x = o
         /\ \A o, s \in tracks :
              /\ \A x \in tracks : x.seen = r.seen /\ Music!Orphan(x) <=> x = o
              /\ \A x \in tracks : x.seen = r.seen /\ ~Music!Orphan(x) <=> x = s
              => Music!Heirs(r) = {s}
<1>. DEFINE gone == {s \in tracks : s.seen = r.seen /\ Music!Orphan(s)}
            kept == {s \in tracks : s.seen = r.seen /\ ~Music!Orphan(s)}
<1>1. Music!Heirs(r) = IF Cardinality(gone) = 1 /\ Cardinality(kept) = 1 THEN kept ELSE {}
  <2>. DEFINE alike == {s \in tracks : s.seen = r.seen}
  <2>1. gone = {s \in alike : Music!Orphan(s)} /\ kept = {s \in alike : ~Music!Orphan(s)}
    OBVIOUS
  <2>2. /\ Music!Cardinality({s \in alike : Music!Orphan(s)}) = Cardinality({s \in alike : Music!Orphan(s)})
        /\ Music!Cardinality({s \in alike : ~Music!Orphan(s)}) = Cardinality({s \in alike : ~Music!Orphan(s)})
    BY MusicSizes DEF SizeOfLibrary
  <2>. HIDE DEF gone, kept
  <2>. QED
    BY <2>1, <2>2 DEF Music!Heirs
<1>2. IsFiniteSet(gone) /\ IsFiniteSet(kept)
  BY FS_Subset
<1>3. /\ Cardinality(gone) = 1 <=> \E x : gone = {x}
      /\ Cardinality(kept) = 1 <=> \E x : kept = {x}
  <2>1. \A S : IsFiniteSet(S) => (Cardinality(S) = 1 <=> \E x : S = {x})
    BY FS_Singleton
  <2>. HIDE DEF gone, kept
  <2>. QED
    BY <1>2, <2>1
<1>4. \A x \in kept : x \in tracks /\ x.seen = r.seen /\ ~Music!Orphan(x)
  OBVIOUS
<1>5. \A x \in Music!Heirs(r) : x \in kept
  BY <1>1
<1>6. ASSUME Music!Heirs(r) # {}
      PROVE  \E o : \A x \in tracks : x.seen = r.seen /\ Music!Orphan(x) => x = o
  <2>1. PICK o : gone = {o}
    BY <1>1, <1>3, <1>6
  <2>. QED
    BY <2>1
<1>7. ASSUME NEW o \in tracks, NEW s \in tracks,
             \A x \in tracks : x.seen = r.seen /\ Music!Orphan(x) <=> x = o,
             \A x \in tracks : x.seen = r.seen /\ ~Music!Orphan(x) <=> x = s
      PROVE  Music!Heirs(r) = {s}
  <2>1. gone = {o} /\ kept = {s}
    BY <1>7
  <2>. QED
    BY <1>1, <1>3, <2>1
<1>. QED
  BY <1>4, <1>5, <1>6, <1>7

LEMMA LibraryRelink ==
  ASSUME LibraryInv, Music!Relink PROVE LibraryInv'
<1>. DEFINE ids == {r.id : r \in tracks}
            handed == {o \in ids : \E h \in ids : o \in Music!Heir(h)}
            to(o) == CHOOSE h \in ids : o \in Music!Heir(h)
            now(t) == IF t \in handed THEN to(t) ELSE t
            stays == {t \in DOMAIN entries : t \notin handed}
            gets == {to(o) : o \in handed \cap DOMAIN entries}
            giver(t) == CHOOSE o \in handed \cap DOMAIN entries : to(o) = t
            twice(r) == \E o \in tracks : o # r /\ Music!Orphan(o) /\ o.seen = r.seen
<1>1. /\ stage = "relink" /\ stage' = "prune"
      /\ plays' = {[x EXCEPT !.track = now(x.track)] : x \in plays}
      /\ lyrics' = {now(t) : t \in lyrics}
      /\ clashed' = {r.seen : r \in {o \in tracks : /\ Music!Orphan(o) /\ o.id \notin handed
                                                    /\ (Music!Heirs(o) # {} \/ twice(o))}}
      /\ entries' = [t \in stays \cup gets |-> IF t \in stays THEN entries[t] ELSE entries[giver(t)]]
      /\ UNCHANGED <<tree, tracks, albums, todo, settled, moved>>
  BY DEF Music!Relink
<1>2. /\ IsFiniteSet(tracks) /\ IsFiniteSet(albums)
      /\ \A r \in tracks : DOMAIN r = RowFields /\ r.path \in Paths
      /\ \A r \in tracks : \E a \in albums : a.id = r.album
      /\ \A r, s \in tracks : r.path = s.path \/ r.id = s.id => r = s
      /\ \A a, b \in albums : a.id = b.id \/ a.artist = b.artist => a = b
      /\ \A x \in plays : DOMAIN x = PlayFields /\ x.track \in ids /\ \E a \in albums : a.id = x.album
  BY DEF LibraryInv, MusicTypes, Shelved, Shelf
<1>3. /\ lyrics \cup DOMAIN entries \subseteq ids
      /\ \A t \in DOMAIN entries : entries[t] \in Nat
      /\ \A s, t \in DOMAIN entries : entries[s] = entries[t] => s = t
      /\ todo \subseteq Paths
  BY DEF LibraryInv, MusicTypes, Listings
<1>. HIDE DEF ids
<1>4. \A o \in handed : to(o) \in ids /\ o \in Music!Heir(to(o))
  <2>1. \A o \in handed : \E h \in ids : o \in Music!Heir(h)
    OBVIOUS
  <2>. QED
    BY <2>1
<1>40. handed \subseteq ids
  OBVIOUS
<1>41. \A o \in ids : o \in handed <=> \E h \in ids : o \in Music!Heir(h)
  OBVIOUS
<1>. HIDE DEF handed
<1>5. \A t \in gets : giver(t) \in handed \cap DOMAIN entries /\ to(giver(t)) = t
  <2>1. \A t \in gets : \E o \in handed \cap DOMAIN entries : to(o) = t
    OBVIOUS
  <2>. QED
    BY <2>1
<1>50. \A o \in handed \cap DOMAIN entries : to(o) \in gets
  OBVIOUS
<1>. HIDE DEF to
<1>6. \A t \in ids : now(t) \in ids
  BY <1>4
<1>. HIDE DEF now
<1>7. Shelved'
  <2>. DEFINE g == [x \in plays |-> [x EXCEPT !.track = now(x.track)]]
  <2>1. plays' = {g[x] : x \in plays}
    BY <1>1
  <2>2. ASSUME NEW x \in plays
        PROVE  DOMAIN g[x] = PlayFields /\ g[x].track = now(x.track) /\ g[x].album = x.album
    <3>1. DOMAIN x = PlayFields /\ g[x] = [x EXCEPT !.track = now(x.track)]
      BY <1>2
    <3>. HIDE DEF g
    <3>. QED
      BY <3>1 DEF PlayFields
  <2>. HIDE DEF g
  <2>3. \A x \in plays' : DOMAIN x = PlayFields /\ x.track \in ids /\ \E a \in albums : a.id = x.album
    BY <1>2, <1>6, <2>1, <2>2
  <2>. DEFINE st == [rows |-> tracks', albums |-> albums', plays |-> plays']
  <2>4. st.rows = tracks /\ st.albums = albums /\ st.plays = plays' /\ DOMAIN st = StoreFields
    BY <1>1 DEF StoreFields
  <2>. HIDE DEF st
  <2>5. Shelf(st)
    BY <1>2, <2>3, <2>4 DEF Shelf, ids
  <2>. QED
    BY <2>5 DEF st, Shelved
<1>8. /\ DOMAIN entries' = stays \cup gets
      /\ \A t \in stays : entries'[t] = entries[t]
      /\ \A t \in gets : t \notin stays => entries'[t] = entries[giver(t)]
  BY <1>1
<1>. DEFINE origin(t) == IF t \in stays THEN t ELSE giver(t)
<1>9. \A t \in stays \cup gets : /\ origin(t) \in DOMAIN entries /\ entries'[t] = entries[origin(t)]
                                 /\ t \in stays => origin(t) = t /\ t \notin handed
                                 /\ t \notin stays => origin(t) \in handed /\ to(origin(t)) = t
  BY <1>5, <1>8
<1>90. gets \subseteq ids /\ stays \subseteq DOMAIN entries
  BY <1>4, <1>5
<1>. HIDE DEF origin, stays, gets, giver
<1>10. Listings'
  <2>1. lyrics' \subseteq ids
    BY <1>1, <1>3, <1>6
  <2>2. DOMAIN entries' \subseteq ids
    BY <1>3, <1>8, <1>90
  <2>3. \A t \in DOMAIN entries' : entries'[t] \in Nat
    BY <1>3, <1>8, <1>9
  <2>4. \A s, t \in DOMAIN entries' : entries'[s] = entries'[t] => s = t
    <3>1. SUFFICES ASSUME NEW s \in stays \cup gets, NEW t \in stays \cup gets, entries'[s] = entries'[t]
                   PROVE  s = t
      BY <1>8
    <3>2. origin(s) = origin(t)
      BY <1>3, <1>9, <3>1
    <3>. QED
      BY <1>9, <3>2
  <2>5. \A t \in lyrics' \cup DOMAIN entries' : \E r \in tracks' : r.id = t
    BY <1>1, <2>1, <2>2 DEF ids
  <2>. QED
    BY <1>1, <1>3, <2>3, <2>4, <2>5 DEF Listings
<1>11. \A q : Music!Known(q)' <=> Music!Known(q)
  BY <1>1 DEF Music!Known
<1>12. Music!Present' = Music!Present
  BY <1>1 DEF Music!Present
<1>13. ASSUME settled, NEW f \in moved, f \notin clashed', OneCopy(f) PROVE Arrived(f)'
  <2>1. Awaits(f) /\ \A p \in Music!Present : Music!Known(p)
    BY <1>1, <1>13 DEF LibraryInv, ScanInv
  <2>2. PICK o \in tracks : o.seen = f /\ Lost(o) /\ o.id \in DOMAIN entries
    BY <2>1 DEF Awaits
  <2>3. PICK p \in Paths : \A q \in Paths : tree[q] # Music!Gone /\ tree[q] = f <=> q = p
    BY <1>13 DEF OneCopy
  <2>4. tree[p] # Music!Gone /\ tree[p] = f
    BY <2>3
  <2>5. PICK s \in tracks : s.path = p /\ s.seen = f
    BY <2>1, <2>4 DEF Music!Present, Music!Known
  <2>6. ~Lost(s)
    BY <2>4, <2>5 DEF Lost
  <2>7. ASSUME NEW x \in tracks, x.seen = f, ~Lost(x) PROVE x = s
    <3>1. x.path \in Paths /\ tree[x.path] # Music!Gone
      BY <1>2, <2>7 DEF Lost
    <3>2. Music!Known(x.path)
      BY <2>1, <3>1 DEF Music!Present
    <3>3. PICK y \in tracks : y.path = x.path /\ y.seen = tree[x.path]
      BY <3>2 DEF Music!Known
    <3>4. y = x
      BY <1>2, <3>3
    <3>5. x.path = p
      BY <2>3, <2>7, <3>1, <3>3, <3>4
    <3>. QED
      BY <1>2, <2>5, <3>5
  <2>8. \A x : Music!Orphan(x) <=> Lost(x)
    BY DEF Music!Orphan, Lost
  <2>9. o.id \in ids /\ s.id \in ids
    BY DEF ids
  <2>10. o.id \notin handed => Music!Heirs(o) = {} /\ ~twice(o)
    BY <1>1, <1>13, <2>2, <2>8
  <2>11. ASSUME NEW h, o.id \in Music!Heir(h)
         PROVE  ~(o.id \in lyrics /\ h \in lyrics) /\ \E x \in Music!Heirs(o) : x.id = h
    <3>1. PICK r \in tracks : /\ r.id = o.id /\ ~(o.id \in lyrics /\ h \in lyrics)
                              /\ \E x \in Music!Heirs(r) : x.id = h
      BY <2>11, HeirOf
    <3>2. r = o
      BY <1>2, <3>1
    <3>. QED
      BY <3>1, <3>2
  <2>12. ~twice(o)
    <3>1. SUFFICES ASSUME twice(o) PROVE FALSE
      OBVIOUS
    <3>2. PICK z \in tracks : z # o /\ Music!Orphan(z) /\ z.seen = o.seen
      BY <3>1
    <3>3. Music!Heirs(o) = {}
      <4>1. SUFFICES ASSUME Music!Heirs(o) # {} PROVE FALSE
        OBVIOUS
      <4>2. PICK w : \A x \in tracks : x.seen = o.seen /\ Music!Orphan(x) => x = w
        BY <1>2, <4>1, HeirsOf
      <4>. QED
        BY <2>2, <2>8, <3>2, <4>2
    <3>4. o.id \notin handed
      BY <1>4, <2>11, <3>3
    <3>. QED
      BY <2>10, <3>1, <3>4
  <2>13. Music!Heirs(o) = {s}
    <3>1. /\ \A x \in tracks : x.seen = o.seen /\ Music!Orphan(x) <=> x = o
          /\ \A x \in tracks : x.seen = o.seen /\ ~Music!Orphan(x) <=> x = s
      BY <2>2, <2>5, <2>6, <2>7, <2>8, <2>12
    <3>. HIDE DEF twice
    <3>. QED
      BY <1>2, <3>1, HeirsOf
  <2>14. o.id \in handed
    BY <2>10, <2>13
  <2>15. to(o.id) = s.id
    <3>1. o.id \in Music!Heir(to(o.id))
      BY <1>4, <2>14
    <3>. QED
      BY <2>11, <2>13, <3>1
  <2>16. s.id \in DOMAIN entries'
    BY <1>8, <1>50, <2>2, <2>14, <2>15
  <2>. QED
    BY <1>1, <2>5, <2>6, <2>16 DEF Arrived, Lost
<1>14. \A f : OneCopy(f)' <=> OneCopy(f)
  BY <1>1 DEF OneCopy
<1>15. ScanInv'
  BY <1>1, <1>11, <1>12, <1>13, <1>14 DEF LibraryInv, ScanInv
<1>. QED
  BY <1>7, <1>10, <1>15 DEF LibraryInv, MusicTypes

-----------------------------------------------------------------------------
LEMMA LibraryStep ==
  ASSUME LibraryInv, [Music!Next]_(Music!vars) PROVE LibraryInv'
<1>1. CASE UNCHANGED Music!vars
  <2>1. UNCHANGED <<tree, tracks, albums, plays, lyrics, entries, stage, todo, settled, moved, clashed>>
    BY <1>1 DEF Music!vars, Music!data, Music!history
  <2>2. MusicTypes'
    BY <2>1 DEF LibraryInv, MusicTypes, Shelved, Listings
  <2>. QED
    BY <2>1, <2>2, LibraryListed
<1>2. CASE Music!BeginScan \/ Music!Finalize \/ Music!Relink \/ Music!Prune \/ Music!Cleanup \/ Music!Cancel
  BY <1>2, LibraryBeginScan, LibraryFinalize, LibraryRelink, LibraryPrune, LibraryCleanup, LibraryCancel
<1>3. ASSUME NEW none \in BOOLEAN, Music!EndFiles(none) PROVE LibraryInv'
  BY <1>3, LibraryEndFiles
<1>4. ASSUME NEW p \in Paths, Music!ScanFile(p) PROVE LibraryInv'
  BY <1>4, LibraryScanFile
<1>5. ASSUME NEW p \in Paths, NEW q \in Paths,
             Music!ScanFileFails(p) \/ Music!Unlink(p) \/ Music!Relocate(p, q)
      PROVE  LibraryInv'
  BY <1>5, LibraryOutside
<1>6. ASSUME NEW a \in albums, NEW name, Music!AlbumEdit(a.id, name) PROVE LibraryInv'
  <2>1. PICK paths \in Music!SetToSeqs({p \in Music!AlbumPaths(a.id) : tree[p] # Music!Gone}) : TRUE
    BY <1>6 DEF Music!AlbumEdit, Music!Edit
  <2>. QED
    BY <1>6, AlbumPathsFinite, LibraryEdit DEF Music!AlbumEdit
<1>7. ASSUME NEW r \in tracks, NEW name, Music!TrackEdit(r, name) PROVE LibraryInv'
  BY <1>7, LibraryEdits, LibraryEdit, FS_Singleton
     DEF Music!TrackEdit, LibraryInv, MusicTypes, Shelved, Shelf
<1>8. ASSUME NEW a \in albums, Music!Rescan(a.id) \/ Music!Writeback(a) PROVE LibraryInv'
  <2>1. CASE Music!Rescan(a.id)
    <3>1. PICK r \in tracks : TRUE
      BY <2>1 DEF Music!Rescan, Music!AlbumPaths, Music!On
    <3>. QED
      BY <2>1, <3>1, LibraryEdits
  <2>2. CASE Music!Writeback(a)
    BY <2>2, LibraryFilesChange DEF Music!Writeback, Music!data
  <2>. QED
    BY <1>8, <2>1, <2>2
<1>9. ASSUME NEW a \in albums, NEW b \in albums, Music!MergeAlbums(a, b) PROVE LibraryInv'
  BY <1>9, LibraryMerge
<1>10. ASSUME NEW r \in tracks, Music!Play(r) \/ Music!Lyrics(r) \/ Music!AddTrack(r) PROVE LibraryInv'
  BY <1>10, LibraryHeard, LibraryAdd
<1>11. ASSUME NEW t \in DOMAIN entries, Music!RemoveTrack(t) PROVE LibraryInv'
  BY <1>11, LibraryUnlist
<1>12. ASSUME NEW t \in DOMAIN entries, NEW by, Music!MoveTrack(t, by) PROVE LibraryInv'
  BY <1>12, LibraryReorder
<1>13. CASE Music!DeletePlaylist
  BY <1>13, LibraryClears
<1>14. CASE Music!Next
  BY <1>2, <1>3, <1>4, <1>5, <1>6, <1>7, <1>8, <1>9, <1>10, <1>11, <1>12, <1>13, <1>14 DEF Music!Next
<1>. QED
  BY <1>1, <1>14

LEMMA MusicTurn ==
  ASSUME [Next]_vars, part' = "music" PROVE part = "music" /\ [Music!Next]_(Music!vars)
<1>1. CASE Next
  BY <1>1 DEF Next, Turn
<1>2. CASE UNCHANGED vars
  BY <1>2 DEF vars, sharedVars, musicVars, Music!vars, Music!data, Music!history
<1>. QED
  BY <1>1, <1>2

LEMMA MusicRuns == Spec => [](part = "music" => LibraryInv)
<1>. DEFINE Inv == part = "music" => LibraryInv
<1>1. Init => Inv
  BY LibraryBegins DEF Init, Begun
<1>2. Inv /\ [Next]_vars => Inv'
  BY MusicTurn, LibraryStep
<1>. QED
  BY <1>1, <1>2, PTL DEF Spec

(* The playlist of a music library with any finite number of files follows *)
(* a file that moves (internal/scan, relinkMovedTracks): when a scan that  *)
(* nobody disturbed ends, a file whose row had lost it and was listed is   *)
(* listed where it is, if it lies at one path and its rows are not         *)
(* ambiguous.                                                              *)
THEOREM PlaylistFollowsFiles ==
  ASSUME IsFiniteSet(Paths)
  PROVE  Spec => []EntryFollowsFile
<1>1. (part = "music" => LibraryInv) => EntryFollowsFile
  <2>1. SUFFICES ASSUME part = "music", LibraryInv, stage = "done", settled,
                        NEW f \in moved \ clashed,
                        Music!Cardinality({p \in Music!Present : tree[p] = f}) = 1
                 PROVE  \E r \in tracks : r.seen = f /\ r.id \in DOMAIN entries
    BY DEF EntryFollowsFile, Music!EntryFollowsFile, Music!Followed
  <2>. DEFINE S == {p \in Music!Present : tree[p] = f}
  <2>2. S \in SUBSET Paths
    BY DEF Music!Present
  <2>3. Cardinality(S) = 1
    BY <2>1, MusicSizes DEF SizeOfLibrary
  <2>. HIDE DEF S
  <2>4. PICK p : S = {p}
    BY <2>2, <2>3, FS_Subset, FS_Singleton
  <2>5. OneCopy(f)
    BY <2>2, <2>4 DEF S, OneCopy, Music!Present
  <2>6. Arrived(f)
    BY <2>1, <2>5 DEF LibraryInv, ScanInv
  <2>. QED
    BY <2>6 DEF Arrived
<1>. QED
  BY <1>1, MusicRuns, PTL

(* When a scan that nobody disturbed ends, the library has a row for every *)
(* audio file and no other, with what the file says now (internal/scan).   *)
THEOREM ScansLeaveARowPerFile ==
  Spec => [](part = "music" /\ stage = "done" /\ settled => Music!RowsAreFiles)
<1>1. (part = "music" => LibraryInv)
         => (part = "music" /\ stage = "done" /\ settled => Music!RowsAreFiles)
  <2>1. SUFFICES ASSUME LibraryInv, stage = "done", settled PROVE Music!RowsAreFiles
    OBVIOUS
  <2>2. /\ \A p \in Music!Present : Music!Known(p)
        /\ \A r \in tracks : ~Lost(r)
    BY <2>1 DEF LibraryInv, ScanInv
  <2>3. /\ \A r \in tracks : r.path \in Paths
        /\ \A r, s \in tracks : r.path = s.path => r = s
    BY <2>1 DEF LibraryInv, MusicTypes, Shelved, Shelf
  <2>4. \A r \in tracks : r.path \in Music!Present /\ r.seen = tree[r.path]
    BY <2>2, <2>3 DEF Lost, Music!Present, Music!Known
  <2>5. \A p \in Music!Present : \E r \in tracks : r.path = p /\ r.seen = tree[p]
    BY <2>2 DEF Music!Known
  <2>6. \A x \in {<<r.path, r.seen>> : r \in tracks} : x \in {<<p, tree[p]>> : p \in Music!Present}
    BY <2>4
  <2>7. \A x \in {<<p, tree[p]>> : p \in Music!Present} : x \in {<<r.path, r.seen>> : r \in tracks}
    BY <2>5
  <2>. QED
    BY <2>6, <2>7 DEF Music!RowsAreFiles
<1>. QED
  BY <1>1, MusicRuns, PTL

-----------------------------------------------------------------------------
(* A tree whose albums can be told apart in any order: the files of one    *)
(* album artist agree on the compilation flag, Various Artists has it, and *)
(* at most one album artist has an album that nobody dominates.            *)
NameAt(p) == Music!AlbumArtist(tree[p])
Orderly ==
    /\ \A p, q \in Music!Present : NameAt(p) = NameAt(q) => Music!Marked(tree[p]) = Music!Marked(tree[q])
    /\ \A p \in Music!Present : NameAt(p) = Music!VA => Music!Marked(tree[p])
    /\ \A m, n \in Music!Names : Music!Mixed(m) /\ Music!Mixed(n) => m = n

(* The rows are files of the tree, on the album their tags say.            *)
Filed(st) ==
    /\ \A r \in st.rows : /\ r.path \in Music!Present /\ r.seen = tree[r.path]
                          /\ r.artist = tree[r.path].artist
    /\ \A a \in st.albums : a.id \in Nat
    /\ \A r \in st.rows, a \in st.albums : a.id = r.album =>
          a.artist = NameAt(r.path) /\ a.comp = Music!Marked(tree[r.path])
Full(st) == \A p \in Music!Present : \E r \in st.rows : r.path = p
LEMMA FileFiled ==
  ASSUME NEW st, Shelf(st), Filed(st), Orderly, NEW p \in Music!Present
  PROVE  Filed(Music!WithFile(st, p, tree[p]))
<1>. DEFINE f == tree[p]
            name == Music!AlbumArtist(f)
            same == {a \in st.albums : a.artist = name}
            id == IF same = {} THEN Music!NewId(st.albums) ELSE (CHOOSE a \in same : TRUE).id
            old == {r \in st.rows : r.path = p}
            num == IF old = {} THEN Music!NewId(st.rows) ELSE (CHOOSE r \in old : TRUE).id
            row1 == [id |-> num, path |-> p, seen |-> f, artist |-> f.artist, album |-> id]
            alb == [id |-> id, artist |-> name, comp |-> Music!Marked(f)]
            albums1 == (st.albums \ same) \cup {alb}
            rows1 == (st.rows \ old) \cup {row1}
            n == Music!WithFile(st, p, f)
<1>1. n.albums = albums1 /\ n.rows = rows1
  <2>1. n = [albums |-> albums1, rows |-> rows1, plays |-> st.plays]
    BY Zenon DEF Music!WithFile
  <2>. HIDE DEF n, albums1, rows1
  <2>. QED
    BY <2>1
<1>. HIDE DEF n
<1>2. /\ row1.path = p /\ row1.seen = f /\ row1.artist = f.artist /\ row1.album = id
      /\ alb.id = id /\ alb.artist = name /\ alb.comp = Music!Marked(f)
  OBVIOUS
<1>. HIDE DEF row1, alb
<1>3. \A r \in st.rows : \E a \in st.albums : a.id = r.album
  BY Zenon DEF Shelf
<1>4. \A a, b \in st.albums : a.id = b.id \/ a.artist = b.artist => a = b
  BY Zenon DEF Shelf
<1>5. /\ \A a \in st.albums \ same : a.id # id
      /\ \A a \in same : a.id = id
      /\ id \in Nat
  <2>1. CASE same = {}
    <3>1. \A a \in st.albums : a.id # Music!NewId(st.albums)
      BY NewNumber, Zenon DEF Shelf
    <3>2. Music!NewId(st.albums) \in Nat
      BY NewNumber, Zenon DEF Shelf
    <3>. QED
      BY <2>1, <3>1, <3>2
  <2>2. CASE same # {}
    <3>. DEFINE b == CHOOSE a \in same : TRUE
    <3>1. b \in same
      BY <2>2
    <3>2. id = b.id
      BY <2>2
    <3>. HIDE DEF b
    <3>3. b \in st.albums
      BY <3>1
    <3>4. \A a \in st.albums : a.id = b.id \/ a.artist = b.artist => a = b
      BY <1>4, <3>3
    <3>. QED
      BY <3>1, <3>2, <3>3, <3>4 DEF Filed
  <2>. QED
    BY <2>1, <2>2
<1>. HIDE DEF id
<1>6. \A r \in rows1 : r.path \in Music!Present /\ r.seen = tree[r.path] /\ r.artist = tree[r.path].artist
  BY <1>2 DEF Filed
<1>7. \A a \in albums1 : a.id \in Nat
  BY <1>2, <1>5 DEF Filed
<1>8. ASSUME NEW r \in rows1, NEW a \in albums1, a.id = r.album
      PROVE  a.artist = NameAt(r.path) /\ a.comp = Music!Marked(tree[r.path])
  <2>1. CASE r = row1
    <3>1. a = alb
      BY <1>2, <1>5, <1>8, <2>1
    <3>. QED
      BY <1>2, <2>1, <3>1 DEF NameAt
  <2>2. CASE r \in st.rows /\ a # alb
    BY <1>8, <2>2 DEF Filed
  <2>3. CASE r \in st.rows /\ a = alb
    <3>1. PICK b \in st.albums : b.id = r.album
      BY <1>3, <2>3
    <3>2. b \in same
      BY <1>2, <1>5, <1>8, <2>3, <3>1
    <3>3. b.artist = NameAt(r.path) /\ b.artist = name /\ r.path \in Music!Present
      BY <2>3, <3>1, <3>2 DEF Filed
    <3>4. NameAt(p) = NameAt(r.path)
      BY <3>3 DEF NameAt
    <3>5. Music!Marked(tree[r.path]) = Music!Marked(f)
      BY <3>3, <3>4 DEF Orderly
    <3>. QED
      BY <1>2, <2>3, <3>3, <3>5
  <2>. QED
    BY <2>1, <2>2, <2>3
<1>. QED
  BY <1>1, <1>6, <1>7, <1>8 DEF n, Filed

-----------------------------------------------------------------------------
(* An album's rows are the files of its artist.                            *)
By(R, x) == {r \in R : r.artist = x}
PathsOf(R) == {r.path : r \in R}
LEMMA RowsCount ==
  ASSUME NEW st, Shelf(st), NEW R \in SUBSET st.rows
  PROVE  /\ IsFiniteSet(R) /\ Cardinality(R) \in Nat
         /\ IsFiniteSet(PathsOf(R)) /\ Cardinality(PathsOf(R)) = Cardinality(R)
<1>. DEFINE f == [r \in R |-> r.path]
<1>1. IsFiniteSet(R) /\ Cardinality(R) \in Nat
  BY FS_Subset, FS_CardinalityType DEF Shelf
<1>2. \A r, s \in R : r.path = s.path => r = s
  BY DEF Shelf
<1>3. f \in Bijection(R, PathsOf(R))
  BY <1>2 DEF Bijection, Injection, Surjection, IsInjective, PathsOf
<1>4. ExistsBijection(R, PathsOf(R))
  BY <1>3, Zenon DEF ExistsBijection
<1>5. IsFiniteSet(PathsOf(R)) /\ Cardinality(PathsOf(R)) = Cardinality(R)
  BY <1>1, <1>4, FS_Bijection
<1>. QED
  BY <1>1, <1>5

LEMMA AlbumIsGroup ==
  ASSUME NEW st, Shelf(st), Filed(st), Full(st), NEW a \in st.albums
  PROVE  LET own == Music!On(st.rows, a.id) IN
         /\ PathsOf(own) = Music!GroupOf(a.artist)
         /\ \A x : PathsOf(By(own, x)) = {p \in Music!GroupOf(a.artist) : tree[p].artist = x}
<1>. DEFINE own == Music!On(st.rows, a.id)
            G == Music!GroupOf(a.artist)
<1>1. \A r \in own : /\ r \in st.rows /\ r.path \in G /\ r.artist = tree[r.path].artist
  BY DEF Music!On, Music!GroupOf, Filed, NameAt
<1>2. ASSUME NEW p \in G PROVE \E r \in own : r.path = p
  <2>1. p \in Music!Present /\ NameAt(p) = a.artist
    BY DEF Music!GroupOf, NameAt
  <2>2. PICK r \in st.rows : r.path = p
    BY <2>1 DEF Full
  <2>3. PICK b \in st.albums : b.id = r.album
    BY DEF Shelf
  <2>4. b.artist = a.artist
    BY <2>1, <2>2, <2>3 DEF Filed
  <2>5. b = a
    BY <2>4, Zenon DEF Shelf
  <2>. QED
    BY <2>2, <2>3, <2>5 DEF Music!On
<1>. HIDE DEF own, G
<1>3. PathsOf(own) = G
  BY <1>1, <1>2 DEF PathsOf
<1>4. ASSUME NEW x PROVE PathsOf(By(own, x)) = {p \in G : tree[p].artist = x}
  BY <1>1, <1>2 DEF PathsOf, By
<1>. QED
  BY <1>3, <1>4 DEF own, G

(* One artist has most of the tracks.                                      *)
Dominated(R) == \E r \in R : 2 * Cardinality(By(R, r.artist)) > Cardinality(R)
Most(R) == Music!Max({Music!Cardinality({r \in R : r.artist = x}) : x \in {r.artist : r \in R}} \cup {0})
LEMMA MostDominates ==
  ASSUME NEW R, IsFiniteSet(R), R # {}
  PROVE  2 * Most(R) > Cardinality(R) <=> Dominated(R)
<1>. DEFINE f == [r \in R |-> Cardinality(By(R, r.artist))]
            V == {f[r] : r \in R}
            T == V \cup {0}
<1>1. \A r \in R : f[r] \in Nat
  <2>1. \A r \in R : By(R, r.artist) \in SUBSET R
    BY DEF By
  <2>2. \A r \in R : Cardinality(By(R, r.artist)) \in Nat
    BY <2>1, FS_Subset, FS_CardinalityType
  <2>. QED
    BY <2>2
<1>2. Most(R) = Music!Max(T)
  <2>1. {Music!Cardinality({r \in R : r.artist = x}) : x \in {r.artist : r \in R}} = V
    BY MusicSizes DEF SizeOfLibrary, By
  <2>. QED
    BY <2>1 DEF Most
<1>3. \A r \in R : f[r] = Cardinality(By(R, r.artist))
  OBVIOUS
<1>4. Cardinality(R) \in Nat /\ Cardinality(R) # 0
  BY FS_CardinalityType, FS_EmptySet
<1>. HIDE DEF f
<1>5. IsFiniteSet(T) /\ T \subseteq Nat /\ T # {}
  <2>1. IsFiniteSet(V)
    BY ImageOfFinite
  <2>2. IsFiniteSet(V \cup {0})
    BY <2>1, FS_AddElement
  <2>. QED
    BY <1>1, <2>2
<1>6. \E m \in T : \A n \in T : m >= n
  <2>1. PICK m \in T : \A n \in T : n <= m
    BY <1>5, Greatest
  <2>. QED
    BY <1>5, <2>1
<1>7. \A r \in R : f[r] \in T
  OBVIOUS
<1>8. \A t \in T : t = 0 \/ \E r \in R : t = f[r]
  OBVIOUS
<1>. HIDE DEF T
<1>9. Most(R) \in T /\ \A n \in T : Most(R) >= n
  BY <1>2, <1>6 DEF Music!Max
<1>10. Most(R) \in Nat
  BY <1>5, <1>9
<1>11. ASSUME 2 * Most(R) > Cardinality(R) PROVE Dominated(R)
  <2>1. Most(R) # 0
    BY <1>4, <1>11
  <2>2. PICK r \in R : Most(R) = f[r]
    BY <1>8, <1>9, <2>1
  <2>. QED
    BY <1>3, <1>11, <2>2 DEF Dominated
<1>12. ASSUME Dominated(R) PROVE 2 * Most(R) > Cardinality(R)
  <2>1. PICK r \in R : 2 * f[r] > Cardinality(R)
    BY <1>3, <1>12 DEF Dominated
  <2>2. Most(R) >= f[r] /\ f[r] \in Nat
    BY <1>1, <1>7, <1>9
  <2>. QED
    BY <1>4, <1>10, <2>1, <2>2
<1>. QED
  BY <1>11, <1>12

Candidate(st, a) ==
    ~a.comp /\ Music!Cardinality({r.artist : r \in Music!On(st.rows, a.id)}) > 1
LEMMA MixedAlbum ==
  ASSUME NEW st, Shelf(st), Filed(st), Full(st), NEW a \in st.albums,
         Music!On(st.rows, a.id) # {}
  PROVE  /\ Music!Mixed(a.artist) <=> ~a.comp /\ ~Dominated(Music!On(st.rows, a.id))
         /\ Music!Mixed(a.artist) => Candidate(st, a)
<1>. DEFINE own == Music!On(st.rows, a.id)
            G == Music!GroupOf(a.artist)
<1>0. own \in SUBSET st.rows /\ \A x : By(own, x) \in SUBSET own
  BY DEF Music!On, By
<1>1. PathsOf(own) = G /\ \A x : PathsOf(By(own, x)) = {p \in G : tree[p].artist = x}
  BY AlbumIsGroup
<1>2. \A r \in own : r.artist = tree[r.path].artist /\ a.comp = Music!Marked(tree[r.path])
  BY DEF Music!On, Filed
<1>. HIDE DEF own, G
<1>3. /\ Cardinality(own) = Cardinality(G) /\ Cardinality(own) \in Nat /\ IsFiniteSet(own)
      /\ \A x : /\ Cardinality(By(own, x)) = Cardinality({p \in G : tree[p].artist = x})
                /\ Cardinality(By(own, x)) \in Nat
  <2>1. Cardinality(own) = Cardinality(G) /\ Cardinality(own) \in Nat /\ IsFiniteSet(own)
    BY <1>0, <1>1, RowsCount
  <2>2. ASSUME NEW x
        PROVE  /\ Cardinality(By(own, x)) = Cardinality({p \in G : tree[p].artist = x})
               /\ Cardinality(By(own, x)) \in Nat
    <3>1. By(own, x) \in SUBSET st.rows
      BY <1>0
    <3>2. Cardinality(PathsOf(By(own, x))) = Cardinality(By(own, x)) /\ Cardinality(By(own, x)) \in Nat
      BY <3>1, RowsCount
    <3>. QED
      BY <1>1, <3>2
  <2>. QED
    BY <2>1, <2>2
<1>4. Music!Mixed(a.artist) <=>
        /\ \A p \in G : ~Music!Marked(tree[p])
        /\ \A p \in G : 2 * Cardinality({q \in G : tree[q].artist = tree[p].artist}) <= Cardinality(G)
  BY MusicSizes, Zenon DEF Music!Mixed, SizeOfLibrary, G
<1>5. /\ \A p \in G : \E r \in own : r.path = p
      /\ \A r \in own : r.path \in G
  BY <1>1 DEF PathsOf
<1>6. (\A p \in G : ~Music!Marked(tree[p])) <=> ~a.comp
  BY <1>2, <1>5 DEF own
<1>7. (\A p \in G : 2 * Cardinality({q \in G : tree[q].artist = tree[p].artist}) <= Cardinality(G))
      <=> ~Dominated(own)
  <2>1. (\A p \in G : 2 * Cardinality({q \in G : tree[q].artist = tree[p].artist}) <= Cardinality(G))
        <=> \A r \in own : 2 * Cardinality(By(own, r.artist)) <= Cardinality(own)
    <3>. DEFINE of(x) == Cardinality({q \in G : tree[q].artist = x})
    <3>1. \A x : Cardinality(By(own, x)) = of(x)
      BY <1>3
    <3>. HIDE DEF of
    <3>2. (\A p \in G : 2 * of(tree[p].artist) <= Cardinality(G))
          <=> \A r \in own : 2 * of(r.artist) <= Cardinality(own)
      BY <1>2, <1>3, <1>5
    <3>. QED
      BY <3>1, <3>2 DEF of
  <2>2. \A r \in own : /\ Cardinality(By(own, r.artist)) \in Nat /\ Cardinality(own) \in Nat
                       /\ 2 * Cardinality(By(own, r.artist)) <= Cardinality(own)
                            <=> ~(2 * Cardinality(By(own, r.artist)) > Cardinality(own))
    BY <1>3
  <2>. QED
    BY <2>1, <2>2 DEF Dominated
<1>8. ASSUME ~a.comp, ~Dominated(own) PROVE Candidate(st, a)
  <2>. DEFINE A == {r.artist : r \in own}
              g == [r \in own |-> r.artist]
  <2>1. IsFiniteSet(A) /\ Cardinality(A) \in Nat
    <3>1. A = {g[r] : r \in own}
      OBVIOUS
    <3>. HIDE DEF g
    <3>2. IsFiniteSet({g[r] : r \in own})
      BY <1>3, ImageOfFinite
    <3>. QED
      BY <3>1, <3>2, FS_CardinalityType
  <2>2. Cardinality(A) > 1
    <3>1. SUFFICES ASSUME ~(Cardinality(A) > 1) PROVE FALSE
      OBVIOUS
    <3>2. PICK r \in own : TRUE
      BY DEF own
    <3>3. r.artist \in A
      OBVIOUS
    <3>. HIDE DEF A
    <3>4. Cardinality(A) # 0
      BY <2>1, <3>3, FS_EmptySet
    <3>5. Cardinality(A) = 1
      BY <2>1, <3>1, <3>4
    <3>6. PICK x : A = {x}
      BY <2>1, <3>5, FS_Singleton
    <3>7. \A s \in own : s.artist = r.artist
      BY <3>3, <3>6 DEF A
    <3>8. By(own, r.artist) = own
      BY <3>7 DEF By
    <3>9. Cardinality(own) # 0
      BY <1>3, <3>2, FS_EmptySet
    <3>10. 2 * Cardinality(own) > Cardinality(own)
      BY <1>3, <3>9
    <3>. QED
      BY <1>8, <3>2, <3>8, <3>10 DEF Dominated
  <2>. QED
    BY <1>8, <2>2, MusicSizes DEF Candidate, SizeOfLibrary, own
<1>. QED
  BY <1>4, <1>6, <1>7, <1>8 DEF own

(* A candidate that one artist dominates stays as it is.                   *)
LEMMA DominatedStays ==
  ASSUME NEW st, Shelf(st), NEW a,
         Music!On(st.rows, a) = {} \/ Dominated(Music!On(st.rows, a))
  PROVE  Music!Promoted(st, a) = st
<1>. DEFINE own == Music!On(st.rows, a)
<1>1. IsFiniteSet(own)
  <2>1. own \in SUBSET st.rows
    BY DEF Music!On
  <2>. QED
    BY <2>1, RowsCount
<1>2. own = {} \/ 2 * Most(own) > Cardinality(own)
  BY <1>1, MostDominates
<1>3. own = {} \/ 2 * Music!Max({Music!Cardinality({r \in own : r.artist = x}) :
                                   x \in {r.artist : r \in own}} \cup {0}) > Music!Cardinality(own)
  BY <1>2, MusicSizes, Zenon DEF Most, SizeOfLibrary
<1>. QED
  BY <1>3, Zenon DEF Music!Promoted

(* A row is on an album exactly when its tags name the album's artist.     *)
LEMMA AlbumOfRow ==
  ASSUME NEW st, Shelf(st), Filed(st), NEW r \in st.rows, NEW b \in st.albums
  PROVE  r.album = b.id <=> NameAt(r.path) = b.artist
<1>1. PICK c \in st.albums : c.id = r.album
  BY DEF Shelf
<1>2. c.artist = NameAt(r.path)
  BY <1>1 DEF Filed
<1>3. b.id = c.id \/ b.artist = c.artist => b = c
  BY Zenon DEF Shelf
<1>. QED
  BY <1>1, <1>2, <1>3
LEMMA FoldersOfAlbums ==
  ASSUME NEW st, Shelf(st), Filed(st), Full(st), NEW N, NEW R \in SUBSET st.rows,
         \A r \in st.rows : r \in R <=> NameAt(r.path) \in N
  PROVE  Music!Dirs(R) = Music!Folders(N)
<1>1. ASSUME NEW r \in R PROVE r.path \in Music!Present /\ Music!AlbumArtist(tree[r.path]) \in N
  BY DEF Filed, NameAt
<1>2. ASSUME NEW p \in Music!Present, Music!AlbumArtist(tree[p]) \in N PROVE \E r \in R : r.path = p
  BY <1>2 DEF Full, NameAt
<1>. QED
  BY <1>1, <1>2 DEF Music!Dirs, Music!Folders

(* The one that nobody dominates becomes the compilation, or joins the one *)
(* there is, with what lies in the same folders.                           *)
Gathered(st, t, a, goal, merge) ==
    /\ t.rows = Rehomed(st.rows, merge, goal)
    /\ \A b \in st.albums : Music!On(st.rows, b.id) # {} =>
          (b.id \in merge \cup {goal} <=> b.artist \in Music!Compiled)
    /\ \A b \in st.albums : b.id = goal => b = a \/ b.artist = Music!VA
    /\ goal \notin merge
LEMMA MixedGathers ==
  ASSUME NEW st, Shelf(st), Filed(st), Full(st), Orderly, NEW a \in st.albums,
         Music!On(st.rows, a.id) # {}, Music!Mixed(a.artist)
  PROVE  \E goal, merge : Gathered(st, Music!Promoted(st, a.id), a, goal, merge)
<1>. DEFINE own == Music!On(st.rows, a.id)
            other == {v \in st.albums : v.artist = Music!VA /\ v.id # a.id}
            filled == {v \in other : Music!On(st.rows, v.id) # {}}
            goal == IF filled # {} THEN (CHOOSE v \in filled : TRUE).id ELSE a.id
            kept == {v \in st.albums : v.id # goal /\ v \notin other \ filled}
            fragments == {v.id : v \in {w \in kept : w.id # a.id /\ Music!Colocated(st, {a.id, goal}, w.id)}}
            merge == fragments \cup (IF goal = a.id THEN {} ELSE {a.id})
            alb == [id |-> goal, artist |-> Music!VA, comp |-> TRUE]
            rows1 == {IF r.album \in merge THEN [r EXCEPT !.album = goal] ELSE r : r \in st.rows}
            plays1 == {x \in st.plays : x.album \notin {v.id : v \in other \ filled}}
            t == Music!Promoted(st, a.id)
            M == a.artist
<1>1. IsFiniteSet(own) /\ own # {} /\ ~Dominated(own)
  <2>1. own \in SUBSET st.rows
    BY DEF Music!On
  <2>. QED
    BY <2>1, RowsCount, MixedAlbum
<1>2. ~(2 * Most(own) > Cardinality(own))
  BY <1>1, MostDominates
<1>3. t.rows = Rehomed(st.rows, merge, goal)
  <2>1. t = [albums |-> kept \cup {alb}, rows |-> rows1, plays |-> plays1]
    <3>1. Most(own) = Music!Max({Music!Cardinality({r \in own : r.artist = x}) :
                                     x \in {r.artist : r \in own}} \cup {0})
      BY DEF Most
    <3>2. Music!Cardinality(own) = Cardinality(own)
      BY MusicSizes DEF SizeOfLibrary
    <3>3. ~(own = {} \/ 2 * Music!Max({Music!Cardinality({r \in own : r.artist = x}) :
                                     x \in {r.artist : r \in own}} \cup {0}) > Music!Cardinality(own))
      BY <1>1, <1>2, <3>1, <3>2, Zenon
    <3>. QED
      BY <3>3, Zenon DEF Music!Promoted
  <2>2. rows1 = Rehomed(st.rows, merge, goal)
    BY Zenon DEF Rehomed
  <2>. HIDE DEF t, rows1, plays1, kept, alb
  <2>3. t.rows = rows1
    BY <2>1
  <2>. QED
    BY <2>2, <2>3
<1>. HIDE DEF t
<1>4. \A b, c \in st.albums : b.id = c.id \/ b.artist = c.artist => b = c
  BY Zenon DEF Shelf
<1>5. \A r \in st.rows, b \in st.albums : r.album = b.id <=> NameAt(r.path) = b.artist
  BY AlbumOfRow
<1>6. M # Music!VA /\ M \in Music!Names /\ \A m \in Music!Names : Music!Mixed(m) <=> m = M
  <2>1. PICK r \in own : TRUE
    BY <1>1
  <2>2. r \in st.rows /\ r.album = a.id
    BY DEF Music!On
  <2>3. r.path \in Music!Present /\ NameAt(r.path) = M /\ a.comp = Music!Marked(tree[r.path])
    BY <2>2 DEF Filed
  <2>4. ~a.comp
    BY MixedAlbum
  <2>5. M \in Music!Names
    BY <2>3 DEF Music!Names, NameAt
  <2>. QED
    BY <2>3, <2>4, <2>5 DEF Orderly
<1>7. Music!Compiled = {M} \cup {n \in Music!Names : n = Music!VA
                                     \/ Music!Folders({n}) \cap Music!Folders({M} \cup {Music!VA}) # {}}
  <2>1. {n \in Music!Names : Music!Mixed(n)} = {M}
    BY <1>6
  <2>. QED
    BY <2>1, Zenon DEF Music!Compiled
<1>8. /\ filled # {} => \E v \in filled : goal = v.id
      /\ filled = {} => goal = a.id
  <2>1. ASSUME filled # {} PROVE \E v \in filled : goal = v.id
    <3>. DEFINE v == CHOOSE w \in filled : TRUE
    <3>1. v \in filled
      BY <2>1
    <3>2. goal = v.id
      BY <2>1
    <3>. QED
      BY <3>1, <3>2
  <2>. QED
    BY <2>1
<1>. HIDE DEF goal
(* The rows of the two are those of the two artists. *)
<1>9. \A r \in st.rows : r.album \in {a.id, goal} <=> NameAt(r.path) \in {M} \cup {Music!VA}
  <2>1. CASE filled # {}
    <3>1. PICK v \in filled : goal = v.id
      BY <1>8, <2>1
    <3>2. v \in st.albums /\ v.artist = Music!VA
      OBVIOUS
    <3>. HIDE DEF filled
    <3>. QED
      BY <1>5, <3>1, <3>2
  <2>2. CASE filled = {}
    <3>1. ASSUME NEW r \in st.rows, NameAt(r.path) = Music!VA PROVE FALSE
      <4>1. PICK c \in st.albums : c.id = r.album
        BY DEF Shelf
      <4>2. c.artist = Music!VA
        BY <1>5, <3>1, <4>1
      <4>3. c.id # a.id
        BY <1>4, <1>6, <4>2
      <4>4. r \in Music!On(st.rows, c.id)
        BY <4>1 DEF Music!On
      <4>. QED
        BY <2>2, <4>2, <4>3, <4>4
    <3>. QED
      BY <1>5, <1>8, <2>2, <3>1
  <2>. QED
    BY <2>1, <2>2
<1>10. Music!Dirs({r \in st.rows : r.album \in {a.id, goal}}) = Music!Folders({M} \cup {Music!VA})
  <2>. DEFINE R == {r \in st.rows : r.album \in {a.id, goal}}
  <2>1. R \in SUBSET st.rows /\ \A r \in st.rows : r \in R <=> NameAt(r.path) \in {M} \cup {Music!VA}
    BY <1>9
  <2>. HIDE DEF R, M
  <2>2. Music!Dirs(R) = Music!Folders({M} \cup {Music!VA})
    BY <2>1, FoldersOfAlbums
  <2>. QED
    BY <2>2 DEF R
<1>11. ASSUME NEW b \in st.albums
       PROVE  Music!Dirs(Music!On(st.rows, b.id)) = Music!Folders({b.artist})
  <2>. DEFINE R == Music!On(st.rows, b.id)
  <2>1. R \in SUBSET st.rows /\ \A r \in st.rows : r \in R <=> NameAt(r.path) \in {b.artist}
    BY <1>5 DEF Music!On
  <2>. HIDE DEF R
  <2>2. Music!Dirs(R) = Music!Folders({b.artist})
    BY <2>1, FoldersOfAlbums
  <2>. QED
    BY <2>2 DEF R
<1>12. \A b \in st.albums : b.id = goal => b = a \/ b.artist = Music!VA
  BY <1>4, <1>8
<1>13. goal \notin merge
  BY <1>8
<1>14. ASSUME NEW b \in st.albums, Music!On(st.rows, b.id) # {}
       PROVE  b.id \in merge \cup {goal} <=> b.artist \in Music!Compiled
  <2>1. b.artist \in Music!Names
    <3>1. PICK r \in st.rows : r.album = b.id
      BY <1>14 DEF Music!On
    <3>2. NameAt(r.path) = b.artist /\ r.path \in Music!Present
      BY <1>5, <3>1 DEF Filed
    <3>. QED
      BY <3>2 DEF Music!Names, NameAt
  <2>2. CASE b = a
    BY <1>7, <1>8, <2>2
  <2>3. CASE b # a /\ b.artist = Music!VA
    <3>1. b \in filled
      BY <1>4, <1>14, <2>3
    <3>2. \A v \in filled : v = b
      BY <1>4, <2>3
    <3>3. goal = b.id
      BY <1>8, <3>1, <3>2
    <3>. QED
      BY <1>7, <2>1, <2>3, <3>3
  <2>4. CASE b # a /\ b.artist # Music!VA
    <3>1. b.id # a.id /\ b.id # goal /\ b.artist # M
      BY <1>4, <1>12, <2>4
    <3>2. b \in kept
      BY <2>4, <3>1
    <3>3. Music!Colocated(st, {a.id, goal}, b.id)
            <=> Music!Folders({M} \cup {Music!VA}) \cap Music!Folders({b.artist}) # {}
      BY <1>10, <1>11, Zenon DEF Music!Colocated
    <3>4. \A w \in kept : w.id = b.id => w = b
      BY <1>4
    <3>. HIDE DEF kept, M
    <3>5. b.id \in fragments <=> Music!Colocated(st, {a.id, goal}, b.id)
      BY <3>1, <3>2, <3>4
    <3>6. b.id \in merge \cup {goal} <=> b.id \in fragments
      BY <3>1
    <3>7. b.artist \in Music!Compiled
            <=> Music!Folders({b.artist}) \cap Music!Folders({M} \cup {Music!VA}) # {}
      BY <1>7, <2>1, <2>4, <3>1
    <3>8. Music!Folders({b.artist}) \cap Music!Folders({M} \cup {Music!VA})
            = Music!Folders({M} \cup {Music!VA}) \cap Music!Folders({b.artist})
      OBVIOUS
    <3>. QED
      BY <3>3, <3>5, <3>6, <3>7, <3>8
  <2>. QED
    BY <2>2, <2>3, <2>4
<1>15. Gathered(st, t, a, goal, merge)
  BY <1>3, <1>12, <1>13, <1>14 DEF Gathered
<1>. QED
  BY <1>15 DEF t

-----------------------------------------------------------------------------
(* The candidates are promoted one after the other, each once.             *)
Candidates(st) == {a.id : a \in {b \in st.albums : Candidate(st, b)}}
LEMMA SameOrder == ASSUME NEW S PROVE Music!InOrder(S) = Queue!InOrder(S)
<1>1. \A n : Music!Place(S, n) = Queue!Place(S, n)
  BY MusicSizes, SizeOfRows, Zenon DEF Music!Place, Queue!Place, SizeOfLibrary
<1>. QED
  BY <1>1, MusicSizes, SizeOfRows DEF Music!InOrder, Queue!InOrder, SizeOfLibrary
LEMMA FinalizedSteps ==
  ASSUME NEW st, Shelf(st)
  PROVE  LET ids == Music!InOrder(Candidates(st)) IN
         /\ Len(ids) = Cardinality(Candidates(st)) /\ Len(ids) \in Nat
         /\ IsFiniteSet(Candidates(st))
         /\ \E g : /\ Music!Finalized(st) = g[Len(ids)] /\ g[0] = st
                  /\ \A n \in 1 .. Len(ids) : g[n] = Music!Promoted(g[n - 1], ids[n])
<1>. DEFINE ids == Music!InOrder(Candidates(st))
            m == Len(ids)
            after == CHOOSE g : g = [n \in 0 .. m |-> IF n = 0 THEN st
                                                      ELSE Music!Promoted(g[n - 1], ids[n])]
<1>1. Music!Finalized(st) = after[m]
  BY Zenon DEF Music!Finalized, Candidates, Candidate
<1>2. m = Cardinality(Candidates(st)) /\ m \in Nat /\ IsFiniteSet(Candidates(st))
  <2>. DEFINE A == {b \in st.albums : Candidate(st, b)}
  <2>1. IsFiniteSet(st.albums) /\ A \in SUBSET st.albums
    BY DEF Shelf
  <2>. HIDE DEF A
  <2>2. IsFiniteSet(A)
    BY <2>1, FS_Subset
  <2>3. IsFiniteSet({a.id : a \in A}) /\ Cardinality({a.id : a \in A}) \in Nat
    BY <2>2, NumbersAreFinite
  <2>4. Candidates(st) = {a.id : a \in A}
    BY DEF A, Candidates
  <2>5. ids = [n \in 1 .. Cardinality(Candidates(st)) |-> Music!Place(Candidates(st), n)]
    BY MusicSizes DEF Music!InOrder, SizeOfLibrary
  <2>. QED
    BY <2>3, <2>4, <2>5
<1>. HIDE DEF ids
<1>. HIDE DEF m
<1>3. Promotions(st, ids, m, after)
  <2>1. PICK g : Promotions(st, ids, m, g)
    BY <1>2, PromotionsExist
  <2>2. g = [n \in 0 .. m |-> IF n = 0 THEN st ELSE Music!Promoted(g[n - 1], ids[n])]
    BY <2>1, Zenon DEF Promotions
  <2>3. after = [n \in 0 .. m |-> IF n = 0 THEN st ELSE Music!Promoted(after[n - 1], ids[n])]
    BY <2>2, Zenon
  <2>. QED
    BY <2>3 DEF Promotions
<1>. HIDE DEF after
<1>4. /\ after[0] = st
      /\ \A n \in 1 .. m : after[n] = Music!Promoted(after[n - 1], ids[n])
  <2>1. \A n \in 0 .. m : after[n] = IF n = 0 THEN st ELSE Music!Promoted(after[n - 1], ids[n])
    BY <1>3 DEF Promotions
  <2>. QED
    BY <1>2, <2>1
<1>. QED
  BY <1>1, <1>2, <1>4 DEF ids, m

LEMMA RehomedOn ==
  ASSUME NEW R, \A r \in R : DOMAIN r = RowFields, NEW A, NEW v, v \notin A, NEW b, b # v
  PROVE  Music!On(Rehomed(R, A, v), b) = IF b \in A THEN {} ELSE Music!On(R, b)
<1>. DEFINE f(r) == IF r.album \in A THEN [r EXCEPT !.album = v] ELSE r
<1>1. ASSUME NEW r \in R
      PROVE  /\ r.album \in A => f(r).album = v
             /\ r.album \notin A => f(r) = r
  <2>1. ASSUME r.album \in A PROVE f(r).album = v
    BY <2>1, Rebound
  <2>. QED
    BY <2>1
<1>2. Rehomed(R, A, v) = {f(r) : r \in R}
  BY DEF Rehomed
<1>. HIDE DEF f
<1>3. \A s \in Rehomed(R, A, v) : s.album = b => s \in R /\ b \notin A
  BY <1>1, <1>2
<1>4. \A r \in R : r.album = b /\ b \notin A => r \in Rehomed(R, A, v)
  BY <1>1, <1>2
<1>. QED
  BY <1>3, <1>4 DEF Music!On

Together(R) == \A r, s \in R : (r.album = s.album) <=> Music!TogetherInTree(r.path, s.path)
LEMMA TogetherByName ==
  ASSUME NEW p, NEW q
  PROVE  Music!TogetherInTree(p, q)
           <=> NameAt(p) = NameAt(q) \/ (NameAt(p) \in Music!Compiled /\ NameAt(q) \in Music!Compiled)
<1>. DEFINE C == Music!Compiled
<1>1. Music!TogetherInTree(p, q) <=> NameAt(p) = NameAt(q) \/ {NameAt(p), NameAt(q)} \subseteq C
  BY Zenon DEF Music!TogetherInTree, NameAt
<1>. HIDE DEF C
<1>2. {NameAt(p), NameAt(q)} \subseteq C <=> NameAt(p) \in C /\ NameAt(q) \in C
  OBVIOUS
<1>. QED
  BY <1>1, <1>2 DEF C
LEMMA AlbumsByName ==
  ASSUME NEW st, Shelf(st), Filed(st), NEW r \in st.rows, NEW s \in st.rows
  PROVE  r.album = s.album <=> NameAt(r.path) = NameAt(s.path)
<1>1. PICK b \in st.albums : b.id = r.album
  BY DEF Shelf
<1>2. (r.album = b.id <=> NameAt(r.path) = b.artist) /\ (s.album = b.id <=> NameAt(s.path) = b.artist)
  BY AlbumOfRow
<1>. QED
  BY <1>1, <1>2

(* Without an album that nobody dominates they stay as they were filed.    *)
LEMMA FiledTogether ==
  ASSUME NEW st, Shelf(st), Filed(st), \A n \in Music!Names : ~Music!Mixed(n)
  PROVE  Together(st.rows)
<1>1. Music!Compiled = {}
  <2>1. {n \in Music!Names : Music!Mixed(n)} = {}
    OBVIOUS
  <2>. QED
    BY <2>1, Zenon DEF Music!Compiled
<1>. QED
  BY <1>1, AlbumsByName, TogetherByName DEF Together
LEMMA GatheredTogether ==
  ASSUME NEW st, Shelf(st), Filed(st), NEW t, NEW a, NEW goal, NEW merge,
         Gathered(st, t, a, goal, merge)
  PROVE  Together(t.rows)
<1>1. Follow(st.rows, t.rows, merge, goal)
  <2>1. /\ IsFiniteSet(st.rows) /\ \A r \in st.rows : DOMAIN r = RowFields
        /\ OnlyRows(st.rows)
    BY DEF Shelf, OnlyRows
  <2>. QED
    BY <2>1, RowsRebound DEF Gathered
<1>2. ASSUME NEW r \in st.rows
      PROVE  r.album \in merge \cup {goal} <=> NameAt(r.path) \in Music!Compiled
  <2>1. PICK b \in st.albums : b.id = r.album
    BY DEF Shelf
  <2>2. r \in Music!On(st.rows, b.id) /\ b.artist = NameAt(r.path)
    BY <2>1, AlbumOfRow DEF Music!On
  <2>. QED
    BY <2>1, <2>2 DEF Gathered
<1>3. ASSUME NEW x \in t.rows, NEW y \in t.rows
      PROVE  x.album = y.album <=> Music!TogetherInTree(x.path, y.path)
  <2>1. PICK r \in st.rows : /\ x.path = r.path
                             /\ r.album \in merge => x.album = goal
                             /\ r.album \notin merge => x.album = r.album
    BY <1>1 DEF Follow, Alike
  <2>2. PICK s \in st.rows : /\ y.path = s.path
                             /\ s.album \in merge => y.album = goal
                             /\ s.album \notin merge => y.album = s.album
    BY <1>1 DEF Follow, Alike
  <2>. DEFINE here == NameAt(x.path)
              there == NameAt(y.path)
              C == Music!Compiled
  <2>0. here = NameAt(r.path) /\ there = NameAt(s.path)
    BY <2>1, <2>2, Zenon
  <2>3. /\ r.album \in merge \cup {goal} <=> here \in C
        /\ s.album \in merge \cup {goal} <=> there \in C
    BY <1>2, <2>0
  <2>4. r.album = s.album <=> here = there
    BY <2>0, AlbumsByName
  <2>5. Music!TogetherInTree(x.path, y.path) <=> here = there \/ (here \in C /\ there \in C)
    BY TogetherByName
  <2>6. goal \notin merge
    BY DEF Gathered
  <2>. HIDE DEF here, there, C
  <2>. QED
    BY <2>1, <2>2, <2>3, <2>4, <2>5, <2>6
<1>. QED
  BY <1>3 DEF Together

(* A candidate has rows, under a name of the tree and without the flag.    *)
LEMMA CandidateHasRows ==
  ASSUME NEW st, Shelf(st), Filed(st), Full(st), Orderly, NEW b \in st.albums, Candidate(st, b)
  PROVE  /\ Music!On(st.rows, b.id) # {} /\ b.artist \in Music!Names /\ b.artist # Music!VA
         /\ ~Music!Mixed(b.artist) => Dominated(Music!On(st.rows, b.id))
<1>. DEFINE own == Music!On(st.rows, b.id)
<1>1. own # {}
  <2>1. SUFFICES ASSUME own = {} PROVE FALSE
    OBVIOUS
  <2>2. {r.artist : r \in own} = {}
    BY <2>1
  <2>3. Music!Cardinality({r.artist : r \in own}) = 0
    BY <2>2, MusicSizes, FS_EmptySet DEF SizeOfLibrary
  <2>. HIDE DEF own
  <2>4. Music!Cardinality({r.artist : r \in own}) > 1
    BY Zenon DEF Candidate, own
  <2>. QED
    BY <2>3, <2>4
<1>2. PICK r \in st.rows : r.album = b.id
  BY <1>1 DEF Music!On
<1>3. NameAt(r.path) = b.artist /\ r.path \in Music!Present /\ b.comp = Music!Marked(tree[r.path])
  BY <1>2, AlbumOfRow DEF Filed
<1>4. b.artist \in Music!Names
  BY <1>3 DEF Music!Names, NameAt
<1>5. ~b.comp
  BY Zenon DEF Candidate
<1>6. b.artist # Music!VA
  BY <1>3, <1>5 DEF Orderly
<1>7. ~Music!Mixed(b.artist) => Dominated(own)
  BY <1>1, <1>5, MixedAlbum
<1>. QED
  BY <1>1, <1>4, <1>6, <1>7

LEMMA FinalizingGroups ==
  ASSUME NEW st, Shelf(st), Filed(st), Full(st), Orderly
  PROVE  Together(Music!Finalized(st).rows)
<1>. DEFINE S == Candidates(st)
            ids == Music!InOrder(S)
            m == Len(ids)
<1>1. m \in Nat /\ IsFiniteSet(S)
  BY FinalizedSteps
<1>2. PICK g : /\ Music!Finalized(st) = g[m] /\ g[0] = st
               /\ \A n \in 1 .. m : g[n] = Music!Promoted(g[n - 1], ids[n])
  BY FinalizedSteps
<1>3. S \in SUBSET Nat /\ \A i \in S : \E b \in st.albums : b.id = i /\ Candidate(st, b)
  BY DEF Candidates, Filed
<1>4. /\ ids \in Seq(S)
      /\ \A i, j \in 1 .. m : i < j => ids[i] < ids[j]
      /\ \A i \in S : \E n \in 1 .. m : ids[n] = i
  <2>1. ids = Queue!InOrder(S)
    BY SameOrder
  <2>. HIDE DEF ids, S
  <2>. QED
    BY <1>1, <1>3, <2>1, OrderedRows
<1>5. \A b \in st.albums : Candidate(st, b) => b.id \in S
  BY DEF Candidates
<1>. HIDE DEF ids, m, S
<1>6. ASSUME NEW n \in 1 .. m
      PROVE  \E b \in st.albums : b.id = ids[n] /\ Candidate(st, b)
  <2>1. ids[n] \in S
    BY <1>4 DEF m
  <2>. QED
    BY <1>3, <2>1
<1>7. CASE \A n \in Music!Names : ~Music!Mixed(n)
  <2>. DEFINE T == {n \in 0 .. m : g[n] # st}
  <2>1. T = {}
    <3>1. SUFFICES ASSUME T # {} PROVE FALSE
      OBVIOUS
    <3>2. T \subseteq Nat
      BY <1>1
    <3>3. PICK n \in T : \A i \in T : n <= i
      BY <3>1, <3>2, Least
    <3>4. n \in 1 .. m /\ n - 1 \in 0 .. m /\ n - 1 \notin T
      BY <1>1, <1>2, <3>3
    <3>5. g[n] = Music!Promoted(st, ids[n])
      BY <1>2, <3>4
    <3>6. PICK b \in st.albums : b.id = ids[n] /\ Candidate(st, b)
      BY <1>6, <3>4
    <3>7. Dominated(Music!On(st.rows, b.id))
      BY <1>7, <3>6, CandidateHasRows
    <3>8. Music!Promoted(st, b.id) = st
      BY <3>7, DominatedStays
    <3>. QED
      BY <3>3, <3>5, <3>6, <3>8
  <2>2. g[m] = st
    BY <1>1, <2>1
  <2>. QED
    BY <1>2, <1>7, <2>2, FiledTogether
<1>8. ASSUME NEW M \in Music!Names, Music!Mixed(M) PROVE Together(Music!Finalized(st).rows)
  <2>1. PICK p \in Music!Present : NameAt(p) = M
    BY DEF Music!Names, NameAt
  <2>2. PICK r \in st.rows : r.path = p
    BY DEF Full
  <2>3. PICK a \in st.albums : a.id = r.album
    BY DEF Shelf
  <2>4. a.artist = M
    BY <2>1, <2>2, <2>3, AlbumOfRow
  <2>5. Music!On(st.rows, a.id) # {}
    BY <2>3 DEF Music!On
  <2>6. Music!Mixed(a.artist)
    BY <1>8, <2>4
  <2>7. Candidate(st, a)
    BY <2>5, <2>6, MixedAlbum
  <2>8. PICK k \in 1 .. m : ids[k] = a.id
    BY <1>4, <1>5, <2>7
  <2>. DEFINE t == Music!Promoted(st, a.id)
  <2>9. PICK goal, merge : Gathered(st, t, a, goal, merge)
    BY <2>5, <2>6, MixedGathers
  <2>10. Shelf(t)
    BY PromotionKeeps
  <2>. HIDE DEF t
  <2>11. ASSUME NEW n \in 1 .. m, n # k
         PROVE  /\ Music!Promoted(st, ids[n]) = st
                /\ Music!Promoted(t, ids[n]) = t
    <3>1. PICK b \in st.albums : b.id = ids[n] /\ Candidate(st, b)
      BY <1>6
    <3>2. b # a
      <4>1. n \in Int /\ k \in Int /\ (n < k \/ k < n)
        BY <1>1, <2>11
      <4>2. ids[n] < ids[k] \/ ids[k] < ids[n]
        BY <1>4, <4>1
      <4>3. ids[k] \in Nat
        BY <1>3, <1>5, <2>7, <2>8
      <4>. QED
        BY <2>8, <3>1, <4>2, <4>3
    <3>3. b.artist # M /\ b.artist \in Music!Names /\ b.artist # Music!VA
      BY <2>4, <3>1, <3>2, CandidateHasRows DEF Shelf
    <3>4. ~Music!Mixed(b.artist)
      BY <1>8, <3>3 DEF Orderly
    <3>5. Dominated(Music!On(st.rows, b.id))
      BY <3>1, <3>4, CandidateHasRows
    <3>6. b.id # goal /\ goal \notin merge /\ t.rows = Rehomed(st.rows, merge, goal)
      BY <2>9, <3>2, <3>3 DEF Gathered
    <3>7. Music!On(t.rows, b.id) = IF b.id \in merge THEN {} ELSE Music!On(st.rows, b.id)
      <4>1. \A q \in st.rows : DOMAIN q = RowFields
        BY DEF Shelf
      <4>2. Music!On(Rehomed(st.rows, merge, goal), b.id)
              = IF b.id \in merge THEN {} ELSE Music!On(st.rows, b.id)
        <5>. DEFINE R == st.rows
                    i == b.id
        <5>1. goal \notin merge /\ i # goal /\ \A q \in R : DOMAIN q = RowFields
          BY <3>6, <4>1
        <5>. HIDE DEF R, i
        <5>2. Music!On(Rehomed(R, merge, goal), i) = IF i \in merge THEN {} ELSE Music!On(R, i)
          BY <5>1, RehomedOn
        <5>. QED
          BY <5>2, Zenon DEF R, i
      <4>. QED
        BY <3>6, <4>2, Zenon
    <3>8. Music!Promoted(t, b.id) = t
      BY <2>10, <3>5, <3>7, DominatedStays
    <3>9. Music!Promoted(st, b.id) = st
      BY <3>5, DominatedStays
    <3>. QED
      BY <3>1, <3>8, <3>9
  <2>. DEFINE now(n) == IF n < k THEN st ELSE t
              T == {n \in 0 .. m : g[n] # now(n)}
  <2>12. T = {}
    <3>1. SUFFICES ASSUME T # {} PROVE FALSE
      OBVIOUS
    <3>2. T \subseteq Nat
      BY <1>1
    <3>3. PICK n \in T : \A i \in T : n <= i
      BY <3>1, <3>2, Least
    <3>4. n # 0
      BY <1>1, <1>2, <3>3
    <3>5. n \in 1 .. m /\ n - 1 \in 0 .. m /\ n - 1 \notin T
      BY <1>1, <3>3, <3>4
    <3>6. g[n] = Music!Promoted(now(n - 1), ids[n])
      BY <1>2, <3>5
    <3>7. CASE n = k
      <4>1. now(n - 1) = st /\ now(n) = t
        BY <1>1, <3>5, <3>7
      <4>. QED
        BY <2>8, <3>3, <3>6, <3>7, <4>1 DEF t
    <3>8. CASE n # k
      <4>1. now(n - 1) = now(n) /\ now(n) \in {st, t}
        BY <1>1, <3>5, <3>8
      <4>. HIDE DEF now
      <4>. QED
        BY <2>11, <3>3, <3>5, <3>6, <3>8, <4>1
    <3>. QED
      BY <3>7, <3>8
  <2>13. m \in 0 .. m /\ ~(m < k)
    BY <1>1
  <2>14. g[m] = t
    BY <2>12, <2>13
  <2>. QED
    BY <1>2, <2>9, <2>14, GatheredTogether
<1>. QED
  BY <1>7, <1>8

LEMMA TreeStands ==
  ASSUME tree' = tree
  PROVE  /\ Music!Present' = Music!Present /\ (Orderly' <=> Orderly)
         /\ \A p, q : Music!TogetherInTree(p, q)' <=> Music!TogetherInTree(p, q)
<1>1. Music!Present' = Music!Present
  BY DEF Music!Present
<1>2. \A n : Music!GroupOf(n)' = Music!GroupOf(n)
  BY <1>1 DEF Music!GroupOf
<1>3. Music!Names' = Music!Names
  BY <1>1 DEF Music!Names
<1>4. \A n : Music!Mixed(n)' <=> Music!Mixed(n)
  BY <1>2 DEF Music!Mixed
<1>5. \A N : Music!Folders(N)' = Music!Folders(N)
  BY <1>1 DEF Music!Folders
<1>6. Music!Compiled' = Music!Compiled
  BY <1>3, <1>4, <1>5 DEF Music!Compiled
<1>7. \A p, q : Music!TogetherInTree(p, q)' <=> Music!TogetherInTree(p, q)
  BY <1>6 DEF Music!TogetherInTree
<1>8. Orderly' <=> Orderly
  BY <1>1, <1>3, <1>4 DEF Orderly, NameAt
<1>. QED
  BY <1>1, <1>7, <1>8

(* A library nothing was ever scanned into has no album left over, and its *)
(* first scan files every row by its tags before it gathers compilations.  *)
GroupInv ==
    /\ fresh /\ stage \in {"idle", "done"} /\ tracks = {} => albums = {}
    /\ settled /\ fresh /\ Orderly =>
         /\ stage \in {"files", "finalize"} => Filed(Music!Store)
         /\ stage \in {"relink", "prune", "cleanup", "done"} => Together(tracks)
GroupedLibrary == LibraryInv /\ GroupInv
LEMMA StoreAlone ==
  ASSUME tree' = tree, UNCHANGED <<tracks, albums>>
  PROVE  /\ Filed(Music!Store) => Filed(Music!Store)'
         /\ Together(tracks) => Together(tracks)'
<1>1. /\ Music!Store.rows = tracks /\ Music!Store.albums = albums
      /\ Music!Store'.rows = tracks' /\ Music!Store'.albums = albums'
  BY DEF Music!Store
<1>2. Music!Present' = Music!Present
  BY TreeStands
<1>3. Filed(Music!Store) => Filed(Music!Store)'
  BY <1>1, <1>2 DEF Filed, NameAt
<1>4. Together(tracks) => Together(tracks)'
  BY TreeStands DEF Together
<1>. QED
  BY <1>3, <1>4
LEMMA GroupsStand ==
  ASSUME GroupInv, UNCHANGED <<tracks, albums, stage, fresh>>,
         ~settled' \/ (settled' = settled /\ tree' = tree)
  PROVE  GroupInv'
<1>1. CASE ~settled'
  BY <1>1 DEF GroupInv
<1>2. CASE settled' = settled /\ tree' = tree
  <2>1. Orderly' <=> Orderly
    BY <1>2, TreeStands
  <2>2. /\ Filed(Music!Store) => Filed(Music!Store)'
        /\ Together(tracks) => Together(tracks)'
    BY <1>2, StoreAlone
  <2>. QED
    BY <1>2, <2>1, <2>2 DEF GroupInv
<1>. QED
  BY <1>1, <1>2

LEMMA GroupsBeginScan ==
  ASSUME GroupInv, Music!BeginScan PROVE GroupInv'
<1>1. /\ stage \in {"idle", "done"} /\ stage' = "files" /\ fresh' = (fresh /\ tracks = {})
      /\ UNCHANGED <<tree, tracks, albums>>
  BY DEF Music!BeginScan, Music!data
<1>2. fresh' => Filed(Music!Store)'
  <2>1. fresh' => tracks' = {} /\ albums' = {}
    BY <1>1 DEF GroupInv
  <2>2. Music!Store'.rows = tracks' /\ Music!Store'.albums = albums'
    BY DEF Music!Store
  <2>. QED
    BY <2>1, <2>2 DEF Filed
<1>. QED
  BY <1>1, <1>2 DEF GroupInv
LEMMA GroupsScanFile ==
  ASSUME LibraryInv, GroupInv, NEW p \in Paths, Music!ScanFile(p) PROVE GroupInv'
<1>1. stage = "files" /\ UNCHANGED <<tree, stage, settled, fresh>>
  BY DEF Music!ScanFile, Music!history
<1>2. CASE UNCHANGED Music!data
  BY <1>1, <1>2, GroupsStand DEF Music!data
<1>3. CASE tree[p] # Music!Gone /\ Music!Becomes(Music!WithFile(Music!Store, p, tree[p]))
  <2>. DEFINE st == Music!Store
              n == Music!WithFile(st, p, tree[p])
  <2>1. Shelf(st)
    BY StoreShelved DEF LibraryInv, MusicTypes
  <2>2. tracks' = n.rows /\ albums' = n.albums
    BY <1>3 DEF Music!Becomes
  <2>3. p \in Music!Present
    BY <1>3 DEF Music!Present
  <2>4. Orderly' <=> Orderly
    BY <1>1, TreeStands
  <2>5. ASSUME settled, fresh, Orderly PROVE Filed(Music!Store)'
    <3>1. Filed(st)
      BY <1>1, <2>5 DEF GroupInv
    <3>. HIDE DEF st
    <3>2. Filed(n)
      BY <2>1, <2>3, <2>5, <3>1, FileFiled
    <3>. HIDE DEF n
    <3>3. Music!Store'.rows = n.rows /\ Music!Store'.albums = n.albums
      BY <2>2 DEF Music!Store
    <3>4. Music!Present' = Music!Present
      BY <1>1, TreeStands
    <3>. QED
      BY <1>1, <3>2, <3>3, <3>4 DEF Filed, NameAt
  <2>. QED
    BY <1>1, <2>4, <2>5 DEF GroupInv
<1>. QED
  BY <1>2, <1>3 DEF Music!ScanFile
LEMMA GroupsEndFiles ==
  ASSUME GroupInv, NEW none, Music!EndFiles(none) PROVE GroupInv'
<1>1. /\ stage = "files" /\ UNCHANGED <<tree, tracks, albums, settled, fresh>>
      /\ stage' = "finalize" \/ (stage' = "idle" /\ tracks # {})
  BY DEF Music!EndFiles, Music!data, Music!history
<1>2. Orderly' <=> Orderly
  BY <1>1, TreeStands
<1>3. Filed(Music!Store) => Filed(Music!Store)'
  BY <1>1, StoreAlone
<1>. QED
  BY <1>1, <1>2, <1>3 DEF GroupInv
LEMMA GroupsFinalize ==
  ASSUME LibraryInv, GroupInv, Music!Finalize PROVE GroupInv'
<1>. DEFINE st == Music!Store
            n == Music!Finalized(st)
<1>1. /\ stage = "finalize" /\ stage' = "relink" /\ UNCHANGED <<tree, settled, fresh>>
      /\ tracks' = n.rows
  BY DEF Music!Finalize, Music!Becomes, Music!history
<1>2. Orderly' <=> Orderly
  BY <1>1, TreeStands
<1>3. ASSUME settled, fresh, Orderly PROVE Together(tracks')
  <2>1. Shelf(st) /\ st.rows = tracks
    BY StoreShelved DEF LibraryInv, MusicTypes, Music!Store
  <2>2. Filed(st)
    BY <1>1, <1>3 DEF GroupInv
  <2>3. Full(st)
    BY <1>1, <1>3, <2>1 DEF LibraryInv, ScanInv, Music!Known, Full
  <2>. HIDE DEF st
  <2>. QED
    BY <1>1, <1>3, <2>1, <2>2, <2>3, FinalizingGroups
<1>4. Together(tracks') => Together(tracks)'
  BY <1>1, TreeStands DEF Together
<1>. QED
  BY <1>1, <1>2, <1>3, <1>4 DEF GroupInv

(* The rest of the scan regroups nothing. *)
LEMMA GroupsOnly ==
  ASSUME GroupInv, stage \in {"relink", "prune", "cleanup"}, stage' \in {"prune", "cleanup", "done"},
         UNCHANGED <<tree, settled, fresh>>, tracks' \subseteq tracks,
         stage' = "done" /\ tracks' = {} => albums' = {}
  PROVE  GroupInv'
<1>1. Orderly' <=> Orderly
  BY TreeStands
<1>2. Together(tracks) => Together(tracks)'
  BY TreeStands DEF Together
<1>. QED
  BY <1>1, <1>2 DEF GroupInv
LEMMA GroupsCleanup ==
  ASSUME LibraryInv, GroupInv, Music!Cleanup PROVE GroupInv'
<1>. DEFINE st == Music!Store
            n == Music!Cleaned(st)
            kept == {a \in st.albums : Music!On(st.rows, a.id) # {}}
<1>1. /\ stage = "cleanup" /\ stage' = "done" /\ UNCHANGED <<tree, settled, fresh>>
      /\ tracks' = n.rows /\ albums' = n.albums
  BY DEF Music!Cleanup, Music!Becomes, Music!history
<1>2. Shelf(st) /\ st.rows = tracks
  BY StoreShelved DEF LibraryInv, MusicTypes, Music!Store
<1>. HIDE DEF st
<1>3. n.rows = tracks
  BY <1>2, CleaningKeeps
<1>4. n.albums = kept
  <2>1. DOMAIN st = StoreFields
    BY <1>2, Zenon DEF Shelf
  <2>. DEFINE artists == {a.artist : a \in kept} \cup {r.artist : r \in st.rows}
              plays1 == {x \in st.plays : x.album \in {a.id : a \in kept} /\ x.artist \in artists}
  <2>2. n = [st EXCEPT !.albums = kept, !.plays = plays1]
    BY DEF Music!Cleaned
  <2>. HIDE DEF n, kept, plays1
  <2>. QED
    BY <2>1, <2>2 DEF StoreFields
<1>5. tracks = {} => kept = {}
  BY <1>2 DEF Music!On
<1>. HIDE DEF n, kept
<1>. QED
  BY <1>1, <1>3, <1>4, <1>5, GroupsOnly

LEMMA GroupsStep ==
  ASSUME LibraryInv, GroupInv, [Music!Next]_(Music!vars) PROVE GroupInv'
<1>1. CASE UNCHANGED Music!vars
  BY <1>1, GroupsStand DEF Music!vars, Music!data, Music!history
<1>2. CASE Music!BeginScan \/ Music!Finalize \/ Music!Cleanup
  BY <1>2, GroupsBeginScan, GroupsFinalize, GroupsCleanup
<1>3. CASE Music!Relink
  <2>1. /\ stage = "relink" /\ stage' = "prune" /\ UNCHANGED <<tree, tracks, settled, fresh>>
    BY <1>3 DEF Music!Relink
  <2>. QED
    BY <2>1, GroupsOnly
<1>4. CASE Music!Prune
  <2>1. /\ stage = "prune" /\ stage' = "cleanup" /\ UNCHANGED <<tree, settled, fresh>>
        /\ tracks' \subseteq tracks
    BY <1>4 DEF Music!Prune, Music!history
  <2>. QED
    BY <2>1, GroupsOnly
<1>5. CASE Music!Cancel
  <2>1. ~fresh'
    BY <1>5 DEF Music!Cancel
  <2>. QED
    BY <2>1 DEF GroupInv
<1>6. ASSUME NEW none \in BOOLEAN, Music!EndFiles(none) PROVE GroupInv'
  BY <1>6, GroupsEndFiles
<1>7. ASSUME NEW p \in Paths, Music!ScanFile(p) PROVE GroupInv'
  BY <1>7, GroupsScanFile
<1>8. ASSUME NEW p \in Paths, NEW q \in Paths,
             Music!ScanFileFails(p) \/ Music!Unlink(p) \/ Music!Relocate(p, q)
      PROVE  GroupInv'
  <2>1. ~settled' /\ UNCHANGED <<tracks, albums, stage, fresh>>
    BY <1>8 DEF Music!ScanFileFails, Music!Unlink, Music!Relocate, Music!data
  <2>. QED
    BY <2>1, GroupsStand
<1>9. ASSUME NEW S, NEW name, Music!Edit(S, name) PROVE GroupInv'
  <2>1. ~fresh'
    BY <1>9 DEF Music!Edit
  <2>. QED
    BY <2>1 DEF GroupInv
<1>10. ASSUME NEW a \in albums, NEW b \in albums,
              Music!Rescan(a.id) \/ Music!MergeAlbums(a, b)
       PROVE  GroupInv'
  <2>1. ~fresh'
    BY <1>10 DEF Music!Rescan, Music!MergeAlbums
  <2>. QED
    BY <2>1 DEF GroupInv
<1>11. ASSUME NEW a \in albums, Music!Writeback(a) PROVE GroupInv'
  <2>1. ~settled' /\ UNCHANGED <<tracks, albums, stage, fresh>>
    BY <1>11 DEF Music!Writeback, Music!data
  <2>. QED
    BY <2>1, GroupsStand
<1>12. ASSUME NEW r \in tracks, Music!Play(r) \/ Music!Lyrics(r) \/ Music!AddTrack(r) PROVE GroupInv'
  <2>1. UNCHANGED <<tree, tracks, albums, stage, settled, fresh>>
    BY <1>12 DEF Music!Play, Music!Lyrics, Music!AddTrack, Music!history
  <2>. QED
    BY <2>1, GroupsStand
<1>13. ASSUME NEW t \in DOMAIN entries, NEW by, Music!RemoveTrack(t) \/ Music!MoveTrack(t, by) PROVE GroupInv'
  <2>1. UNCHANGED <<tree, tracks, albums, stage, settled, fresh>>
    BY <1>13 DEF Music!RemoveTrack, Music!MoveTrack, Music!history
  <2>. QED
    BY <2>1, GroupsStand
<1>14. CASE Music!DeletePlaylist
  <2>1. UNCHANGED <<tree, tracks, albums, stage, settled, fresh>>
    BY <1>14 DEF Music!DeletePlaylist
  <2>. QED
    BY <2>1, GroupsStand
<1>15. CASE Music!Next
  <2>1. ASSUME NEW a \in albums, NEW name, Music!AlbumEdit(a.id, name) PROVE GroupInv'
    BY <1>9, <2>1 DEF Music!AlbumEdit
  <2>2. ASSUME NEW r \in tracks, NEW name, Music!TrackEdit(r, name) PROVE GroupInv'
    BY <1>9, <2>2 DEF Music!TrackEdit
  <2>. QED
    BY <1>2, <1>3, <1>4, <1>5, <1>6, <1>7, <1>8, <1>10, <1>11, <1>12, <1>13, <1>14, <1>15,
       <2>1, <2>2 DEF Music!Next
<1>. QED
  BY <1>1, <1>15

(* The first scan of a library groups an orderly tree in one way, in       *)
(* whatever order the walk meets its files (internal/scan, ensureAlbum and *)
(* finalizeCompilations): when nobody disturbed it, two tracks are on one  *)
(* album exactly if the tags say one album artist, or both belong to the   *)
(* compilation: the album nobody dominates, what is marked as Various      *)
(* Artists already, and the fragments in the folders of these.  Orderly:   *)
(* the files of an album artist agree on the compilation flag, Various     *)
(* Artists has it, and at most one album is dominated by nobody.           *)
THEOREM ScansGroupLikeTree ==
  Spec => [](part = "music" /\ Orderly => Music!ScanReflectsTree)
<1>. DEFINE Inv == part = "music" => GroupInv
            Lib == part = "music" => LibraryInv
            Row == part = "music" /\ stage = "done" /\ settled => Music!RowsAreFiles
<1>1. Init => Inv
  <2>1. SUFFICES ASSUME Music!Init PROVE GroupInv
    BY DEF Init, Begun
  <2>. QED
    BY <2>1 DEF Music!Init, GroupInv
<1>2. Lib /\ Inv /\ [Next]_vars => Inv'
  BY MusicTurn, GroupsStep
<1>3. Inv /\ Row => (part = "music" /\ Orderly => Music!ScanReflectsTree)
  <2>1. SUFFICES ASSUME GroupInv, Orderly, stage = "done", settled, Music!RowsAreFiles
                 PROVE  Music!ScanReflectsTree
    BY DEF Music!ScanReflectsTree
  <2>2. fresh => Together(tracks)
    BY <2>1 DEF GroupInv
  <2>. QED
    BY <2>1, <2>2 DEF Music!ScanReflectsTree, Together
<1>4. Spec => []Lib
  BY MusicRuns
<1>5. Spec => []Row
  BY ScansLeaveARowPerFile
<1>. QED
  BY <1>1, <1>2, <1>3, <1>4, <1>5, PTL DEF Spec

-----------------------------------------------------------------------------
(* The types: what each component's invariant lacks of them.               *)
-----------------------------------------------------------------------------
(* What each component holds.  Beside the invariants above: bounds on what *)
(* is counted, a timer for every armed change, a row for every id.         *)
LEMMA LaunchHolds ==
  ASSUME Launch!None \notin Procs, LaunchInv PROVE Launch!TypeOK
<1>1. \A p \in Procs : at[p] \in Launch!Alive \cup {"new", "gone"} /\ target[p] \in Procs \cup {Launch!None}
  BY DEF LaunchInv, LaunchTypes, LaunchStage
<1>2. {lock, sock, url} \subseteq Procs \cup {Launch!None} /\ victims \subseteq Procs
  BY DEF LaunchInv, LaunchTypes
<1>3. Locks => {p \in Procs : at[p] \in Launch!Owner} = {lock} \ {Launch!None}
  BY <1>2 DEF LaunchInv, HolderOwns
<1>. QED
  BY <1>1, <1>2, <1>3 DEF Launch!TypeOK

(* A change that is armed is known by the mode it applies to a timer that  *)
(* runs.                                                                   *)
Shown == offered \in Screens /\ screen \in offered \cup {Display!None}
Armed == \A r \in Asks : pending.timer = r =>
             r \in timers /\ ask[r].at # "new" /\ pending.applied = ask[r].mode
DisplayHeld ==
    /\ Shown /\ Armed
    /\ saved \in Modes \cup {Display!None} /\ boot \in {saved, Display!None} \cup Modes

LEMMA DisplayKeeps ==
  ASSUME Display!None \notin Asks, Screens \subseteq SUBSET Modes,
         DisplayInv, DisplayHeld, [Display!Next]_(Display!vars)
  PROVE  DisplayHeld'
<1>t. /\ ask \in [Asks -> AskRecord] /\ timers \subseteq Asks /\ offered \subseteq Modes
      /\ \/ pending \in [applied : Modes, prev : Modes, timer : Asks \cup {Display!None}]
         \/ pending = Display!Nothing
  BY DEF DisplayInv, DisplayTypes
<1>n. Display!Nothing.timer \notin Asks
  BY DEF Display!Nothing
<1>a. ASSUME UNCHANGED <<pending, timers>>,
             \A r \in Asks : ask[r].at # "new" => ask'[r].at # "new" /\ ask'[r].mode = ask[r].mode
      PROVE  Armed'
  BY <1>a DEF DisplayHeld, Armed
<1>m. ASSUME NEW r \in Asks, NEW s \in {"read", "set", "arm", "done"}, Display!Move(r, s)
      PROVE  \A q \in Asks : ask[q].at # "new" => ask'[q].at # "new" /\ ask'[q].mode = ask[q].mode
  <2>. DEFINE new == [ask[r] EXCEPT !.at = s]
  <2>1. ask' = [ask EXCEPT ![r] = new]
    BY <1>m DEF Display!Move
  <2>2. new.at = s /\ new.mode = ask[r].mode
    BY <1>t DEF AskRecord
  <2>. HIDE DEF new
  <2>. QED
    BY <1>t, <2>1, <2>2
<1>1. ASSUME NEW r \in Asks, NEW m \in Modes, Display!Ask(r, m) PROVE DisplayHeld'
  <2>1. /\ ask[r].at = "new" /\ ask' = [ask EXCEPT ![r] = [at |-> "read", mode |-> m, prev |-> screen]]
        /\ UNCHANGED <<offered, screen, saved, pending, timers, boot>>
    BY <1>1 DEF Display!Ask
  <2>2. Armed'
    BY <1>a, <1>t, <2>1
  <2>. QED
    BY <2>1, <2>2 DEF DisplayHeld, Shown
<1>2. ASSUME NEW r \in Asks, Display!Claim(r) PROVE DisplayHeld'
  <2>1. UNCHANGED <<offered, screen, saved, timers, boot>>
    BY <1>2 DEF Display!Claim
  <2>2. CASE Display!Free
    <3>1. pending' = [applied |-> ask[r].mode, prev |-> ask[r].prev, timer |-> Display!None]
      BY <1>2, <2>2 DEF Display!Claim
    <3>. QED
      BY <2>1, <3>1 DEF DisplayHeld, Shown, Armed
  <2>3. CASE ~Display!Free
    <3>1. Display!Move(r, "done") /\ UNCHANGED pending
      BY <1>2, <2>3 DEF Display!Claim
    <3>2. Armed'
      BY <1>a, <1>m, <2>1, <3>1
    <3>. QED
      BY <2>1, <3>1, <3>2 DEF DisplayHeld, Shown
  <2>. QED
    BY <2>2, <2>3
<1>3. ASSUME NEW r \in Asks, NEW ok \in BOOLEAN, Display!SetMode(r, ok) PROVE DisplayHeld'
  <2>1. UNCHANGED <<offered, saved, timers, boot>>
    BY <1>3 DEF Display!SetMode
  <2>2. screen' = screen \/ screen' \in offered
    BY <1>3 DEF Display!SetMode
  <2>3. \/ pending' = pending
        \/ pending' = Display!Nothing
    BY <1>3 DEF Display!SetMode
  <2>4. Display!Move(r, "arm") \/ Display!Move(r, "done")
    BY <1>3 DEF Display!SetMode
  <2>5. Armed'
    <3>1. CASE pending' = pending
      BY <1>a, <1>m, <2>1, <2>4, <3>1
    <3>2. CASE pending' = Display!Nothing
      BY <1>n, <3>2 DEF Armed
    <3>. QED
      BY <2>3, <3>1, <3>2
  <2>. QED
    BY <2>1, <2>2, <2>5 DEF DisplayHeld, Shown
<1>4. ASSUME NEW r \in Asks, Display!Arm(r) PROVE DisplayHeld'
  <2>1. /\ ask[r].at = "arm" /\ Display!Move(r, "done") /\ UNCHANGED <<offered, screen, saved, boot>>
        /\ \/ /\ pending.applied = ask[r].mode /\ pending' = [pending EXCEPT !.timer = r]
              /\ timers' = timers \cup {r}
           \/ UNCHANGED <<pending, timers>>
    BY <1>4 DEF Display!Arm
  <2>2. \A q \in Asks : ask[q].at # "new" => ask'[q].at # "new" /\ ask'[q].mode = ask[q].mode
    BY <1>m, <2>1
  <2>3. CASE UNCHANGED <<pending, timers>>
    BY <1>a, <2>1, <2>2, <2>3 DEF DisplayHeld, Shown
  <2>4. ASSUME pending.applied = ask[r].mode, pending' = [pending EXCEPT !.timer = r],
               timers' = timers \cup {r}
        PROVE  Armed'
    <3>1. pending'.timer = r /\ pending'.applied = pending.applied
      BY <1>t, <2>4 DEF Display!Nothing
    <3>. QED
      BY <2>1, <2>2, <2>4, <3>1 DEF Armed
  <2>. QED
    BY <2>1, <2>3, <2>4 DEF DisplayHeld, Shown
<1>5. ASSUME NEW m \in Modes, Display!Keep(m) PROVE DisplayHeld'
  <2>1. /\ pending' = Display!Nothing /\ saved' \in {saved, m}
        /\ UNCHANGED <<offered, screen, boot>>
    BY <1>5 DEF Display!Keep
  <2>2. boot \in Modes \cup {Display!None}
    BY DEF DisplayHeld
  <2>. QED
    BY <1>n, <2>1, <2>2 DEF DisplayHeld, Shown, Armed
<1>6. ASSUME NEW m \in Modes, Display!Decline(m) PROVE DisplayHeld'
  <2>1. pending' = Display!Nothing /\ UNCHANGED <<offered, screen, saved, boot>>
    BY <1>6, Zenon DEF Display!Decline, Display!Revert
  <2>. QED
    BY <1>n, <2>1 DEF DisplayHeld, Shown, Armed
<1>7. ASSUME NEW r \in Asks, Display!TimerFires(r) PROVE DisplayHeld'
  <2>1. /\ timers' = timers \ {r} /\ UNCHANGED <<offered, screen, saved, boot, ask>>
        /\ IF pending.applied = ask[r].mode THEN pending' = Display!Nothing ELSE pending' = pending
    BY <1>7 DEF Display!TimerFires, Display!Revert
  <2>2. Armed'
    BY <1>n, <2>1 DEF DisplayHeld, Armed
  <2>. QED
    BY <2>1, <2>2 DEF DisplayHeld, Shown
<1>8. ASSUME NEW m \in undo, NEW ok \in BOOLEAN, Display!Restore(m, ok) PROVE DisplayHeld'
  <2>1. /\ screen' = screen \/ screen' \in offered
        /\ UNCHANGED <<offered, saved, pending, ask, timers, boot>>
    BY <1>8 DEF Display!Restore
  <2>. QED
    BY <2>1 DEF DisplayHeld, Shown, Armed
<1>9. ASSUME NEW ok \in BOOLEAN, Display!Boot(ok) PROVE DisplayHeld'
  <2>1. /\ screen' = screen \/ screen' \in offered
        /\ boot' = Display!None /\ UNCHANGED <<offered, saved, pending, ask, timers>>
    BY <1>9 DEF Display!Boot
  <2>. QED
    BY <2>1 DEF DisplayHeld, Shown, Armed
<1>10. CASE Display!BootGivesUp
  BY <1>10 DEF Display!BootGivesUp, DisplayHeld, Shown, Armed
<1>11. ASSUME NEW S \in Screens, NEW m \in S \cup {Display!None}, Display!Swap(S, m) PROVE DisplayHeld'
  BY <1>11 DEF Display!Swap, DisplayHeld, Shown, Armed
<1>12. CASE Display!Restart
  <2>1. pending' = Display!Nothing /\ boot' = saved /\ UNCHANGED <<offered, screen, saved>>
    BY <1>12 DEF Display!Restart
  <2>. QED
    BY <1>n, <2>1 DEF DisplayHeld, Shown, Armed
<1>13. CASE UNCHANGED Display!vars
  BY <1>13 DEF Display!vars, DisplayHeld, Shown, Armed
<1>. QED
  BY <1>1, <1>2, <1>3, <1>4, <1>5, <1>6, <1>7, <1>8, <1>9, <1>10, <1>11, <1>12, <1>13 DEF Display!Next

LEMMA DisplayHolds ==
  ASSUME Screens \subseteq SUBSET Modes, Display!None \notin Asks
  PROVE  /\ Display!Init => DisplayHeld
         /\ DisplayInv /\ DisplayHeld => Display!TypeOK
<1>1. Display!Init => DisplayHeld
  BY DEF Display!Init, DisplayHeld, Shown, Armed, Display!Nothing
<1>2. DisplayInv /\ DisplayHeld => Display!TypeOK
  BY DEF DisplayInv, DisplayTypes, DisplayHeld, Shown, Armed, Display!TypeOK
<1>. QED
  BY <1>1, <1>2

(* A copy beside the file is there while it is verified and renamed, and   *)
(* nothing of a check is left when it is over.                             *)
RepairHeld ==
    /\ puts <= MaxPuts /\ (pc = "idle" => verdict = Repair!Unread)
    /\ pc \in {"rename", "verify"} => tmp # Repair!NoCopy
LEMMA RepairHolds ==
  ASSUME MaxPuts \in Nat
  PROVE  /\ Repair!Init => RepairHeld
         /\ RepairInv /\ RepairHeld /\ [Repair!Next]_(Repair!vars) => RepairHeld'
         /\ RepairInv /\ RepairHeld => Repair!TypeOK
<1>1. Repair!Init => RepairHeld
  <2>1. SUFFICES ASSUME Repair!Init PROVE RepairHeld
    OBVIOUS
  <2>2. puts = 0 /\ pc = "idle" /\ verdict = Repair!Unread
    BY <2>1 DEF Repair!Init
  <2>3. puts <= MaxPuts
    BY <2>2
  <2>. QED
    BY <2>2, <2>3 DEF RepairHeld
<1>2. ASSUME RepairInv, RepairHeld, [Repair!Next]_(Repair!vars) PROVE RepairHeld'
  <2>1. ASSUME puts' = puts, pc' \notin {"idle", "rename", "verify"} PROVE RepairHeld'
    BY <1>2, <2>1 DEF RepairHeld
  <2>2. ASSUME puts' = puts, pc' = "idle", verdict' = Repair!Unread PROVE RepairHeld'
    BY <1>2, <2>2 DEF RepairHeld
  <2>3. CASE \E b \in BOOLEAN : Repair!CheckContainer(b) \/ Repair!Rename(b) \/ Repair!Audit(b)
    BY <2>1, <2>3 DEF Repair!CheckContainer, Repair!Rename, Repair!Audit, Repair!Flag
  <2>4. ASSUME NEW b \in BOOLEAN, Repair!Remux(b) PROVE RepairHeld'
    <3>1. tmp' # Repair!NoCopy /\ pc' = "verify" /\ puts' = puts
      BY <2>4 DEF Repair!Remux, Repair!Bytes, Repair!NoCopy
    <3>. QED
      BY <1>2, <3>1 DEF RepairHeld
  <2>5. ASSUME NEW b \in BOOLEAN, Repair!Verify(b) PROVE RepairHeld'
    <3>1. puts' = puts /\ pc = "verify" /\ ((pc' = "rename" /\ tmp' = tmp) \/ pc' = "audit")
      BY <2>5 DEF Repair!Verify, Repair!Flag
    <3>. QED
      BY <1>2, <3>1 DEF RepairHeld
  <2>6. CASE Repair!HardError \/ Repair!Crash \/ \E b \in BOOLEAN : Repair!Record(b)
    BY <2>2, <2>6 DEF Repair!HardError, Repair!Crash, Repair!Record, Repair!history
  <2>7. CASE Repair!BeginCheck \/ Repair!RemuxFails
    BY <2>1, <2>7 DEF Repair!BeginCheck, Repair!RemuxFails, Repair!Flag
  <2>8. CASE Repair!Scan \/ Repair!MoveAway \/ \E b \in BOOLEAN : Repair!DeepCheck(b)
    BY <1>2, <2>8 DEF Repair!Scan, Repair!MoveAway, Repair!DeepCheck, RepairHeld
  <2>9. ASSUME NEW D \in Damages, Repair!Put(D) PROVE RepairHeld'
    <3>1. puts' = puts + 1 /\ puts < MaxPuts /\ UNCHANGED <<pc, verdict, tmp>> /\ puts \in Nat
      BY <1>2, <2>9 DEF Repair!Put, RepairInv, RepairTypes
    <3>2. puts' <= MaxPuts
      BY <3>1
    <3>. QED
      BY <1>2, <3>1, <3>2 DEF RepairHeld
  <2>10. CASE UNCHANGED Repair!vars
    BY <1>2, <2>10 DEF Repair!vars, RepairHeld
  <2>. QED
    BY <1>2, <2>3, <2>4, <2>5, <2>6, <2>7, <2>8, <2>9, <2>10 DEF Repair!Next
<1>3. RepairInv /\ RepairHeld => Repair!TypeOK
  <2>1. SUFFICES ASSUME RepairInv, RepairHeld PROVE Repair!TypeOK
    OBVIOUS
  <2>2. row.status \in {"", "ok", "repaired", "flagged", "degraded"} /\ row.stamp.ver <= puts
    BY <2>1 DEF RepairInv, RepairTypes
  <2>3. puts \in Nat /\ puts <= MaxPuts
    BY <2>1 DEF RepairHeld, RepairInv, RepairTypes
  <2>4. puts \in 0 .. MaxPuts
    BY <2>3
  <2>. QED
    BY <2>1, <2>2, <2>4, Zenon DEF RepairHeld, Repair!TypeOK
<1>. QED
  BY <1>1, <1>2, <1>3

(* Positions are percents, and no row is newer than the clock.             *)
CardHeld ==
    /\ acts \in Nat /\ acts <= MaxReports /\ clock <= acts + 1
    /\ \A f \in Episodes : rows[f].pos <= 100 /\ rows[f].at <= clock
Percents == 0 .. 100
LEMMA CardKeeps ==
  ASSUME Reports \subseteq Percents \X BOOLEAN, MaxReports \in Nat,
         CardInv, CardHeld, [Card!Next]_(Card!vars)
  PROVE  CardHeld'
<1>t. clock \in Nat /\ rows \in [Episodes -> ProgressRow]
  BY DEF CardInv
<1>1. ASSUME NEW new, Card!Touch(new),
             \A f \in Episodes : f \in DOMAIN new => new[f] \in ProgressRow /\ new[f].pos <= 100
      PROVE  CardHeld'
  <2>1. /\ acts < MaxReports /\ acts' = acts + 1 /\ clock' \in {clock, clock + 1}
        /\ rows' = [f \in Episodes |-> IF f \in DOMAIN new THEN [new[f] EXCEPT !.at = clock'] ELSE rows[f]]
    BY <1>1 DEF Card!Touch
  <2>2. acts' \in Nat /\ acts' <= MaxReports /\ clock' <= acts' + 1 /\ clock <= clock'
    BY <1>t, <2>1 DEF CardHeld
  <2>3. ASSUME NEW f \in Episodes PROVE rows'[f].pos <= 100 /\ rows'[f].at <= clock'
    <3>1. CASE f \in DOMAIN new
      <4>1. rows'[f] = [new[f] EXCEPT !.at = clock'] /\ new[f] \in ProgressRow /\ new[f].pos <= 100
        BY <1>1, <2>1, <3>1
      <4>2. rows'[f].pos = new[f].pos /\ rows'[f].at = clock'
        BY <4>1 DEF ProgressRow
      <4>. QED
        BY <1>t, <2>1, <4>1, <4>2
    <3>2. CASE f \notin DOMAIN new
      <4>1. rows'[f] = rows[f] /\ rows[f].at \in Nat /\ clock' \in Nat
        BY <1>t, <2>1, <3>2 DEF ProgressRow
      <4>2. rows[f].pos <= 100 /\ rows[f].at <= clock
        BY DEF CardHeld
      <4>. QED
        BY <1>t, <2>2, <4>1, <4>2
    <3>. QED
      BY <3>1, <3>2
  <2>. QED
    BY <2>2, <2>3 DEF CardHeld
<1>2. ASSUME NEW f \in Episodes, NEW report \in Reports, Card!Reported(f, report) PROVE CardHeld'
  <2>. DEFINE new == [g \in {f} |-> [rows[g] EXCEPT !.pos = report[1], !.done = @ \/ report[2]]]
  <2>1. report[1] \in Nat /\ report[1] <= 100 /\ report[2] \in BOOLEAN
    BY DEF Percents
  <2>2. \A g \in Episodes : g \in DOMAIN new => new[g] \in ProgressRow /\ new[g].pos <= 100
    BY <1>t, <2>1 DEF ProgressRow
  <2>. QED
    BY <1>1, <1>2, <2>2 DEF Card!Reported
<1>3. ASSUME NEW S \in SUBSET Episodes, NEW watched \in BOOLEAN, Card!markWatched(S, watched) PROVE CardHeld'
  <2>. DEFINE new == [f \in S |-> [rows[f] EXCEPT !.pos = 0, !.done = watched]]
  <2>1. ASSUME NEW g \in Episodes, g \in DOMAIN new PROVE new[g] \in ProgressRow /\ new[g].pos <= 100
    <3>1. new[g] = [rows[g] EXCEPT !.pos = 0, !.done = watched] /\ rows[g] \in ProgressRow
      BY <1>t, <2>1
    <3>. HIDE DEF new
    <3>2. \A r \in ProgressRow : /\ [r EXCEPT !.pos = 0, !.done = watched] \in ProgressRow
                                 /\ [r EXCEPT !.pos = 0, !.done = watched].pos = 0
      BY DEF ProgressRow
    <3>3. new[g] \in ProgressRow /\ new[g].pos = 0
      BY <3>1, <3>2
    <3>. QED
      BY <3>3
  <2>. QED
    BY <1>1, <1>3, <2>1 DEF Card!markWatched
<1>4. CASE UNCHANGED Card!vars
  BY <1>4 DEF Card!vars, CardHeld
<1>5. CASE Card!Next
  BY <1>2, <1>3, <1>5 DEF Card!Next, Card!tvPlaybackProgress, Card!moviePlaybackProgress,
     Card!tvMarkWatched, Card!movieMarkWatched
<1>. QED
  BY <1>4, <1>5

LEMMA CardHolds ==
  ASSUME MaxReports \in Nat
  PROVE  /\ Card!Init => CardHeld
         /\ CardInv /\ CardHeld => Card!TypeOK
<1>1. Card!Init => CardHeld
  <2>1. SUFFICES ASSUME Card!Init PROVE CardHeld
    OBVIOUS
  <2>2. acts = 0 /\ clock = 1 /\ \A f \in Episodes : rows[f].pos = 0 /\ rows[f].at = 0
    BY <2>1 DEF Card!Init
  <2>. QED
    BY <2>2 DEF CardHeld
<1>2. CardInv /\ CardHeld => Card!TypeOK
  <2>1. SUFFICES ASSUME CardInv, CardHeld PROVE Card!TypeOK
    OBVIOUS
  <2>2. kind \in {"tv", "movie"}
    BY <2>1 DEF CardInv
  <2>3. acts \in 0 .. MaxReports /\ clock \in 1 .. MaxReports + 1
    BY <2>1 DEF CardInv, CardHeld
  <2>4. ASSUME NEW f \in Episodes
        PROVE  rows[f].pos \in 0 .. 100 /\ rows[f].done \in BOOLEAN /\ rows[f].at \in 0 .. clock
    <3>1. rows[f] \in ProgressRow /\ clock \in Nat
      BY <2>1 DEF CardInv
    <3>2. rows[f].pos <= 100 /\ rows[f].at <= clock
      BY <2>1 DEF CardHeld
    <3>. QED
      BY <3>1, <3>2 DEF ProgressRow
  <2>. QED
    BY <2>2, <2>3, <2>4, Zenon DEF Card!TypeOK
<1>. QED
  BY <1>1, <1>2

(* A request without a reply has none of its session.                      *)
PlayHeld == pc \in {"asked", "replied", "streaming"} /\ (pc = "asked" => reply = Play!NoReply)
Modal == \A r \in Requests : r.mode \in {"auto", "direct_play", "direct_stream", "transcode"}
LEMMA PlayHolds ==
  ASSUME Modal
  PROVE  /\ Play!Init => PlayHeld
         /\ PlayHeld /\ [Play!Next]_(Play!vars) => PlayHeld'
         /\ PlayInv /\ PlayHeld => Play!TypeOK
<1>1. Play!Init => PlayHeld
  BY DEF Play!Init, PlayHeld
<1>2. ASSUME PlayHeld, [Play!Next]_(Play!vars) PROVE PlayHeld'
  <2>1. pc' \in {"replied", "streaming"} \/ UNCHANGED Play!vars
    BY <1>2 DEF Play!Next, Play!TitleSession, Play!BookSession, Play!StreamFile, Play!StreamRemux,
       Play!StreamAudio, Play!StreamBurnIn, Play!StreamSegments, Play!Streaming
  <2>. QED
    BY <1>2, <2>1 DEF PlayHeld, Play!vars
<1>3. ASSUME PlayInv, PlayHeld PROVE Play!TypeOK
  <2>1. page \in {"title", "book"} /\ ask.mode \in {"auto", "direct_play", "direct_stream", "transcode"}
    BY <1>3 DEF PlayInv, RequestKnown, Modal
  <2>2. ASSUME pc # "asked"
        PROVE  /\ reply # Play!NoReply
               /\ reply.decision \in {Play!DirectPlay, Play!DirectStream, Play!Transcode}
               /\ reply.url \in {"file", "remux", "hls", "burnin"}
    <3>1. \A p, m : Play!Decide(p, m, ask.mode).decision \in {Play!DirectPlay, Play!DirectStream, Play!Transcode}
      BY <2>1 DEF Play!Decide, Play!Chosen, Play!DirectPlay, Play!DirectStream, Play!Transcode
    <3>2. \A d, b : Play!URL(d, b) \in {"file", "remux", "hls", "burnin"}
      BY DEF Play!URL
    <3>3. reply = IF page = "title" THEN TitleReply ELSE BookReply
      BY <1>3, <2>2 DEF PlayInv, ReplyKnown
    <3>4. \A d, u, a, s, c, o, t : /\ [decision |-> d, url |-> u, aud |-> a, sub |-> s, sidecar |-> c, audio |-> o,
                                       auto |-> t].decision = d
                                    /\ [decision |-> d, url |-> u, aud |-> a, sub |-> s, sidecar |-> c, audio |-> o,
                                       auto |-> t].url = u
      OBVIOUS
    <3>5. CASE page = "title"
      <4>1. \E m, p, b : /\ reply.decision = Play!Decide(p, m, ask.mode).decision
                         /\ reply.url = Play!URL(reply.decision, b)
        BY <3>3, <3>4, <3>5 DEF TitleReply
      <4>. QED
        BY <3>1, <3>2, <4>1 DEF Play!NoReply, Play!None
    <3>6. CASE page = "book"
      <4>1. /\ reply.decision \in {Play!DirectPlay, Play!DirectStream}
            /\ reply.url = Play!URL(reply.decision, FALSE)
        BY <3>3, <3>4, <3>6 DEF BookReply
      <4>2. reply.url \in {"file", "remux", "hls", "burnin"}
        BY <3>2, <4>1
      <4>3. Play!NoReply.url = "none"
        BY DEF Play!NoReply, Play!None
      <4>. QED
        BY <4>1, <4>2, <4>3
    <3>. QED
      BY <2>1, <3>5, <3>6
  <2>3. stream # Play!NoStream => pc = "streaming" /\ reply.url # "file"
    BY <1>3 DEF PlayInv, StreamKnown
  <2>. QED
    BY <1>3, <2>1, <2>2, <2>3 DEF PlayHeld, Play!TypeOK
<1>. QED
  BY <1>1, <1>2, <1>3

(* A feed has one podcast and a guid one episode in it.                    *)
OnePod == \A i, j \in DOMAIN pods : pods[i].feed = pods[j].feed => i = j
OneEpisode == \A i, j \in DOMAIN eps : eps[i] = eps[j] => i = j
FeedHeld == given.pods <= MaxIds /\ given.eps <= MaxIds /\ OnePod /\ OneEpisode

(* As many ids are given as there are new guids, so each gets one.         *)
LEMMA FeedInsertsOnce ==
  ASSUME FeedInv, OneEpisode, NEW p \in DOMAIN pods, NEW S \in SUBSET Guids, IsFiniteSet(S), Feed!Insert(p, S)
  PROVE  OneEpisode' /\ given'.eps <= MaxIds
<1>. DEFINE new == {g \in S : Feed!Known(p, g) = {}}
            n == Feed!Cardinality(new)
            ids == (given.eps + 1) .. (given.eps + n)
<1>1. /\ given \in [pods : Nat, eps : Nat] /\ DOMAIN eps \subseteq 1 .. given.eps
      /\ eps \in [DOMAIN eps -> Episode]
  BY DEF FeedInv, FeedTypes
<1>2. IsFiniteSet(new)
  <2>1. new \subseteq S
    OBVIOUS
  <2>. QED
    BY <2>1, FS_Subset
<1>3. n \in Nat /\ Cardinality(new) = n
  <2>1. Cardinality(new) \in Nat
    BY <1>2, FS_CardinalityType
  <2>. QED
    BY <2>1, SizeOfNew
<1>. DEFINE replaced == UNION {{i \in DOMAIN eps : eps[i] = [pod |-> p, guid |-> g]} \ Feed!Known(p, g) : g \in S}
<1>4. replaced = {}
  BY DEF Feed!Known
<1>40. PICK place \in [ids -> new] :
        /\ {place[i] : i \in ids} = new /\ given.eps + n <= MaxIds
        /\ eps' = [i \in (DOMAIN eps \ replaced) \cup ids |->
                      IF i \in ids THEN [pod |-> p, guid |-> place[i]] ELSE eps[i]]
        /\ given' = [given EXCEPT !.eps = given.eps + n]
  BY Zenon DEF Feed!Insert
<1>. HIDE DEF replaced
<1>41. (DOMAIN eps \ replaced) \cup ids = DOMAIN eps \cup ids
  BY <1>4
<1>5. /\ {place[i] : i \in ids} = new /\ given.eps + n <= MaxIds
      /\ eps' = [i \in DOMAIN eps \cup ids |->
                    IF i \in ids THEN [pod |-> p, guid |-> place[i]] ELSE eps[i]]
      /\ given' = [given EXCEPT !.eps = given.eps + n]
  BY <1>40, <1>41, Zenon
<1>6. given.eps \in Nat /\ given'.eps <= MaxIds
  BY <1>1, <1>5
<1>. HIDE DEF n
<1>7. \A i \in DOMAIN eps : i \notin ids
  BY <1>1, <1>3, <1>6
<1>8. IsFiniteSet(ids) /\ Cardinality(ids) = n
  <2>. DEFINE a == given.eps + 1
              b == given.eps + n
  <2>1. a \in Int /\ b \in Int /\ (IF a > b THEN 0 ELSE b - a + 1) = n
    BY <1>3, <1>6
  <2>2. IsFiniteSet(a .. b) /\ Cardinality(a .. b) = IF a > b THEN 0 ELSE b - a + 1
    BY <2>1, FS_Interval, Zenon
  <2>3. ids = a .. b
    OBVIOUS
  <2>. HIDE DEF a, b
  <2>4. Cardinality(a .. b) = n
    BY <2>1, <2>2
  <2>. QED
    BY <2>2, <2>3, <2>4, Zenon
<1>9. place \in Surjection(ids, new)
  <2>1. \A g \in new : \E i \in ids : place[i] = g
    BY <1>5
  <2>. QED
    BY <1>40, <2>1 DEF Surjection
<1>. HIDE DEF ids, new
<1>10. \A i, j \in ids : place[i] = place[j] => i = j
  <2>1. place \in Injection(ids, new)
    BY <1>3, <1>8, <1>9, FS_SurjSameCardinalityImpliesInj, Zenon
  <2>. QED
    BY <1>40, <2>1 DEF Injection, IsInjective
<1>. USE DEF ids, new
<1>11. \A i \in ids : \A j \in DOMAIN eps : eps[j] # [pod |-> p, guid |-> place[i]]
  BY <1>5 DEF Feed!Known
<1>. HIDE DEF ids, new
<1>12. \A i \in ids : eps'[i] = [pod |-> p, guid |-> place[i]]
  BY <1>5
<1>13. \A i \in DOMAIN eps : eps'[i] = eps[i]
  BY <1>5, <1>7
<1>14. DOMAIN eps' = DOMAIN eps \cup ids
  BY <1>5
<1>15. ASSUME NEW i \in ids, NEW j \in ids, eps'[i] = eps'[j] PROVE i = j
  <2>1. eps'[i] = [pod |-> p, guid |-> place[i]] /\ eps'[j] = [pod |-> p, guid |-> place[j]]
    BY <1>12, Zenon
  <2>2. [pod |-> p, guid |-> place[i]].guid = [pod |-> p, guid |-> place[j]].guid
    BY <1>15, <2>1, Zenon
  <2>3. place[i] = place[j]
    BY <2>2
  <2>. QED
    BY <1>10, <2>3, Zenon
<1>16. ASSUME NEW i \in DOMAIN eps', NEW j \in DOMAIN eps', eps'[i] = eps'[j] PROVE i = j
  <2>1. CASE i \in ids /\ j \in ids
    BY <1>15, <1>16, <2>1
  <2>2. CASE i \in DOMAIN eps /\ j \in DOMAIN eps
    BY <1>13, <1>16, <2>2 DEF OneEpisode
  <2>3. ~(i \in ids /\ j \in DOMAIN eps) /\ ~(j \in ids /\ i \in DOMAIN eps)
    BY <1>11, <1>12, <1>13, <1>16
  <2>. QED
    BY <1>14, <2>1, <2>2, <2>3
<1>. QED
  BY <1>6, <1>16 DEF OneEpisode

LEMMA FeedKeeps ==
  ASSUME FiniteFeeds, FeedInv, FeedHeld, [Feed!Next]_(Feed!vars)
  PROVE  FeedHeld'
<1>t. /\ given \in [pods : Nat, eps : Nat] /\ given.pods \in Nat /\ given.eps \in Nat
      /\ DOMAIN pods \subseteq 1 .. given.pods /\ pods \in [DOMAIN pods -> Pod]
      /\ work \in [Works -> Fetch]
  BY DEF FeedInv, FeedTypes
<1>u. \A w \in Works : OfItsFeed(work[w])
  BY DEF FeedInv
<1>1. ASSUME UNCHANGED <<pods, eps, given>> PROVE FeedHeld'
  BY <1>1 DEF FeedHeld, OnePod, OneEpisode
<1>2. ASSUME NEW w \in Works, Feed!FetchFails(w) PROVE FeedHeld'
  <2>1. /\ pods' = [q \in DOMAIN pods |-> IF q = work[w].pod THEN [pods[q] EXCEPT !.err = TRUE] ELSE pods[q]]
        /\ UNCHANGED <<eps, given>>
    BY <1>2 DEF Feed!FetchFails
  <2>2. \A q \in DOMAIN pods : [pods[q] EXCEPT !.err = TRUE].feed = pods[q].feed
    BY <1>t DEF Pod
  <2>3. DOMAIN pods' = DOMAIN pods /\ \A q \in DOMAIN pods : pods'[q].feed = pods[q].feed
    BY <2>1, <2>2
  <2>. QED
    BY <2>1, <2>3 DEF FeedHeld, OnePod, OneEpisode
<1>3. ASSUME NEW w \in Works, Feed!Upsert(w) PROVE FeedHeld'
  <2>. DEFINE f == work[w].feed
              had == {i \in DOMAIN pods : pods[i].feed = f}
  <2>1. PICK p : /\ UNCHANGED eps
                 /\ IF had = {} THEN p = given.pods + 1 ELSE p \in had
                 /\ p <= MaxIds
                 /\ pods' = [i \in DOMAIN pods \cup {p} |->
                                IF i = p THEN [feed |-> f, err |-> FALSE] ELSE pods[i]]
                 /\ given' = [given EXCEPT !.pods = IF had = {} THEN p ELSE given.pods]
    BY <1>3 DEF Feed!Upsert, Feed!NextId
  <2>2. given'.pods <= MaxIds /\ given'.eps <= MaxIds
    <3>1. given'.eps = given.eps /\ given'.pods \in {p, given.pods}
      BY <1>t, <2>1
    <3>. QED
      BY <2>1, <3>1 DEF FeedHeld
  <2>3. had # {} => p \in had
    BY <2>1
  <2>4. \A i \in DOMAIN pods : pods[i].feed = f => i = p
    BY <2>3 DEF FeedHeld, OnePod
  <2>. HIDE DEF f, had
  <2>5. /\ DOMAIN pods' = DOMAIN pods \cup {p} /\ pods'[p].feed = f
        /\ \A i \in DOMAIN pods \ {p} : pods'[i] = pods[i]
    BY <2>1
  <2>6. OnePod'
    BY <2>4, <2>5 DEF FeedHeld, OnePod
  <2>. QED
    BY <2>1, <2>2, <2>6 DEF FeedHeld, OneEpisode
<1>4. ASSUME NEW w \in Works, Feed!Store(w) PROVE FeedHeld'
  <2>. DEFINE p == work[w].pod
  <2>1. CASE p \notin DOMAIN pods
    BY <1>1, <1>4, <2>1 DEF Feed!Store
  <2>2. CASE p \in DOMAIN pods
    <3>1. PICK S \in SUBSET work[w].items : Feed!Insert(p, S)
      BY <1>4, <2>2 DEF Feed!Store
    <3>2. pods' = [pods EXCEPT ![p].err = FALSE] /\ work[w].at = "store"
      BY <1>4, <2>2 DEF Feed!Store
    <3>3. PICK up \in Upstreams : work[w].items = up[work[w].feed]
      BY <1>u, <3>2 DEF OfItsFeed
    <3>4. work[w].feed \in Feeds
      BY <1>u, <3>2 DEF OfItsFeed
    <3>5. IsFiniteSet(S)
      <4>1. IsFiniteSet(up[work[w].feed])
        BY <3>4 DEF FiniteFeeds
      <4>. QED
        BY <3>3, <4>1, FS_Subset
    <3>6. S \in SUBSET Guids
      BY <1>t DEF Fetch
    <3>7. OneEpisode' /\ given'.eps <= MaxIds /\ given'.pods = given.pods
      BY <2>2, <3>1, <3>5, <3>6, FeedInsertsOnce, FeedInsert DEF FeedHeld
    <3>. HIDE DEF p
    <3>8. DOMAIN pods' = DOMAIN pods /\ \A q \in DOMAIN pods : pods'[q].feed = pods[q].feed
      <4>1. \A q \in DOMAIN pods : [pods[q] EXCEPT !.err = FALSE].feed = pods[q].feed
        BY <1>t DEF Pod
      <4>. QED
        BY <3>2, <4>1
    <3>. QED
      BY <3>7, <3>8 DEF FeedHeld, OnePod
  <2>. QED
    BY <2>1, <2>2
<1>5. ASSUME NEW p \in DOMAIN pods, Feed!Unsubscribe(p) PROVE FeedHeld'
  <2>1. /\ pods' = [i \in DOMAIN pods \ {p} |-> pods[i]]
        /\ eps' = [i \in {j \in DOMAIN eps : eps[j].pod # p} |-> eps[i]] /\ given' = given
    BY <1>5 DEF Feed!Unsubscribe
  <2>. QED
    BY <2>1 DEF FeedHeld, OnePod, OneEpisode
<1>6. CASE UNCHANGED Feed!vars
  BY <1>1, <1>6 DEF Feed!vars
<1>7. CASE Feed!Publish \/ Feed!Restart \/ \E e \in DOMAIN eps, done \in BOOLEAN : Feed!Report(e, done)
  BY <1>1, <1>7 DEF Feed!Publish, Feed!Restart, Feed!Report
<1>8. ASSUME NEW w \in Works, \/ \E f \in Feeds : Feed!Subscribe(w, f)
                              \/ \E p \in DOMAIN pods : Feed!Refresh(w, p)
                              \/ Feed!Fetched(w) \/ Feed!StoreFails(w)
      PROVE  FeedHeld'
  BY <1>1, <1>8 DEF Feed!Subscribe, Feed!Refresh, Feed!Begin, Feed!Fetched, Feed!StoreFails
<1>. QED
  BY <1>2, <1>3, <1>4, <1>5, <1>6, <1>7, <1>8 DEF Feed!Next

LEMMA FeedHolds ==
  ASSUME MaxIds \in Nat
  PROVE  /\ Feed!Init => FeedHeld
         /\ FeedInv /\ FeedHeld => Feed!TypeOK
<1>1. Feed!Init => FeedHeld
  BY DEF Feed!Init, FeedHeld, OnePod, OneEpisode
<1>2. FeedInv /\ FeedHeld => Feed!TypeOK
  BY DEF FeedInv, FeedTypes, FeedHeld, OnePod, OneEpisode, Feed!TypeOK
<1>. QED
  BY <1>1, <1>2

(* The job's candidates are albums or artists, and an album that is        *)
(* skipped has no release group.                                           *)
SkippedBare == \A a \in Albums : album[a].status = "skipped" => album[a].rg = Match!None
MatchHeld == todo \subseteq Albums \cup Artists /\ SkippedBare
Bare(r) == r.status = "skipped" => r.rg = Match!None

LEMMA MatchKeeps ==
  ASSUME Match!None \notin Albums \cup Artists, MatchInv, MatchHeld, [Match!Next]_(Match!vars)
  PROVE  MatchHeld'
<1>t. \A a \in Albums : album[a] \in AlbumRow /\ Bare(album[a])
  BY DEF MatchInv, MatchTypes, MatchHeld, SkippedBare, Bare
<1>d. album = [a \in Albums |-> album[a]]
  BY DEF MatchInv, MatchTypes
<1>a. ASSUME NEW a \in Albums, NEW r, album' = [album EXCEPT ![a] = r], Bare(r), todo' \subseteq todo
      PROVE  MatchHeld'
  <2>1. ASSUME NEW b \in Albums PROVE album'[b].status = "skipped" => album'[b].rg = Match!None
    BY <1>a, <1>d, <1>t DEF Bare
  <2>. QED
    BY <1>a, <2>1 DEF MatchHeld, SkippedBare
<1>b. ASSUME album' = album, todo' \subseteq Albums \cup Artists PROVE MatchHeld'
  BY <1>b DEF MatchHeld, SkippedBare
<1>c. ASSUME phase \in {"match", "refetch"}, Match!Continue
      PROVE  held.of \in Albums /\ todo' = todo
  BY <1>c DEF MatchInv, MatchTypes, JobHolds, Match!Continue, Match!Resting
<1>e. ASSUME NEW a \in Albums, NEW c
      PROVE  /\ Bare([album[a] EXCEPT !.art = c]) /\ Bare([album[a] EXCEPT !.artTried = c])
             /\ Bare([album[a] EXCEPT !.tried = c])
             /\ Bare([[album[a] EXCEPT !.art = c] EXCEPT !.artTried = "recent"])
             /\ Bare([album[a] EXCEPT !.art = c, !.artTried = "never"])
  BY <1>t DEF Bare, AlbumRow
<1>f. Match!Act => todo' = todo
  BY DEF Match!Act, Match!job
<1>1. CASE \/ \E f \in BOOLEAN : Match!BeginJob(f)
           \/ Match!BeginMatch \/ Match!BeginRefetch \/ Match!SweepList \/ Match!EndJob \/ Match!CancelJob
  BY <1>1, <1>b DEF Match!BeginJob, Match!BeginMatch, Match!BeginRefetch, Match!SweepList, Match!EndJob,
     Match!CancelJob, Match!Begin, Match!Candidates
<1>2. CASE \/ \E b \in Artists : Match!EnrichBegin(b)
           \/ \E g \in Groups \cup {Match!None} : Match!EnrichSearched(g)
           \/ \E bio, image \in BOOLEAN : Match!EnrichFetched(bio, image)
           \/ \E g \in Groups : Match!CoverWritten(g)
           \/ \E a \in Albums : Match!RefetchBegin(a)
  <2>1. album' = album /\ todo' \subseteq todo
    BY <1>2 DEF Match!EnrichBegin, Match!EnrichSearched, Match!EnrichFetched, Match!CoverWritten,
       Match!RefetchBegin, Match!Take, Match!Continue
  <2>. QED
    BY <1>b, <2>1 DEF MatchHeld
<1>3. CASE \/ \E c \in DOMAIN files : Match!SweepFile(c)
           \/ \E a \in Albums : Match!UploadFile(a)
           \/ \E b \in Artists, g \in Groups, bio, image \in BOOLEAN : Match!Disambiguate(b, g, bio, image)
           \/ UNCHANGED Match!vars
  <2>1. album' = album /\ todo' = todo
    BY <1>3, <1>f DEF Match!SweepFile, Match!UploadFile, Match!Disambiguate, Match!job, Match!vars
  <2>. QED
    BY <1>b, <2>1 DEF MatchHeld
<1>4. ASSUME NEW a \in Albums, Match!MatchBegin(a) PROVE MatchHeld'
  <2>1. album' = [album EXCEPT ![a] = [album[a] EXCEPT !.tried = "recent"]] /\ todo' \subseteq todo
    BY <1>4 DEF Match!MatchBegin, Match!Take
  <2>. QED
    BY <1>a, <1>e, <2>1
<1>5. ASSUME NEW g \in Groups \cup {Match!None}, Match!MatchFound(g) PROVE MatchHeld'
  <2>. DEFINE a == held.of
              r == IF g = Match!None THEN [album[a] EXCEPT !.status = "unmatched"]
                   ELSE [album[a] EXCEPT !.status = "matched", !.rg = g]
  <2>1. a \in Albums /\ todo' = todo
    BY <1>5, <1>c DEF Match!MatchFound
  <2>2. album' = [album EXCEPT ![a] = r]
    BY <1>5 DEF Match!MatchFound
  <2>3. Bare(r)
    BY <1>t, <2>1 DEF Bare, AlbumRow
  <2>. HIDE DEF a, r
  <2>. QED
    BY <1>a, <2>1, <2>2, <2>3
<1>6. ASSUME NEW found \in BOOLEAN, Match!CoverDone(found) PROVE MatchHeld'
  <2>. DEFINE a == held.of
              filled == IF found THEN Match!Covered(album, a, held.cover) ELSE album
  <2>1. a \in Albums /\ todo' = todo
    BY <1>6, <1>c DEF Match!CoverDone
  <2>2. \E r : Bare(r) /\ Bare([r EXCEPT !.artTried = "recent"]) /\ filled = [album EXCEPT ![a] = r]
    <3>1. filled = album \/ filled = [album EXCEPT ![a] = [album[a] EXCEPT !.art = held.cover]]
      BY DEF Match!Covered
    <3>2. album = [album EXCEPT ![a] = album[a]]
      BY <1>d, <2>1
    <3>. QED
      BY <1>e, <1>t, <2>1, <3>1, <3>2
  <2>3. PICK r : Bare(r) /\ Bare([r EXCEPT !.artTried = "recent"]) /\ filled = [album EXCEPT ![a] = r]
    BY <2>2
  <2>4. \/ album' = album \/ album' = filled
        \/ album' = [filled EXCEPT ![a].artTried = "recent"]
    BY <1>6 DEF Match!CoverDone
  <2>. HIDE DEF a, filled
  <2>5. [filled EXCEPT ![a].artTried = "recent"] = [album EXCEPT ![a] = [r EXCEPT !.artTried = "recent"]]
    BY <1>d, <2>1, <2>3
  <2>. QED
    BY <1>a, <1>b, <2>1, <2>3, <2>4, <2>5 DEF MatchHeld
<1>7. ASSUME NEW a \in Albums, Match!UploadRow(a) \/ Match!ClearArt(a) \/ Match!ReadTags(a) PROVE MatchHeld'
  <2>1. todo' = todo
    BY <1>7, <1>f DEF Match!UploadRow, Match!ClearArt, Match!ReadTags
  <2>2. \/ album' = [album EXCEPT ![a] = [album[a] EXCEPT !.art = Match!Manual(a)]]
        \/ album' = [album EXCEPT ![a] = [album[a] EXCEPT !.art = Match!NoCover, !.artTried = "never"]]
        \/ album' = [album EXCEPT ![a] = [album[a] EXCEPT !.art = Match!Embedded(a)]]
    BY <1>7 DEF Match!UploadRow, Match!ClearArt, Match!ReadTags, Match!Covered
  <2>. QED
    BY <1>a, <1>e, <2>1, <2>2
<1>8. ASSUME NEW a \in Albums, Match!Unmatch(a) \/ Match!Reject(a) \/ Match!Rematch(a) PROVE MatchHeld'
  <2>1. todo' = todo
    BY <1>8, <1>f DEF Match!Unmatch, Match!Reject, Match!Rematch
  <2>2. \/ album' = [album EXCEPT ![a] = [status |-> "", rg |-> Match!None, art |-> Match!NoCover,
                                          tried |-> "never", artTried |-> "never"]]
        \/ \E s \in {"", "skipped"} :
              album' = [album EXCEPT ![a] = [album[a] EXCEPT !.status = s, !.rg = Match!None]]
    BY <1>8 DEF Match!Unmatch, Match!Reject, Match!Rematch
  <2>3. /\ Bare([status |-> "", rg |-> Match!None, art |-> Match!NoCover, tried |-> "never", artTried |-> "never"])
        /\ \A s : Bare([album[a] EXCEPT !.status = s, !.rg = Match!None])
    BY <1>t DEF Bare, AlbumRow
  <2>. QED
    BY <1>a, <2>1, <2>2, <2>3
<1>9. ASSUME NEW S \in SUBSET Albums, Match!Approve(S) PROVE MatchHeld'
  <2>1. /\ todo' = todo
        /\ album' = [a \in Albums |-> IF a \in S /\ album[a].status = "unmatched"
                                      THEN [album[a] EXCEPT !.status = "matched"] ELSE album[a]]
    BY <1>9, <1>f DEF Match!Approve
  <2>2. \A a \in Albums : Bare([album[a] EXCEPT !.status = "matched"])
    BY <1>t DEF Bare, AlbumRow
  <2>3. ASSUME NEW b \in Albums PROVE Bare(album'[b])
    BY <1>t, <2>1, <2>2
  <2>. QED
    BY <2>1, <2>3 DEF MatchHeld, SkippedBare, Bare
<1>10. ASSUME NEW a \in Albums, NEW g \in Groups, NEW cover \in BOOLEAN, Match!Reassign(a, g, cover)
       PROVE  MatchHeld'
  <2>. DEFINE r == [album[a] EXCEPT !.status = "matched", !.rg = g,
                                    !.art = IF cover THEN Match!Fetched(g) ELSE Match!NoCover,
                                    !.artTried = "recent"]
  <2>1. todo' = todo /\ album' = [album EXCEPT ![a] = r]
    BY <1>10, <1>f DEF Match!Reassign
  <2>2. Bare(r)
    BY <1>t DEF Bare, AlbumRow
  <2>. HIDE DEF r
  <2>. QED
    BY <1>a, <2>1, <2>2
<1>11. CASE Match!Age
  <2>. DEFINE r(a) == [album[a] EXCEPT !.tried = IF @ = "never" THEN @ ELSE "stale",
                                       !.artTried = IF @ = "never" THEN @ ELSE "stale"]
  <2>1. todo' = todo /\ album' = [a \in Albums |-> r(a)]
    BY <1>11 DEF Match!Age, Match!job
  <2>2. \A a \in Albums : Bare(r(a))
    BY <1>t DEF Bare, AlbumRow
  <2>. HIDE DEF r
  <2>3. ASSUME NEW b \in Albums PROVE Bare(album'[b])
    BY <2>1, <2>2
  <2>. QED
    BY <2>1, <2>3 DEF MatchHeld, SkippedBare, Bare
<1>. QED
  <2>1. CASE UNCHANGED Match!vars
    BY <1>3, <2>1
  <2>2. ASSUME Match!Next PROVE MatchHeld'
    <3>1. \A S \in {Albums} \cup {{a} : a \in Albums} : S \in SUBSET Albums
      OBVIOUS
    <3>. QED
      BY <1>1, <1>2, <1>3, <1>4, <1>5, <1>6, <1>7, <1>8, <1>9, <1>10, <1>11, <2>2, <3>1 DEF Match!Next
  <2>. QED
    BY <2>1, <2>2

LEMMA MatchHolds ==
  /\ Match!Init => MatchHeld
  /\ MatchInv /\ MatchHeld => Match!TypeOK
<1>1. ASSUME Match!Init PROVE MatchHeld
  <2>. DEFINE new == [status |-> "", rg |-> Match!None, art |-> Match!NoCover, tried |-> "never",
                      artTried |-> "never"]
  <2>1. todo = {} /\ album \in [Albums -> {new}]
    BY <1>1 DEF Match!Init
  <2>2. new.status = ""
    OBVIOUS
  <2>. HIDE DEF new
  <2>3. \A a \in Albums : album[a].status = ""
    BY <2>1, <2>2
  <2>. QED
    BY <2>1, <2>3 DEF MatchHeld, SkippedBare
<1>2. MatchInv /\ MatchHeld => Match!TypeOK
  <2>1. SUFFICES ASSUME MatchInv, MatchHeld PROVE Match!TypeOK
    OBVIOUS
  <2>2. ASSUME NEW a \in Albums
        PROVE  /\ album[a].status \in {"", "matched", "unmatched", "skipped"}
               /\ album[a].rg \in Groups \cup {Match!None}
               /\ {album[a].tried, album[a].artTried} \subseteq Match!Tries
    <3>1. album[a] \in AlbumRow
      BY <2>1 DEF MatchInv, MatchTypes
    <3>2. /\ album[a].status \in {"", "matched", "unmatched", "skipped"}
          /\ album[a].rg \in Groups \cup {Match!None}
      BY <3>1 DEF AlbumRow, Rg
    <3>3. album[a].tried \in Match!Tries /\ album[a].artTried \in Match!Tries
      BY <3>1 DEF AlbumRow
    <3>. QED
      BY <3>2, <3>3
  <2>3. \A b \in Artists : artist[b].mbid \in Groups \cup {Match!None} /\ artist[b].tried \in Match!Tries
    BY <2>1 DEF MatchInv, MatchTypes, ArtistRow, Rg
  <2>. QED
    BY <2>1, <2>2, <2>3 DEF MatchInv, MatchTypes, MatchHeld, SkippedBare, Match!TypeOK
<1>. QED
  BY <1>1, <1>2

(* A row has a title exactly when it is matched, a job that has been       *)
(* placed has one too, and the queue names what there is to fetch.         *)
RowFor(r) ==
    /\ r.status \in {"unmatched", "matched", "skipped"} /\ r.id \in Ids \cup {Video!None}
    /\ r.status = "matched" <=> r.id # Video!None
Wants == Titles \X {"all", "backdrop", "cast"}
Waiting == Titles \X {"all", "backdrop", "cast"} \X BOOLEAN
RowsTyped == \A f \in Files : RowFor(row[f])
JobPlaced ==
    /\ pc \in {"cast", "store"} => held.id # Video!None
    /\ held.files # {} => held.id \in Ids
FetchTyped == keys \subseteq Wants /\ queued \subseteq Waiting
VideoHeld == /\ RowsTyped /\ JobPlaced /\ FetchTyped
             /\ acts \in Nat /\ acts <= MaxActs

(* What the worker does. *)
LEMMA VideoWorkKeeps ==
  ASSUME Video!None \notin Titles, VideoInv, VideoHeld
  PROVE  /\ \/ Video!BeginMatch \/ Video!GateShow \/ Video!GateFilm \/ Video!Record \/ Video!StoreShow
            \/ Video!StoreFilm \/ Video!EndFetch \/ Video!FetchFails \/ Video!SweepList
            \/ Video!EndMatch \/ Video!CancelJob \/ Video!BeginPerson \/ Video!Age
            => VideoHeld'
         /\ \A g \in todo, found \in Ids \cup {Video!None} : Video!Search(g, found) => VideoHeld'
         /\ \A ok \in BOOLEAN : Video!Download(ok) \/ Video!Cast(ok) => VideoHeld'
         /\ \A p \in DOMAIN files : Video!SweepFile(p) => VideoHeld'
         /\ \A i \in Ids : (Video!BeginShow(i) \/ Video!BeginFilm(i) \/ Video!BeginBackdrop(i)
                            \/ Video!BeginCast(i)) => VideoHeld'
<1>t. JobTypes /\ OneJob /\ RowsTyped /\ JobPlaced /\ FetchTyped
  BY DEF VideoInv, VideoTypes, VideoHeld
<1>i. pc \in Placing => held.id # Video!None
  BY <1>t DEF OneJob, Titles
<1>a. ASSUME UNCHANGED <<row, acts>>, queued' \subseteq queued, keys' \subseteq keys,
             \/ held' = held /\ (pc' \in {"cast", "store"} => pc \in Placing \cup {"cast", "store"})
             \/ pc' \notin {"cast", "store"} /\ held' = Video!Free
             \/ held'.id \in Titles /\ (held'.files = {} \/ held'.id \in Ids)
      PROVE  VideoHeld'
  <2>1. RowsTyped' /\ FetchTyped' /\ acts' \in Nat /\ acts' <= MaxActs
    BY <1>a DEF VideoHeld, RowsTyped, FetchTyped
  <2>2. JobPlaced'
    BY <1>a, <1>i, <1>t, VideoFree DEF JobPlaced
  <2>. QED
    BY <2>1, <2>2 DEF VideoHeld
<1>1. ASSUME \/ Video!BeginMatch \/ Video!SweepList \/ Video!EndMatch \/ Video!CancelJob
      PROVE  VideoHeld'
  BY <1>1, <1>a DEF Video!BeginMatch, Video!SweepList, Video!EndMatch, Video!CancelJob, Video!Ended,
                    Video!fetches
<1>2. ASSUME Video!EndFetch \/ Video!FetchFails PROVE VideoHeld'
  BY <1>2, <1>a DEF Video!EndFetch, Video!FetchFails, Video!Ended
<1>3. ASSUME Video!GateShow \/ Video!GateFilm \/ Video!Record PROVE VideoHeld'
  BY <1>3, <1>a DEF Video!GateShow, Video!GateFilm, Video!Record, Video!fetches, Placing
<1>4. ASSUME NEW ok \in BOOLEAN, Video!Download(ok) \/ Video!Cast(ok) PROVE VideoHeld'
  BY <1>4, <1>a DEF Video!Download, Video!Cast, Video!fetches, Placing
<1>5. ASSUME Video!Age \/ \E p \in DOMAIN files : Video!SweepFile(p) PROVE VideoHeld'
  <2>1. UNCHANGED <<row, acts, pc, held, queued, keys>>
    BY <1>5 DEF Video!Age, Video!SweepFile, Video!worker, Video!fetches
  <2>. QED
    BY <2>1, <1>t DEF VideoHeld, RowsTyped, JobPlaced, FetchTyped
<1>6. ASSUME NEW g \in todo, NEW found \in Ids \cup {Video!None}, Video!Search(g, found) PROVE VideoHeld'
  <2>1. UNCHANGED <<row, acts, queued, keys>>
    BY <1>6 DEF Video!Search, Video!fetches
  <2>2. CASE found = Video!None
    BY <1>6, <1>a, <2>1, <2>2 DEF Video!Search
  <2>3. CASE found # Video!None
    <3>1. held'.id = found /\ found \in Ids
      BY <1>6, <2>3 DEF Video!Search, Video!Free
    <3>. QED
      BY <1>a, <2>1, <3>1 DEF Titles
  <2>. QED
    BY <2>2, <2>3
<1>7. ASSUME NEW i \in Titles, NEW what, NEW keyed, NEW step, Video!Begin(i, what, keyed, step)
      PROVE  VideoHeld'
  <2>1. held'.id = i /\ held'.files = {}
    BY <1>7 DEF Video!Begin, Video!Free
  <2>. QED
    BY <1>7, <1>a, <2>1 DEF Video!Begin
<1>8. ASSUME Video!BeginPerson \/ \E i \in Ids : \/ Video!BeginShow(i) \/ Video!BeginFilm(i)
                                               \/ Video!BeginBackdrop(i) \/ Video!BeginCast(i)
      PROVE  VideoHeld'
  BY <1>7, <1>8 DEF Video!BeginPerson, Video!BeginShow, Video!BeginFilm, Video!BeginBackdrop,
                    Video!BeginCast, Titles
<1>9. ASSUME Video!StoreShow \/ Video!StoreFilm PROVE VideoHeld'
  <2>1. PICK S : Video!Matched(S)
    BY <1>9 DEF Video!StoreShow, Video!StoreFilm
  <2>2. /\ pc' = "match" /\ UNCHANGED <<keys, queued, acts>> /\ held.files # {} /\ held' = Video!Free
        /\ row' = [f \in Files |-> IF f \in S THEN [status |-> "matched", id |-> held.id] ELSE row[f]]
    BY <2>1 DEF Video!Matched, Video!fetches
  <2>3. held.id \in Ids
    BY <1>t, <2>2 DEF JobPlaced
  <2>. DEFINE r == [status |-> "matched", id |-> held.id]
  <2>4. RowFor(r)
    BY <2>3 DEF RowFor, Titles
  <2>. HIDE DEF r
  <2>5. RowsTyped'
    <3>1. \A f \in Files : row'[f] = r \/ row'[f] = row[f]
      BY <2>2 DEF r
    <3>. QED
      BY <1>t, <2>4, <3>1 DEF RowsTyped, RowFor
  <2>. QED
    BY <2>2, <2>5, VideoFree DEF VideoHeld, JobPlaced, FetchTyped
<1>. QED
  BY <1>1, <1>2, <1>3, <1>4, <1>5, <1>6, <1>8, <1>9

(* A decision writes rows of the three kinds. *)
LEMMA RowsDecided ==
  ASSUME RowsTyped, NEW S, NEW as, NEW what, Video!Decide(S, as, what), RowFor(as)
  PROVE  RowsTyped'
<1>1. row' = [f \in Files |-> IF f \in S THEN as ELSE row[f]]
  BY DEF Video!Decide
<1>2. ASSUME NEW f \in Files PROVE row'[f] = as \/ row'[f] = row[f]
  BY <1>1
<1>. QED
  BY <1>2 DEF RowsTyped, RowFor

LEMMA Enqueued ==
  ASSUME FetchTyped, NEW i \in Titles, NEW what \in {"all", "backdrop", "cast"}, Video!Enqueue(i, what)
  PROVE  FetchTyped'
<1>1. CASE UNCHANGED Video!fetches
  BY <1>1 DEF FetchTyped, Video!fetches
<1>2. CASE keys' = keys \cup {<<i, what>>} /\ queued' = queued \cup {<<i, what, TRUE>>}
  <2>1. <<i, what>> \in Wants
    BY DEF Wants
  <2>2. <<i, what, TRUE>> \in Waiting
    BY DEF Waiting
  <2>. QED
    BY <1>2, <2>1, <2>2 DEF FetchTyped
<1>. QED
  BY <1>1, <1>2 DEF Video!Enqueue

LEMMA RowsOf ==
  ASSUME Video!None \notin Titles
  PROVE  /\ RowFor(Video!Open) /\ RowFor([status |-> "skipped", id |-> Video!None])
         /\ \A i \in Ids : RowFor([status |-> "matched", id |-> i])
BY DEF RowFor, Video!Open, Titles

(* What people do. *)
LEMMA VideoPeopleKeep ==
  ASSUME Video!None \notin Titles, MaxActs \in Nat, VideoInv, VideoHeld
  PROVE  /\ \A f \in Files : \/ Video!SkipShow(f) \/ Video!SkipFilm(f) \/ Video!Rematch(f)
                             \/ \E i \in Ids : Video!ApproveShow(f, i) \/ Video!ApproveFilm(f, i)
                             => VideoHeld'
         /\ \A i \in Ids : (Video!Unmatch(i) \/ Video!Upload(i) \/ Video!ClearArt(i) \/ Video!ViewShow(i)
                            \/ Video!ViewFilm(i)) => VideoHeld'
         /\ \A fetch \in queued : Video!CancelQueued(fetch) => VideoHeld'
         /\ Video!ViewPerson \/ Video!Restart => VideoHeld'
         /\ \/ Video!UploadFile \/ Video!UploadRead \/ Video!UploadRow \/ Video!UploadRemove
            \/ Video!UnmatchArt \/ Video!ClearRow \/ Video!ClearFile \/ Video!HandlerFails
            => VideoHeld'
<1>t. RowsTyped /\ JobPlaced /\ FetchTyped /\ acts \in Nat
  BY DEF VideoHeld
<1>s. \A i \in Ids : i \in Titles
  BY DEF Titles
<1>d. Video!Act => Video!Begun
  BY DEF Video!Act
<1>a. ASSUME Video!Begun, RowsTyped', FetchTyped' PROVE VideoHeld'
  <2>1. acts < MaxActs /\ acts' = acts + 1 /\ UNCHANGED <<pc, held>>
    BY <1>a DEF Video!Begun, Video!worker
  <2>2. acts' \in Nat /\ acts' <= MaxActs
    BY <1>t, <2>1
  <2>. QED
    BY <1>a, <1>t, <2>1, <2>2 DEF VideoHeld, JobPlaced
<1>b. row' = row => RowsTyped'
  BY <1>t DEF RowsTyped
<1>c. UNCHANGED Video!fetches => FetchTyped'
  BY <1>t DEF FetchTyped, Video!fetches
<1>1. ASSUME NEW f \in Files, Video!SkipShow(f) \/ Video!SkipFilm(f) \/ Video!Rematch(f) PROVE VideoHeld'
  <2>1. Video!Act /\ UNCHANGED Video!fetches
    BY <1>1 DEF Video!SkipShow, Video!SkipFilm, Video!Skipped, Video!Rematch
  <2>2. RowsTyped'
    <3>. DEFINE unset == [status |-> "skipped", id |-> Video!None]
    <3>1. \E S, what : Video!Decide(S, unset, what) \/ Video!Decide(S, Video!Open, what)
      BY <1>1 DEF Video!SkipShow, Video!SkipFilm, Video!Skipped, Video!Rematch
    <3>2. RowFor(unset) /\ RowFor(Video!Open)
      BY RowsOf
    <3>. HIDE DEF unset
    <3>. QED
      BY <1>t, <3>1, <3>2, RowsDecided
  <2>. QED
    BY <1>a, <1>c, <1>d, <2>1, <2>2
<1>2. ASSUME NEW f \in Files, NEW i \in Ids, Video!ApproveShow(f, i) \/ Video!ApproveFilm(f, i)
      PROVE  VideoHeld'
  <2>1. FetchTyped'
    <3>1. CASE Video!ApproveShow(f, i)
      <4>1. queued' \in {queued, queued \cup {<<i, "all", FALSE>>}} /\ keys' = keys
        BY <3>1 DEF Video!ApproveShow
      <4>2. <<i, "all", FALSE>> \in Waiting
        BY <1>s DEF Waiting
      <4>. QED
        BY <1>t, <4>1, <4>2 DEF FetchTyped
    <3>2. CASE Video!ApproveFilm(f, i)
      <4>1. Video!Enqueue(i, "all")
        BY <3>2 DEF Video!ApproveFilm
      <4>. QED
        BY <1>s, <1>t, <4>1, Enqueued
    <3>. QED
      BY <1>2, <3>1, <3>2
  <2>2. RowsTyped'
    <3>. DEFINE as == [status |-> "matched", id |-> i]
    <3>1. \E S : Video!Decide(S, as, i)
      BY <1>2 DEF Video!ApproveShow, Video!ApproveFilm
    <3>2. RowFor(as)
      BY RowsOf
    <3>. HIDE DEF as
    <3>. QED
      BY <1>t, <3>1, <3>2, RowsDecided
  <2>3. Video!Act
    BY <1>2 DEF Video!ApproveShow, Video!ApproveFilm
  <2>. QED
    BY <1>a, <1>d, <2>1, <2>2, <2>3
<1>3. ASSUME NEW i \in Ids, Video!Unmatch(i) PROVE VideoHeld'
  <2>1. PICK S : Video!Decide(S, Video!Open, Video!None)
    BY <1>3 DEF Video!Unmatch
  <2>2. RowsTyped'
    BY <1>t, <2>1, RowsDecided, RowsOf
  <2>. QED
    BY <1>3, <1>a, <1>c, <2>2 DEF Video!Unmatch
<1>4. ASSUME NEW i \in Ids, Video!Upload(i) PROVE VideoHeld'
  BY <1>4, <1>a, <1>b, <1>c DEF Video!Upload
<1>5. ASSUME NEW i \in Ids, Video!ClearArt(i) PROVE VideoHeld'
  BY <1>5, <1>a, <1>b, <1>c DEF Video!ClearArt
<1>6. ASSUME NEW i \in Ids, Video!ViewShow(i) \/ Video!ViewFilm(i) PROVE VideoHeld'
  <2>1. /\ row' = row /\ Video!Act
        /\ \E what \in {"all", "backdrop", "cast"} : Video!Enqueue(i, what)
    BY <1>6 DEF Video!ViewShow, Video!ViewFilm, Video!Seen
  <2>. QED
    BY <1>a, <1>b, <1>d, <1>s, <1>t, <2>1, Enqueued
<1>7. ASSUME Video!ViewPerson PROVE VideoHeld'
  <2>1. Video!Enqueue(Star, "cast") /\ row' = row /\ Video!Act
    BY <1>7 DEF Video!ViewPerson, Video!Seen
  <2>2. Star \in Titles
    BY DEF Titles
  <2>. QED
    BY <1>a, <1>b, <1>d, <1>t, <2>1, <2>2, Enqueued
<1>8. ASSUME NEW fetch \in queued, Video!CancelQueued(fetch) PROVE VideoHeld'
  <2>1. row' = row /\ keys' = keys /\ queued' \subseteq queued /\ Video!Act
    BY <1>8 DEF Video!CancelQueued
  <2>2. FetchTyped'
    BY <1>t, <2>1 DEF FetchTyped
  <2>. QED
    BY <1>a, <1>b, <1>d, <2>1, <2>2
<1>9. ASSUME Video!Restart PROVE VideoHeld'
  <2>1. /\ acts < MaxActs /\ acts' = acts + 1 /\ row' = row
        /\ held' = Video!Free /\ queued' = {} /\ keys' = {} /\ pc' = "idle"
    BY <1>9 DEF Video!Restart
  <2>2. acts' \in Nat /\ acts' <= MaxActs
    BY <1>t, <2>1
  <2>. QED
    BY <1>b, <2>1, <2>2, VideoFree DEF VideoHeld, JobPlaced, FetchTyped
<1>e. ASSUME Video!Handled, FetchTyped' PROVE VideoHeld'
  <2>1. UNCHANGED <<row, acts, pc, held>>
    BY <1>e DEF Video!Handled, Video!worker
  <2>. QED
    BY <1>b, <1>e, <2>1 DEF VideoHeld, JobPlaced
<1>10. ASSUME \/ Video!UploadFile \/ Video!UploadRead \/ Video!UploadRow \/ Video!UploadRemove
              \/ Video!UnmatchArt \/ Video!ClearRow \/ Video!HandlerFails
       PROVE  VideoHeld'
  <2>1. Video!Handled /\ UNCHANGED Video!fetches
    BY <1>10 DEF Video!UploadFile, Video!UploadRead, Video!UploadRow, Video!UploadRemove, Video!UnmatchArt,
                 Video!ClearRow, Video!HandlerFails
  <2>. QED
    BY <1>c, <1>e, <2>1
<1>11. ASSUME Video!ClearFile PROVE VideoHeld'
  <2>1. Video!Handled /\ taking.at = "deleted" /\ Video!Enqueue(taking.id, "all")
    BY <1>11 DEF Video!ClearFile
  <2>2. taking.id \in Titles
    BY <2>1, VideoParts, TakingKnown DEF Video!None
  <2>. QED
    BY <1>e, <1>t, <2>1, <2>2, Enqueued
<1>. QED
  BY <1>1, <1>2, <1>3, <1>4, <1>5, <1>6, <1>7, <1>8, <1>9, <1>10, <1>11

LEMMA VideoHolds ==
  ASSUME Video!None \notin Titles, MaxActs \in Nat
  PROVE  /\ Video!Init => VideoHeld
         /\ VideoInv /\ VideoHeld /\ [Video!Next]_(Video!vars) => VideoHeld'
         /\ VideoInv /\ VideoHeld => Video!TypeOK
<1>1. ASSUME Video!Init PROVE VideoHeld
  <2>1. /\ row = [f \in Files |-> Video!Open] /\ acts = 0 /\ queued = {} /\ keys = {}
        /\ pc = "idle" /\ held = Video!Free
    BY <1>1 DEF Video!Init
  <2>2. RowsTyped
    BY <2>1, RowsOf DEF RowsTyped
  <2>. QED
    BY <2>1, <2>2, VideoFree DEF VideoHeld, JobPlaced, FetchTyped
<1>2. ASSUME VideoInv, VideoHeld, [Video!Next]_(Video!vars) PROVE VideoHeld'
  <2>1. CASE UNCHANGED Video!vars
    BY <1>2, <2>1 DEF VideoHeld, RowsTyped, JobPlaced, FetchTyped, Video!vars, Video!worker, Video!fetches
  <2>2. CASE Video!Next
    BY <1>2, <2>2, VideoWorkKeeps, VideoPeopleKeep DEF Video!Next
  <2>. QED
    BY <1>2, <2>1, <2>2
<1>3. ASSUME VideoInv, VideoHeld PROVE Video!TypeOK
  <2>t. JobTypes /\ OneJob /\ FilmsOnly /\ RowsTyped /\ JobPlaced /\ FetchTyped
    BY <1>3 DEF VideoInv, VideoTypes, VideoHeld
  <2>1. kind \in {"tv", "movie"} /\ acts \in 0 .. MaxActs
    BY <1>3 DEF VideoInv, VideoTypes, VideoHeld
  <2>2. \A f \in Files : /\ row[f].status \in {"unmatched", "matched", "skipped"}
                         /\ row[f].id \in Ids \cup {Video!None}
                         /\ row[f].status = "matched" <=> row[f].id # Video!None
    BY <2>t DEF RowsTyped, RowFor
  <2>3. \A i \in Ids : art[i].manual => kind = "movie"
    BY <2>t DEF FilmsOnly, Titles
  <2>4. held.files \subseteq Files
    BY <2>t DEF JobTypes, VideoHold
  <2>5. held.id = Video!None <=> pc \in {"idle", "match", "sweep"}
    BY <2>t, VideoFree DEF JobTypes, OneJob, JobPlaced, Stages, Placing, Titles
  <2>6. /\ keys \subseteq (Ids \cup {Star}) \X {"all", "backdrop", "cast"}
        /\ queued \subseteq (Ids \cup {Star}) \X {"all", "backdrop", "cast"} \X BOOLEAN
    BY <2>t DEF FetchTyped, Wants, Waiting, Titles
  <2>7. /\ upload.at # Video!None =>
              upload.id \in Ids /\ upload.at \in {"asked", "named", "read", "stored"}
        /\ taking.at # Video!None =>
              taking.id \in Ids /\ taking.at \in {"read", "deleted", "unmatched"}
    BY <1>3, VideoParts DEF HandsPart, HandsTyped
  <2>. QED
    BY <2>1, <2>2, <2>3, <2>4, <2>5, <2>6, <2>7 DEF Video!TypeOK
<1>. QED
  BY <1>1, <1>2, <1>3

-----------------------------------------------------------------------------
(* Each component keeps its type, part by part. *)
LEMMA LaunchTyped ==
  ASSUME Launch!None \notin Procs PROVE Spec => [](part = "launch" => Launch!TypeOK)
<1>. DEFINE Inv == part = "launch" => LaunchInv
<1>1. Init => Inv
  BY LaunchInit DEF Init, Begun
<1>2. Inv /\ [Next]_vars => Inv'
  BY LaunchTurn, LaunchNext
<1>3. Inv => (part = "launch" => Launch!TypeOK)
  BY LaunchHolds
<1>. QED
  BY <1>1, <1>2, <1>3, PTL DEF Spec

LEMMA BrowseTyped == Spec => [](part = "browse" => Browse!TypeOK)
<1>. DEFINE Inv == part = "browse" => BrowseInv
<1>1. Init => Inv
  BY BrowseInit DEF Init, Begun
<1>2. Inv /\ [Next]_vars => Inv'
  BY BrowseTurn, BrowseNext
<1>3. Inv => (part = "browse" => Browse!TypeOK)
  BY DEF BrowseInv
<1>. QED
  BY <1>1, <1>2, <1>3, PTL DEF Spec

LEMMA DisplayTyped ==
  ASSUME Display!None \notin Modes \cup Asks, Screens \subseteq SUBSET Modes
  PROVE  Spec => [](part = "display" => Display!TypeOK)
<1>. DEFINE Inv == part = "display" => DisplayInv /\ DisplayHeld
<1>0. Display!None \notin Modes /\ Display!None \notin Asks
  OBVIOUS
<1>1. Init => Inv
  BY <1>0, DisplayInit, DisplayHolds DEF Init, Begun
<1>2. Inv /\ [Next]_vars => Inv'
  BY <1>0, DisplayTurn, DisplayNext, DisplayKeeps
<1>3. Inv => (part = "display" => Display!TypeOK)
  BY <1>0, DisplayHolds
<1>. QED
  BY <1>1, <1>2, <1>3, PTL DEF Spec

LEMMA PipelineTyped == Spec => [](part = "pipeline" => Pipeline!TypeOK)
<1>. DEFINE Inv == part = "pipeline" => PipelineInv
<1>1. Init => Inv
  BY PipelineInit DEF Init, Begun
<1>2. Inv /\ [Next]_vars => Inv'
  BY PipelineTurn, PipelineNext
<1>3. Inv => (part = "pipeline" => Pipeline!TypeOK)
  BY DEF PipelineInv
<1>. QED
  BY <1>1, <1>2, <1>3, PTL DEF Spec

LEMMA RepairTyped ==
  ASSUME Damages \subseteq SUBSET Damage, MaxPuts \in Nat
  PROVE  Spec => [](part = "repair" => Repair!TypeOK)
<1>. DEFINE Inv == part = "repair" => RepairInv /\ RepairHeld
<1>1. Init => Inv
  BY RepairInit, RepairHolds DEF Init, Begun
<1>2. Inv /\ [Next]_vars => Inv'
  BY RepairTurn, RepairNext, RepairHolds
<1>3. Inv => (part = "repair" => Repair!TypeOK)
  BY RepairHolds
<1>. QED
  BY <1>1, <1>2, <1>3, PTL DEF Spec

LEMMA FeedTyped ==
  ASSUME Upstreams \subseteq [Feeds -> SUBSET Guids], FiniteFeeds, MaxIds \in Nat
  PROVE  Spec => [](part = "feed" => Feed!TypeOK)
<1>. DEFINE Inv == part = "feed" => FeedInv /\ FeedHeld
<1>1. Init => Inv
  BY FeedInit, FeedHolds DEF Init, Begun
<1>2. Inv /\ [Next]_vars => Inv'
  BY FeedTurn, FeedNext, FeedKeeps
<1>3. Inv => (part = "feed" => Feed!TypeOK)
  BY FeedHolds
<1>. QED
  BY <1>1, <1>2, <1>3, PTL DEF Spec

LEMMA MatchTyped ==
  ASSUME Match!None \notin Albums \cup Artists
  PROVE  Spec => [](part = "match" => Match!TypeOK)
<1>. DEFINE Inv == part = "match" => MatchInv /\ MatchHeld
<1>1. Init => Inv
  BY MatchInit, MatchHolds DEF Init, Begun
<1>2. Inv /\ [Next]_vars => Inv'
  BY MatchTurn, MatchNext, MatchKeeps
<1>3. Inv => (part = "match" => Match!TypeOK)
  BY MatchHolds
<1>. QED
  BY <1>1, <1>2, <1>3, PTL DEF Spec

LEMMA VideoTyped ==
  ASSUME Video!None \notin Titles, "skipped" \notin Ids, Star \notin Ids, MaxActs \in Nat
  PROVE  Spec => [](part = "video" => Video!TypeOK)
<1>. DEFINE Inv == part = "video" => VideoInv /\ VideoHeld
<1>1. Init => Inv
  BY VideoInit, VideoHolds DEF Init, Begun
<1>2. Inv /\ [Next]_vars => Inv'
  BY VideoTurn, VideoNext, VideoHolds
<1>3. Inv => (part = "video" => Video!TypeOK)
  BY VideoHolds
<1>. QED
  BY <1>1, <1>2, <1>3, PTL DEF Spec

LEMMA CardTyped ==
  ASSUME Reports \subseteq Percents \X BOOLEAN, MaxReports \in Nat
  PROVE  Spec => [](part = "card" => Card!TypeOK)
<1>. DEFINE Inv == part = "card" => CardInv /\ CardHeld
<1>0. Reports \subseteq Nat \X BOOLEAN
  BY DEF Percents
<1>b. Card!Init => CardInv
  BY DEF Card!Init, CardInv, ProgressRow
<1>1. Init => Inv
  BY <1>b, CardHolds DEF Init, Begun
<1>2. Inv /\ [Next]_vars => Inv'
  BY <1>0, CardTurn, CardStep, CardKeeps
<1>3. Inv => (part = "card" => Card!TypeOK)
  BY CardHolds
<1>. QED
  BY <1>1, <1>2, <1>3, PTL DEF Spec

LEMMA PlayTyped ==
  ASSUME Modal PROVE Spec => [](part = "play" => Play!TypeOK)
<1>. DEFINE Inv == part = "play" => PlayInv /\ PlayHeld
<1>1. Init => Inv
  BY PlayHolds DEF Init, Begun, Play!Init, PlayInv, RequestKnown, ReplyKnown
<1>2. Inv /\ [Next]_vars => Inv'
  BY PlayTurn, PlayStep, PlayHolds
<1>3. Inv => (part = "play" => Play!TypeOK)
  BY PlayHolds
<1>. QED
  BY <1>1, <1>2, <1>3, PTL DEF Spec

LEMMA QueueTyped == ASSUME CatalogKnown PROVE Spec => [](part = "queue" => Queue!TypeOK)
<1>. DEFINE Inv == part = "queue" => QueueInv
<1>1. Init => Inv
  BY QueueInit DEF Init, Begun
<1>2. Inv /\ [Next]_vars => Inv'
  BY QueueTurn, QueueStep
<1>3. Inv => (part = "queue" => Queue!TypeOK)
  BY DEF QueueInv
<1>. QED
  BY <1>1, <1>2, <1>3, PTL DEF Spec

LEMMA LibraryTyped == LibraryInv => Music!TypeOK
<1>1. SUFFICES ASSUME LibraryInv PROVE Music!TypeOK
  OBVIOUS
<1>2. Shelved /\ Listings
  BY <1>1 DEF LibraryInv, MusicTypes
<1>3. /\ \A r \in tracks : r.path \in Paths
      /\ \A r \in tracks : \E a \in albums : a.id = r.album
      /\ \A r, s \in tracks : r.path = s.path \/ r.id = s.id => r = s
      /\ \A a, b \in albums : a.id = b.id \/ a.artist = b.artist => a = b
      /\ \A x \in plays : /\ \E r \in tracks : r.id = x.track
                          /\ \E a \in albums : a.id = x.album
  BY <1>2 DEF Shelved, Shelf
<1>. QED
  BY <1>2, <1>3 DEF Listings, Music!TypeOK

LEMMA MusicTyped == Spec => [](part = "music" => Music!TypeOK)
<1>1. (part = "music" => LibraryInv) => (part = "music" => Music!TypeOK)
  BY LibraryTyped
<1>. QED
  BY <1>1, MusicRuns, PTL

(* Each component holds what its variables are for (the modules named in   *)
(* Services): rows refer to rows that are there and are told apart, an id  *)
(* is given once, a job has a title exactly while it places one, a fetch   *)
(* has its row, and no bound of the instance is passed; for any libraries, *)
(* feeds, requests and modes.                                              *)
THEOREM EveryTypeHolds ==
  ASSUME Launch!None \notin Procs,
         Display!None \notin Modes \cup Asks, Screens \subseteq SUBSET Modes,
         Damages \subseteq SUBSET Damage, MaxPuts \in Nat,
         Upstreams \subseteq [Feeds -> SUBSET Guids], FiniteFeeds, MaxIds \in Nat,
         Match!None \notin Albums \cup Artists,
         Video!None \notin Titles, "skipped" \notin Ids, Star \notin Ids, MaxActs \in Nat,
         Reports \subseteq Percents \X BOOLEAN, MaxReports \in Nat,
         Modal, CatalogKnown
  PROVE  Spec => []TypesOK
<1>1. /\ Spec => [](part = "launch" => Launch!TypeOK)
      /\ Spec => [](part = "browse" => Browse!TypeOK)
      /\ Spec => [](part = "display" => Display!TypeOK)
      /\ Spec => [](part = "pipeline" => Pipeline!TypeOK)
      /\ Spec => [](part = "repair" => Repair!TypeOK)
      /\ Spec => [](part = "feed" => Feed!TypeOK)
  BY LaunchTyped, BrowseTyped, DisplayTyped, PipelineTyped, RepairTyped, FeedTyped
<1>2. /\ Spec => [](part = "match" => Match!TypeOK)
      /\ Spec => [](part = "video" => Video!TypeOK)
      /\ Spec => [](part = "card" => Card!TypeOK)
      /\ Spec => [](part = "play" => Play!TypeOK)
      /\ Spec => [](part = "queue" => Queue!TypeOK)
      /\ Spec => [](part = "music" => Music!TypeOK)
  BY MatchTyped, VideoTyped, CardTyped, PlayTyped, QueueTyped, MusicTyped
<1>3. /\ part = "launch" => Launch!TypeOK
      /\ part = "browse" => Browse!TypeOK
      /\ part = "display" => Display!TypeOK
      /\ part = "pipeline" => Pipeline!TypeOK
      /\ part = "repair" => Repair!TypeOK
      /\ part = "feed" => Feed!TypeOK
      /\ part = "match" => Match!TypeOK
      /\ part = "video" => Video!TypeOK
      /\ part = "card" => Card!TypeOK
      /\ part = "play" => Play!TypeOK
      /\ part = "queue" => Queue!TypeOK
      /\ part = "music" => Music!TypeOK
      => TypesOK
  BY DEF TypesOK
<1>. QED
  BY <1>1, <1>2, <1>3, PTL
=============================================================================
