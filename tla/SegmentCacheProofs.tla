------------------------- MODULE SegmentCacheProofs -------------------------
(***************************************************************************)
(* Proofs about the segment cache, for any number of requests, builds,     *)
(* segments and directories and any caps.  IInv adds to the checked        *)
(* properties what a build and a request must know at each of their steps. *)
(***************************************************************************)
EXTENDS SegmentCache, FiniteSetTheorems, TLAPS

Holders == {b \in Build : held[b] # "none"}
GateHolders == {b \in Build : held[b] = "both"}

(* Only finitely many builds have a slot, however many may wait for one. *)
FewHolders == IsFiniteSet(Holders)

(* A build knows its segment until it is forgotten, and one that waits for *)
(* the gate has the slot of the segment cap and no other.                  *)
BuildsKnow ==
    \A b \in Build :
        /\ bpc[b] # "gone" => bkey[b] \in Seg
        /\ bpc[b] = "gate" => held[b] = "segment"

(* A request that has missed knows its segment. *)
RequestsKnow == \A c \in Client : cpc[c] \in {"join", "wait", "touch"} => cseg[c] \in Seg

(* What a build is about to rename is not half written. *)
TempsAreWhole == \A b \in Build : bpc[b] = "rename" => temp[bkey[b]] # "partial"

IInv ==
    /\ TypeOK /\ SlotsAccounted /\ RegisteredBuildIsLive /\ WholeSegmentsOnly
    /\ FewHolders /\ BuildsKnow /\ RequestsKnow /\ TempsAreWhole

-----------------------------------------------------------------------------
(* A slot taken by a build that had none is one more, a slot given back one *)
(* less.                                                                   *)
LEMMA OneMore ==
  ASSUME NEW S, IsFiniteSet(S), NEW x, x \notin S
  PROVE  IsFiniteSet(S \cup {x}) /\ Cardinality(S \cup {x}) = Cardinality(S) + 1
BY FS_AddElement

(* See OneMore. *)
LEMMA OneLess ==
  ASSUME NEW S, IsFiniteSet(S), NEW x, x \in S
  PROVE  IsFiniteSet(S \ {x}) /\ Cardinality(S \ {x}) = Cardinality(S) - 1
BY FS_RemoveElement

(* The counters are numbers: only finitely many builds have a slot. *)
LEMMA Counts ==
  ASSUME IInv
  PROVE  /\ IsFiniteSet(Holders) /\ IsFiniteSet(GateHolders) /\ GateHolders \subseteq Holders
         /\ Cardinality(Holders) \in Nat /\ Cardinality(GateHolders) \in Nat
         /\ segBusy = Cardinality(Holders) /\ gateBusy = others + Cardinality(GateHolders)
<1>1. GateHolders \subseteq Holders
  BY DEF Holders, GateHolders
<1>2. IsFiniteSet(Holders) /\ segBusy = Cardinality(Holders)
      /\ gateBusy = others + Cardinality(GateHolders)
  BY DEF IInv, FewHolders, SlotsAccounted, Holders, GateHolders
<1>. QED
  BY <1>1, <1>2, FS_Subset, FS_CardinalityType

(* A step that touches no slot, and leaves no build without its slots given *)
(* back at a step that has none, keeps the accounts.                       *)
LEMMA SlotsKept ==
  ASSUME IInv, UNCHANGED slots,
         \A b \in Build : bpc'[b] \in {"segment", "delete", "gone"} => held[b] = "none"
  PROVE  SlotsAccounted' /\ FewHolders'
<1>1. held' = held /\ segBusy' = segBusy /\ gateBusy' = gateBusy /\ others' = others
  BY DEF slots
<1>. QED
  BY <1>1 DEF IInv, SlotsAccounted, FewHolders, Holders

(* The files may change, and a client may move without starting a build,   *)
(* without disturbing the builds in flight.                                *)
LEMMA BuildsKept ==
  ASSUME IInv, UNCHANGED <<build, slots>>
  PROVE  SlotsAccounted' /\ FewHolders' /\ RegisteredBuildIsLive' /\ BuildsKnow'
<1>1. /\ segBuilds' = segBuilds /\ bpc' = bpc /\ bkey' = bkey /\ held' = held
  BY DEF build, slots
<1>2. SlotsAccounted' /\ FewHolders'
  BY <1>1, SlotsKept DEF IInv, SlotsAccounted
<1>. QED
  BY <1>1, <1>2 DEF IInv, RegisteredBuildIsLive, BuildsKnow

LEMMA InitIInv == Init => IInv
<1>. SUFFICES ASSUME Init PROVE IInv
  OBVIOUS
<1>1. TypeOK
  BY CapAssumption DEF Init, TypeOK, File, Age
<1>2. Holders = {} /\ GateHolders = {}
  BY DEF Init, Holders, GateHolders
<1>3. SlotsAccounted /\ FewHolders
  BY <1>2, FS_EmptySet DEF Init, SlotsAccounted, FewHolders, Holders, GateHolders
<1>4. RegisteredBuildIsLive /\ WholeSegmentsOnly /\ BuildsKnow /\ RequestsKnow /\ TempsAreWhole
  BY DEF Init, RegisteredBuildIsLive, WholeSegmentsOnly, BuildsKnow, RequestsKnow, TempsAreWhole
<1>. QED
  BY <1>1, <1>3, <1>4 DEF IInv

-----------------------------------------------------------------------------
(* The steps of a request.                                                 *)
LEMMA RequestKeeps ==
  ASSUME IInv, NEW c \in Client, NEW s \in Seg, Request(c, s) PROVE IInv'
<1>1. TypeOK'
  BY DEF IInv, TypeOK, Request, files, build, slots, pruner
<1>2. SlotsAccounted' /\ FewHolders' /\ RegisteredBuildIsLive' /\ BuildsKnow'
  BY BuildsKept DEF Request
<1>3. WholeSegmentsOnly' /\ RequestsKnow' /\ TempsAreWhole'
  BY DEF IInv, TypeOK, Request, files, build, WholeSegmentsOnly, RequestsKnow, TempsAreWhole
<1>. QED
  BY <1>1, <1>2, <1>3 DEF IInv

(* A request joins the build of its segment, or starts the only one. *)
LEMMA StartOrJoinKeeps ==
  ASSUME IInv, NEW c \in Client, StartOrJoin(c) PROVE IInv'
<1>1. cseg[c] \in Seg /\ cpc[c] = "join"
  BY DEF IInv, RequestsKnow, StartOrJoin
<1>2. WholeSegmentsOnly' /\ RequestsKnow'
  BY DEF IInv, TypeOK, StartOrJoin, files, WholeSegmentsOnly, RequestsKnow
<1>3. CASE segBuilds[cseg[c]] # None
  <2>1. UNCHANGED <<build, slots>> /\ cbuild' = [cbuild EXCEPT ![c] = segBuilds[cseg[c]]]
    BY <1>3 DEF StartOrJoin
  <2>2. TypeOK'
    BY <1>1, <1>3, <2>1 DEF IInv, TypeOK, StartOrJoin, files, build, slots, pruner
  <2>3. TempsAreWhole'
    BY <2>1 DEF IInv, StartOrJoin, files, build, TempsAreWhole
  <2>. QED
    BY <1>2, <2>1, <2>2, <2>3, BuildsKept DEF IInv
<1>4. CASE segBuilds[cseg[c]] = None
  <2>1. PICK b \in Build :
          /\ Idle(b)
          /\ segBuilds' = [segBuilds EXCEPT ![cseg[c]] = b]
          /\ bpc' = [bpc EXCEPT ![b] = "segment"] /\ bkey' = [bkey EXCEPT ![b] = cseg[c]]
          /\ ready' = [ready EXCEPT ![b] = FALSE] /\ berr' = [berr EXCEPT ![b] = FALSE]
          /\ cbuild' = [cbuild EXCEPT ![c] = b]
    BY <1>4 DEF StartOrJoin
  <2>2. bpc[b] = "gone" /\ held[b] = "none"
    BY <2>1 DEF Idle, IInv, SlotsAccounted
  <2>3. TypeOK'
    BY <1>1, <2>1 DEF IInv, TypeOK, StartOrJoin, files, slots, pruner
  <2>4. SlotsAccounted' /\ FewHolders'
    BY <2>1, <2>2, SlotsKept DEF IInv, TypeOK, SlotsAccounted, StartOrJoin
  <2>5. RegisteredBuildIsLive'
    BY <1>1, <1>4, <2>1, <2>2, NoneAssumption DEF IInv, TypeOK, RegisteredBuildIsLive, BuildsKnow
  <2>6. BuildsKnow' /\ TempsAreWhole'
    BY <1>1, <2>1, <2>2 DEF IInv, TypeOK, BuildsKnow, TempsAreWhole, StartOrJoin, files, slots
  <2>. QED
    BY <1>2, <2>3, <2>4, <2>5, <2>6 DEF IInv
<1>. QED
  BY <1>3, <1>4

(* Answers, impatience and the opening of the file change no build. *)
LEMMA OtherClientStepsKeep ==
  ASSUME IInv, NEW c \in Client, Answered(c) \/ GiveUp(c) \/ Touch(c) \/ Open(c) PROVE IInv'
<1>1. UNCHANGED <<build, slots, pruner, final, temp, made>>
  BY DEF Answered, GiveUp, Touch, Open, files
<1>2. TypeOK'
  BY <1>1 DEF IInv, TypeOK, Answered, GiveUp, Touch, Open, Left, Touched, Age, files, build,
              slots, pruner
<1>3. SlotsAccounted' /\ FewHolders' /\ RegisteredBuildIsLive' /\ BuildsKnow'
  BY <1>1, BuildsKept
<1>4. WholeSegmentsOnly' /\ TempsAreWhole'
  BY <1>1 DEF IInv, build, WholeSegmentsOnly, TempsAreWhole
<1>5. RequestsKnow'
  BY DEF IInv, TypeOK, RequestsKnow, Answered, GiveUp, Touch, Open, Left
<1>. QED
  BY <1>2, <1>3, <1>4, <1>5 DEF IInv

-----------------------------------------------------------------------------
(* The steps of a build.  One that only moves on, and touches neither map  *)
(* nor slots, leaves each build in flight registered.                      *)
LEMMA BuildMoves ==
  ASSUME IInv, NEW b \in Build, bpc[b] # "gone", NEW pc,
         bpc' = [bpc EXCEPT ![b] = pc], pc \notin {"gone", "gate", "rename"},
         UNCHANGED <<segBuilds, bkey, client>>
  PROVE  /\ RegisteredBuildIsLive' /\ RequestsKnow'
         /\ (\A d \in Build \ {b} : held'[d] = held[d]) => BuildsKnow'
BY DEF IInv, TypeOK, RegisteredBuildIsLive, RequestsKnow, BuildsKnow, client

(* While the temps stay, or turn to none, what is renamed stays whole. *)
LEMMA TempsKept ==
  ASSUME IInv, UNCHANGED bkey, \A s \in Seg : temp'[s] \in {temp[s], "none"},
         \A b \in Build : bpc'[b] = "rename" => bpc[b] = "rename"
  PROVE  TempsAreWhole'
BY DEF IInv, TempsAreWhole, BuildsKnow

LEMMA AcquireSegmentKeeps ==
  ASSUME IInv, NEW b \in Build, AcquireSegment(b) PROVE IInv'
<1>1. bpc[b] = "segment" /\ held[b] = "none" /\ bkey[b] \in Seg
  BY DEF IInv, AcquireSegment, SlotsAccounted, BuildsKnow
<1>2. TypeOK'
  <2>1. segBusy' \in 0..SegCap /\ gateBusy' = gateBusy /\ others' = others
    BY CapAssumption DEF IInv, TypeOK, AcquireSegment
  <2>2. /\ bpc' \in {[bpc EXCEPT ![b] = "gate"], [bpc EXCEPT ![b] = "finish"]}
        /\ held' \in {held, [held EXCEPT ![b] = "segment"]}
        /\ berr' \in {berr, [berr EXCEPT ![b] = TRUE]}
        /\ UNCHANGED <<files, segBuilds, bkey, ready, client, pruner>>
    BY DEF AcquireSegment, Fails, Goes, Holds
  <2>. QED
    BY <2>1, <2>2 DEF IInv, TypeOK, files, client, pruner
<1>3. WholeSegmentsOnly' /\ TempsAreWhole' /\ RequestsKnow'
  BY DEF IInv, TypeOK, AcquireSegment, Fails, Goes, files, client, WholeSegmentsOnly,
         TempsAreWhole, RequestsKnow
<1>4. RegisteredBuildIsLive'
  BY <1>1 DEF IInv, TypeOK, AcquireSegment, Fails, Goes, RegisteredBuildIsLive
<1>5. BuildsKnow'
  BY <1>1 DEF IInv, TypeOK, AcquireSegment, Fails, Goes, Holds, BuildsKnow
<1>6. SlotsAccounted' /\ FewHolders'
  <2>1. CASE segBusy < SegCap /\ segBusy' = segBusy + 1 /\ Holds(b, "segment") /\ Goes(b, "gate")
    <3>1. held' = [held EXCEPT ![b] = "segment"] /\ bpc' = [bpc EXCEPT ![b] = "gate"]
          /\ gateBusy' = gateBusy /\ others' = others
      BY <2>1 DEF AcquireSegment, Holds, Goes
    <3>2. Holders' = Holders \cup {b} /\ b \notin Holders
      BY <1>1, <3>1 DEF IInv, TypeOK, Holders
    <3>3. GateHolders' = GateHolders
      BY <1>1, <3>1 DEF IInv, TypeOK, GateHolders
    <3>4. IsFiniteSet(Holders') /\ segBusy' = Cardinality(Holders')
          /\ gateBusy' = others' + Cardinality(GateHolders')
      BY <2>1, <3>1, <3>2, <3>3, Counts, OneMore
    <3>5. \A d \in Build : bpc'[d] \in {"segment", "delete", "gone"} => held'[d] = "none"
      BY <1>1, <3>1 DEF IInv, TypeOK, SlotsAccounted
    <3>. QED
      BY <3>4, <3>5 DEF SlotsAccounted, FewHolders, Holders, GateHolders
  <2>2. CASE Fails(b) /\ UNCHANGED <<segBusy, held>>
    BY <2>2, SlotsKept DEF IInv, TypeOK, SlotsAccounted, AcquireSegment, Fails, Goes, slots
  <2>. QED
    BY <2>1, <2>2 DEF AcquireSegment
<1>. QED
  BY <1>2, <1>3, <1>4, <1>5, <1>6 DEF IInv

LEMMA AcquireKeeps ==
  ASSUME IInv, NEW b \in Build, Acquire(b) PROVE IInv'
<1>1. bpc[b] = "gate" /\ held[b] = "segment" /\ bkey[b] \in Seg
  BY DEF IInv, Acquire, BuildsKnow
<1>2. TypeOK'
  <2>1. gateBusy' \in 0..GateCap /\ segBusy' = segBusy /\ others' = others
    BY CapAssumption DEF IInv, TypeOK, Acquire
  <2>2. /\ bpc' \in {[bpc EXCEPT ![b] = "mkdir"], [bpc EXCEPT ![b] = "finish"]}
        /\ held' \in {held, [held EXCEPT ![b] = "both"]}
        /\ berr' \in {berr, [berr EXCEPT ![b] = TRUE]}
        /\ UNCHANGED <<files, segBuilds, bkey, ready, client, pruner>>
    BY DEF Acquire, Fails, Goes, Holds
  <2>. QED
    BY <2>1, <2>2 DEF IInv, TypeOK, files, client, pruner
<1>3. WholeSegmentsOnly' /\ TempsAreWhole' /\ RequestsKnow'
  BY DEF IInv, TypeOK, Acquire, Fails, Goes, files, client, WholeSegmentsOnly,
         TempsAreWhole, RequestsKnow
<1>4. RegisteredBuildIsLive'
  BY <1>1 DEF IInv, TypeOK, Acquire, Fails, Goes, RegisteredBuildIsLive
<1>5. BuildsKnow'
  BY <1>1 DEF IInv, TypeOK, Acquire, Fails, Goes, Holds, BuildsKnow
<1>6. SlotsAccounted' /\ FewHolders'
  <2>1. CASE gateBusy < GateCap /\ gateBusy' = gateBusy + 1 /\ Holds(b, "both") /\ Goes(b, "mkdir")
    <3>1. held' = [held EXCEPT ![b] = "both"] /\ bpc' = [bpc EXCEPT ![b] = "mkdir"]
          /\ segBusy' = segBusy /\ others' = others
      BY <2>1 DEF Acquire, Holds, Goes
    <3>2. Holders' = Holders
      BY <1>1, <3>1 DEF IInv, TypeOK, Holders
    <3>3. GateHolders' = GateHolders \cup {b} /\ b \notin GateHolders
      BY <1>1, <3>1 DEF IInv, TypeOK, GateHolders
    <3>4. IsFiniteSet(Holders') /\ segBusy' = Cardinality(Holders')
      BY <3>1, <3>2, Counts
    <3>5. gateBusy' = others' + Cardinality(GateHolders')
      <4>1. Cardinality(GateHolders') = Cardinality(GateHolders) + 1
        BY <3>3, Counts, OneMore
      <4>2. others \in Nat
        BY CapAssumption DEF IInv, TypeOK
      <4>. QED
        BY <2>1, <3>1, <4>1, <4>2, Counts
    <3>6. \A d \in Build : bpc'[d] \in {"segment", "delete", "gone"} => held'[d] = "none"
      BY <1>1, <3>1 DEF IInv, TypeOK, SlotsAccounted
    <3>. QED
      BY <3>4, <3>5, <3>6 DEF SlotsAccounted, FewHolders, Holders, GateHolders
  <2>2. CASE Fails(b) /\ UNCHANGED <<gateBusy, held>>
    BY <2>2, SlotsKept DEF IInv, TypeOK, SlotsAccounted, Acquire, Fails, Goes, slots
  <2>. QED
    BY <2>1, <2>2 DEF Acquire
<1>. QED
  BY <1>2, <1>3, <1>4, <1>5, <1>6 DEF IInv

(* The other work takes and gives back slots of the gate as one count. *)
LEMMA OtherWorkKeeps ==
  ASSUME IInv, OtherWork PROVE IInv'
<1>1. others \in Nat /\ gateBusy \in Nat /\ others <= gateBusy
  BY CapAssumption, Counts DEF IInv, TypeOK
<1>2. TypeOK'
  BY <1>1, CapAssumption DEF IInv, TypeOK, OtherWork, files, build, client, pruner
<1>3. gateBusy' = others' + Cardinality(GateHolders)
  BY <1>1, Counts DEF OtherWork
<1>4. UNCHANGED <<files, build, held, segBusy, client>>
  BY DEF OtherWork
<1>5. SlotsAccounted' /\ FewHolders'
  BY <1>3, <1>4 DEF IInv, SlotsAccounted, FewHolders, Holders, GateHolders, build
<1>6. RegisteredBuildIsLive' /\ BuildsKnow' /\ RequestsKnow' /\ WholeSegmentsOnly' /\ TempsAreWhole'
  BY <1>4 DEF IInv, files, build, client, RegisteredBuildIsLive, BuildsKnow, RequestsKnow,
              WholeSegmentsOnly, TempsAreWhole
<1>. QED
  BY <1>2, <1>5, <1>6 DEF IInv

LEMMA ReleaseKeeps ==
  ASSUME IInv, NEW b \in Build, Release(b) PROVE IInv'
<1>. DEFINE next == IF ready[b] THEN "delete" ELSE "finish"
<1>1. /\ bpc[b] = "release" /\ bpc' = [bpc EXCEPT ![b] = next]
      /\ held' = [held EXCEPT ![b] = "none"] /\ others' = others
      /\ segBusy' = segBusy - (IF held[b] = "none" THEN 0 ELSE 1)
      /\ gateBusy' = gateBusy - (IF held[b] = "both" THEN 1 ELSE 0)
      /\ UNCHANGED <<files, segBuilds, bkey, ready, berr, client, pruner>>
  BY DEF Release, Released, Holds, Goes
<1>2. segBusy' = Cardinality(Holders') /\ IsFiniteSet(Holders')
  <2>1. CASE held[b] = "none"
    <3>1. Holders' = Holders /\ segBusy' = segBusy
      BY <1>1, <2>1, CapAssumption DEF IInv, TypeOK, Holders
    <3>. QED
      BY <3>1, Counts
  <2>2. CASE held[b] # "none"
    <3>1. Holders' = Holders \ {b} /\ b \in Holders /\ segBusy' = segBusy - 1
      BY <1>1, <2>2 DEF IInv, TypeOK, Holders
    <3>. QED
      BY <3>1, Counts, OneLess
  <2>. QED
    BY <2>1, <2>2
<1>3. gateBusy' = others' + Cardinality(GateHolders') /\ Cardinality(GateHolders') \in Nat
  <2>1. others \in Nat
    BY CapAssumption DEF IInv, TypeOK
  <2>2. CASE held[b] # "both"
    <3>1. GateHolders' = GateHolders /\ gateBusy' = gateBusy
      BY <1>1, <2>2, CapAssumption DEF IInv, TypeOK, GateHolders
    <3>. QED
      BY <1>1, <3>1, Counts
  <2>3. CASE held[b] = "both"
    <3>1. GateHolders' = GateHolders \ {b} /\ b \in GateHolders /\ gateBusy' = gateBusy - 1
      BY <1>1, <2>3 DEF IInv, TypeOK, GateHolders
    <3>2. /\ Cardinality(GateHolders') = Cardinality(GateHolders) - 1
          /\ Cardinality(GateHolders') \in Nat
      BY <3>1, Counts, OneLess, FS_CardinalityType
    <3>. QED
      BY <1>1, <2>1, <3>1, <3>2, Counts
  <2>. QED
    BY <2>2, <2>3
<1>4. TypeOK'
  <2>1. segBusy' \in 0..SegCap /\ gateBusy' \in 0..GateCap
    <3>1. segBusy' \in Nat
      BY <1>2, FS_CardinalityType
    <3>2. gateBusy' \in Nat
      BY <1>1, <1>3, CapAssumption DEF IInv, TypeOK
    <3>. QED
      BY <1>1, <3>1, <3>2, CapAssumption DEF IInv, TypeOK
  <2>. QED
    BY <1>1, <2>1 DEF IInv, TypeOK, files, client, pruner
<1>5. SlotsAccounted' /\ FewHolders'
  <2>1. \A d \in Build : bpc'[d] \in {"segment", "delete", "gone"} => held'[d] = "none"
    BY <1>1 DEF IInv, TypeOK, SlotsAccounted
  <2>. QED
    BY <1>2, <1>3, <2>1 DEF SlotsAccounted, FewHolders, Holders, GateHolders
<1>6. RegisteredBuildIsLive' /\ RequestsKnow' /\ BuildsKnow'
  <2>1. next \notin {"gone", "gate", "rename"} /\ \A d \in Build \ {b} : held'[d] = held[d]
    BY <1>1 DEF IInv, TypeOK
  <2>. QED
    BY <1>1, <2>1, BuildMoves
<1>7. WholeSegmentsOnly' /\ TempsAreWhole'
  BY <1>1, TempsKept DEF IInv, TypeOK, files, WholeSegmentsOnly
<1>. QED
  BY <1>4, <1>5, <1>6, <1>7 DEF IInv

(* The steps between the slots and the answer: the encode and its files. *)
LEMMA EncodeStepsKeep ==
  ASSUME IInv, NEW b \in Build,
         \/ OutOfRange(b) \/ Mkdir(b) \/ StartEncode(b) \/ EncodeDone(b) \/ EncodeFail(b)
         \/ Panic(b) \/ Rename(b) \/ Finish(b)
  PROVE  IInv'
<1>1. bpc[b] # "gone" /\ bkey[b] \in Seg /\ UNCHANGED <<slots, client, pruner, segBuilds, bkey>>
  BY DEF IInv, BuildsKnow, OutOfRange, Mkdir, StartEncode, EncodeDone, EncodeFail, Panic, Rename,
         Finish
<1>2. PICK pc \in {"finish", "ffmpeg", "encode", "rename", "release"} :
        bpc' = [bpc EXCEPT ![b] = pc]
  BY DEF OutOfRange, Mkdir, StartEncode, EncodeDone, EncodeFail, Panic, Rename, Finish, Fails, Goes
<1>3. TypeOK'
  <2>1. /\ final' \in [Seg -> File] /\ temp' \in [Seg -> File]
        /\ made' \subseteq Dir /\ age' \in [Dir -> Age]
    BY <1>1, DirAssumption DEF IInv, TypeOK, File, Age, Touched, files, OutOfRange, Mkdir,
       StartEncode, EncodeDone, EncodeFail, Panic, Rename, Finish
  <2>2. ready' \in [Build -> BOOLEAN] /\ berr' \in [Build -> BOOLEAN]
    BY DEF IInv, TypeOK, Fails, OutOfRange, Mkdir, StartEncode, EncodeDone, EncodeFail, Panic,
           Rename, Finish
  <2>. QED
    BY <1>1, <1>2, <2>1, <2>2 DEF IInv, TypeOK, slots, client, pruner
<1>4. SlotsAccounted' /\ FewHolders'
  BY <1>1, <1>2, SlotsKept DEF IInv, TypeOK, SlotsAccounted
<1>5. RegisteredBuildIsLive' /\ RequestsKnow' /\ BuildsKnow'
  BY <1>1, <1>2 DEF IInv, TypeOK, RegisteredBuildIsLive, RequestsKnow, BuildsKnow, client, slots
<1>6. WholeSegmentsOnly'
  BY <1>1 DEF IInv, TypeOK, WholeSegmentsOnly, TempsAreWhole, files, OutOfRange, Mkdir,
     StartEncode, EncodeDone, EncodeFail, Panic, Rename, Finish
<1>7. TempsAreWhole'
  \* No other build is at work on this one's segment.
  <2>1. \A d \in Build \ {b} : bpc[d] # "gone" => bkey[d] \in Seg /\ bkey[d] # bkey[b]
    BY <1>1 DEF IInv, BuildsKnow, RegisteredBuildIsLive
  <2>2. \A s \in Seg \ {bkey[b]} : temp'[s] = temp[s]
    BY DEF IInv, TypeOK, files, OutOfRange, Mkdir, StartEncode, EncodeDone, EncodeFail, Panic,
           Rename, Finish
  <2>3. bpc'[b] = "rename" => temp'[bkey[b]] # "partial"
    BY <1>1, <1>2 DEF IInv, TypeOK, File, Fails, Goes, OutOfRange, Mkdir, StartEncode,
       EncodeDone, EncodeFail, Panic, Rename, Finish
  <2>4. ASSUME NEW d \in Build, d # b, bpc'[d] = "rename" PROVE temp'[bkey[d]] # "partial"
    BY <1>2, <2>1, <2>2, <2>4 DEF IInv, TypeOK, TempsAreWhole
  <2>. QED
    BY <1>1, <2>3, <2>4 DEF TempsAreWhole
<1>. QED
  BY <1>3, <1>4, <1>5, <1>6, <1>7 DEF IInv

(* The registration is the last thing a build gives up. *)
LEMMA ForgetKeeps ==
  ASSUME IInv, NEW b \in Build, Forget(b) PROVE IInv'
<1>1. /\ bpc[b] = "delete" /\ bkey[b] \in Seg /\ segBuilds[bkey[b]] = b
      /\ bpc' = [bpc EXCEPT ![b] = "gone"] /\ segBuilds' = [segBuilds EXCEPT ![bkey[b]] = None]
      /\ UNCHANGED <<files, bkey, ready, berr, slots, client, pruner>>
  BY DEF IInv, BuildsKnow, RegisteredBuildIsLive, Forget, Goes
<1>2. TypeOK'
  BY <1>1 DEF IInv, TypeOK, files, slots, client, pruner
<1>3. SlotsAccounted' /\ FewHolders'
  BY <1>1, SlotsKept DEF IInv, TypeOK, SlotsAccounted
<1>4. RegisteredBuildIsLive'
  BY <1>1 DEF IInv, TypeOK, RegisteredBuildIsLive, BuildsKnow
<1>5. BuildsKnow' /\ RequestsKnow' /\ WholeSegmentsOnly' /\ TempsAreWhole'
  BY <1>1 DEF IInv, TypeOK, BuildsKnow, RequestsKnow, WholeSegmentsOnly, TempsAreWhole, files,
              client, slots
<1>. QED
  BY <1>2, <1>3, <1>4, <1>5 DEF IInv

-----------------------------------------------------------------------------
(* The pruner only ever turns files to none. *)
LEMMA PrunerKeeps ==
  ASSUME IInv, StartPrune \/ PrunerStep PROVE IInv'
<1>1. UNCHANGED <<age, build, slots, client>>
  BY DEF StartPrune, PrunerStep, Measure, Evict, EndMeasure, EndPrune, files
<1>2. /\ final' \in [Seg -> File] /\ temp' \in [Seg -> File] /\ made' \subseteq Dir
      /\ \A s \in Seg : final'[s] \in {final[s], "none"} /\ temp'[s] \in {temp[s], "none"}
  <2>1. CASE \E d \in Dir : Measure(d)
    BY <2>1 DEF IInv, TypeOK, File, Measure, RemoveAll
  <2>2. CASE \E d \in Dir : Evict(d)
    BY <2>2 DEF IInv, TypeOK, File, Evict, RemoveAll
  <2>3. CASE StartPrune \/ EndMeasure \/ EndPrune
    BY <2>3 DEF IInv, TypeOK, StartPrune, EndMeasure, EndPrune, files
  <2>. QED
    BY <2>1, <2>2, <2>3 DEF PrunerStep
<1>3. /\ ppc' \in {"idle", "measure", "evict"} /\ todo' \subseteq Dir
      /\ item' \in [Dir -> {None} \cup [age : Age, segs : SUBSET Seg]]
  <2>1. CASE \E d \in Dir : Measure(d)
    BY <2>1 DEF IInv, TypeOK, Measure, SegsOf
  <2>2. CASE \E d \in Dir : Evict(d)
    BY <2>2 DEF IInv, TypeOK, Evict
  <2>3. CASE StartPrune \/ EndMeasure \/ EndPrune
    BY <2>3 DEF IInv, TypeOK, StartPrune, EndMeasure, EndPrune
  <2>. QED
    BY <2>1, <2>2, <2>3 DEF PrunerStep
<1>4. TypeOK'
  BY <1>1, <1>2, <1>3 DEF IInv, TypeOK, build, slots, client
<1>5. SlotsAccounted' /\ FewHolders' /\ RegisteredBuildIsLive' /\ BuildsKnow'
  BY <1>1, BuildsKept
<1>6. WholeSegmentsOnly' /\ RequestsKnow' /\ TempsAreWhole'
  BY <1>1, <1>2, TempsKept DEF IInv, WholeSegmentsOnly, RequestsKnow, client, build
<1>. QED
  BY <1>4, <1>5, <1>6 DEF IInv

(* A directory grows older. *)
LEMMA LaterKeeps ==
  ASSUME IInv, NEW d \in Dir, Later(d) PROVE IInv'
<1>1. UNCHANGED <<final, temp, made, build, slots, client, pruner>> /\ age' \in [Dir -> Age]
  BY DEF IInv, TypeOK, Later, Age
<1>. QED
  BY <1>1, BuildsKept DEF IInv, TypeOK, WholeSegmentsOnly, RequestsKnow, TempsAreWhole, build,
                          slots, client, pruner

(* After a kill nothing is in flight, and the files stay as they were. *)
LEMMA CrashKeeps == ASSUME IInv, Crash PROVE IInv'
<1>1. TypeOK'
  BY CapAssumption DEF IInv, TypeOK, Crash, files
<1>2. Holders' = {} /\ GateHolders' = {}
  BY DEF Crash, Holders, GateHolders
<1>3. SlotsAccounted' /\ FewHolders'
  BY <1>2, FS_EmptySet DEF Crash, SlotsAccounted, FewHolders, Holders, GateHolders
<1>. QED
  BY <1>1, <1>3 DEF IInv, Crash, files, RegisteredBuildIsLive, WholeSegmentsOnly, BuildsKnow,
                    RequestsKnow, TempsAreWhole

(* A step that changes nothing. *)
LEMMA StutterKeeps == ASSUME IInv, UNCHANGED vars PROVE IInv'
<1>1. UNCHANGED <<files, build, slots, client, pruner>>
  BY DEF vars
<1>. QED
  BY <1>1, BuildsKept DEF IInv, TypeOK, WholeSegmentsOnly, RequestsKnow, TempsAreWhole, files,
                          build, slots, client, pruner

-----------------------------------------------------------------------------
(* Every step keeps IInv. *)
LEMMA NextIInv == IInv /\ [Next]_vars => IInv'
<1>. SUFFICES ASSUME IInv, [Next]_vars PROVE IInv'
  OBVIOUS
<1>1. ASSUME NEW c \in Client, ClientStep(c) PROVE IInv'
  BY <1>1, StartOrJoinKeeps, OtherClientStepsKeep DEF ClientStep
<1>2. ASSUME NEW c \in Client, GiveUp(c) PROVE IInv'
  BY <1>2, OtherClientStepsKeep
<1>3. ASSUME NEW c \in Client, NEW s \in Seg, Request(c, s) PROVE IInv'
  BY <1>3, RequestKeeps
<1>4. ASSUME NEW b \in Build, BuildStep(b) PROVE IInv'
  BY <1>4, AcquireSegmentKeeps, AcquireKeeps, ReleaseKeeps, ForgetKeeps, EncodeStepsKeep
     DEF BuildStep
<1>5. CASE StartPrune \/ PrunerStep
  BY <1>5, PrunerKeeps
<1>6. CASE OtherWork
  BY <1>6, OtherWorkKeeps
<1>7. ASSUME NEW d \in Dir, Later(d) PROVE IInv'
  BY <1>7, LaterKeeps
<1>8. CASE Crash
  BY <1>8, CrashKeeps
<1>9. CASE UNCHANGED vars
  BY <1>9, StutterKeeps
<1>. QED
  BY <1>1, <1>2, <1>3, <1>4, <1>5, <1>6, <1>7, <1>8, <1>9 DEF Next

(* IInv holds in every reachable state. *)
THEOREM Invariance == Spec => []IInv
<1>1. Init => IInv
  BY InitIInv
<1>2. IInv /\ [Next]_vars => IInv'
  BY NextIInv
<1>. QED
  BY <1>1, <1>2, PTL DEF Spec

(* Every variable keeps its type; the counters of both semaphores never    *)
(* leave their range.                                                      *)
THEOREM TypeCorrect == Spec => []TypeOK
<1>1. IInv => TypeOK
  BY DEF IInv
<1>. QED
  BY <1>1, Invariance, PTL

(* No way out of runSegBuild leaks a slot or gives one back twice, and the *)
(* two caps hold.                                                          *)
THEOREM SlotsNeverLeak == Spec => []SlotsAccounted
<1>1. IInv => SlotsAccounted
  BY DEF IInv
<1>. QED
  BY <1>1, Invariance, PTL

(* The map of EnsureSegment holds exactly the builds in flight, one for a  *)
(* segment.                                                                *)
THEOREM BuildsAreRegistered == Spec => []RegisteredBuildIsLive
<1>1. IInv => RegisteredBuildIsLive
  BY DEF IInv
<1>. QED
  BY <1>1, Invariance, PTL

(* No kill, panic, sweep or concurrent request publishes a partial file. *)
THEOREM NeverPartial == Spec => []WholeSegmentsOnly
<1>1. IInv => WholeSegmentsOnly
  BY DEF IInv
<1>. QED
  BY <1>1, Invariance, PTL
=============================================================================
