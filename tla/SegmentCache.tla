---------------------------- MODULE SegmentCache ----------------------------
(***************************************************************************)
(* On-demand HLS segments (internal/video): a request serves the cached    *)
(* file or joins the one build of its segment; a build takes a slot of the *)
(* segment cap, then one of the ffmpeg gate it shares with all other work, *)
(* encodes to a temp file and renames it.  Every 15 minutes PruneCache     *)
(* sweeps stale temps, expires old asset directories and evicts idle ones  *)
(* over the budget.  The process may be killed at any time.                *)
(***************************************************************************)
EXTENDS Integers, FiniteSets

CONSTANTS
    Seg,      \* segments: an asset directory and an index
    Dir,      \* asset directories (one per source file, height and audio track)
    DirOf,    \* the directory of each segment
    Client,   \* requests of players, one at a time each
    Build,    \* names for builds in flight
    None,     \* no build, no segment
    SegCap,   \* SetSegmentConcurrency
    GateCap,  \* SetConcurrency
    MaxBytes  \* budget of the cache, in segments

ASSUME CapAssumption == /\ SegCap \in Nat \ {0} /\ GateCap \in Nat \ {0}
                        /\ MaxBytes \in Nat
ASSUME DirAssumption == DirOf \in [Seg -> Dir]
ASSUME NoneAssumption == None \notin Build /\ None \notin Seg

VARIABLES
    final,      \* segNNNNN.ts of each segment
    temp,       \* .segNNNNN.ts.tmp of each segment
    made,       \* asset directories that exist
    age,        \* how long ago each directory's newest mtime is
    segBuilds,  \* the map of builds in flight
    bpc, bkey,  \* where each build is in runSegBuild, and its segment
    ready, berr, \* its channel is closed, its error
    held,       \* the slots each build has taken
    segBusy, gateBusy, \* slots taken
    others,     \* slots of the gate held by other ffmpeg work
    cpc, cseg, cbuild, \* where each request is, its segment, the build it waits for
    ppc, todo,  \* the pruner and the directories it has still to measure
    item        \* what it measured: age and content

files == <<final, temp, made, age>>
build == <<segBuilds, bpc, bkey, ready, berr>>
slots == <<held, segBusy, gateBusy, others>>
client == <<cpc, cseg, cbuild>>
pruner == <<ppc, todo, item>>
vars == <<files, build, slots, client, pruner>>

File == {"none", "partial", "whole"}
Age == {"fresh", "idle", "old"}  \* in the grace window, out of it, past maxAge
Writing == {"encode", "rename"}

SegsOf(d) == {s \in Seg : DirOf[s] = d}
Touched(d) == age' = [age EXCEPT ![d] = "fresh"]

Init ==
    /\ final = [s \in Seg |-> "none"] /\ temp = [s \in Seg |-> "none"]
    /\ made = {} /\ age = [d \in Dir |-> "fresh"]
    /\ segBuilds = [s \in Seg |-> None]
    /\ bpc = [b \in Build |-> "gone"] /\ bkey = [b \in Build |-> None]
    /\ ready = [b \in Build |-> FALSE] /\ berr = [b \in Build |-> FALSE]
    /\ held = [b \in Build |-> "none"] /\ segBusy = 0 /\ gateBusy = 0 /\ others = 0
    /\ cpc = [c \in Client |-> "idle"] /\ cseg = [c \in Client |-> None]
    /\ cbuild = [c \in Client |-> None]
    /\ ppc = "idle" /\ todo = {} /\ item = [d \in Dir |-> None]

-----------------------------------------------------------------------------
(* EnsureSegment, and the handler that opens the path it returns.          *)
Request(c, s) ==
    /\ cpc[c] = "idle"
    /\ cpc' = [cpc EXCEPT ![c] = IF final[s] # "none" THEN "touch" ELSE "join"]
    /\ cseg' = [cseg EXCEPT ![c] = s]
    /\ UNCHANGED <<files, build, slots, cbuild, pruner>>

Idle(b) == bpc[b] = "gone" /\ \A c \in Client : cbuild[c] # b

(* Mutated form: every request that misses starts a build of its own. *)
StartAlways(c) ==
    /\ cpc[c] = "join"
    /\ cpc' = [cpc EXCEPT ![c] = "wait"]
    /\ \E b \in Build :
         /\ Idle(b)
         /\ segBuilds' = [segBuilds EXCEPT ![cseg[c]] = b]
         /\ bpc' = [bpc EXCEPT ![b] = "segment"] /\ bkey' = [bkey EXCEPT ![b] = cseg[c]]
         /\ ready' = [ready EXCEPT ![b] = FALSE] /\ berr' = [berr EXCEPT ![b] = FALSE]
         /\ cbuild' = [cbuild EXCEPT ![c] = b]
    /\ UNCHANGED <<files, slots, cseg, pruner>>

StartOrJoin(c) ==
    /\ cpc[c] = "join"
    /\ cpc' = [cpc EXCEPT ![c] = "wait"]
    /\ \/ /\ segBuilds[cseg[c]] # None
          /\ cbuild' = [cbuild EXCEPT ![c] = segBuilds[cseg[c]]]
          /\ UNCHANGED build
       \/ /\ segBuilds[cseg[c]] = None
          /\ \E b \in Build :
               /\ Idle(b)
               /\ segBuilds' = [segBuilds EXCEPT ![cseg[c]] = b]
               /\ bpc' = [bpc EXCEPT ![b] = "segment"]
               /\ bkey' = [bkey EXCEPT ![b] = cseg[c]]
               /\ ready' = [ready EXCEPT ![b] = FALSE]
               /\ berr' = [berr EXCEPT ![b] = FALSE]
               /\ cbuild' = [cbuild EXCEPT ![c] = b]
    /\ UNCHANGED <<files, slots, cseg, pruner>>

Left(c, pc) ==
    /\ cpc' = [cpc EXCEPT ![c] = pc]
    /\ cseg' = IF pc = "idle" THEN [cseg EXCEPT ![c] = None] ELSE cseg
    /\ cbuild' = [cbuild EXCEPT ![c] = None]

Answered(c) ==
    /\ cpc[c] = "wait" /\ ready[cbuild[c]]
    /\ Left(c, IF berr[cbuild[c]] THEN "idle" ELSE "touch")
    /\ UNCHANGED <<files, build, slots, pruner>>

(* The player gives up; the build goes on for the cache. *)
GiveUp(c) ==
    /\ cpc[c] = "wait"
    /\ Left(c, "idle")
    /\ UNCHANGED <<files, build, slots, pruner>>

Touch(c) ==
    /\ cpc[c] = "touch"
    /\ IF DirOf[cseg[c]] \in made THEN Touched(DirOf[cseg[c]]) ELSE UNCHANGED age
    /\ Left(c, "open")
    /\ UNCHANGED <<final, temp, made, build, slots, pruner>>

(* Serves the file, or answers 404 when it is gone. *)
Open(c) ==
    /\ cpc[c] = "open"
    /\ Left(c, "idle")
    /\ UNCHANGED <<files, build, slots, pruner>>

-----------------------------------------------------------------------------
(* runSegBuild: the two slots, in this order. *)
Goes(b, pc) == bpc' = [bpc EXCEPT ![b] = pc]

Holds(b, h) == held' = [held EXCEPT ![b] = h]

Fails(b) == Goes(b, "finish") /\ berr' = [berr EXCEPT ![b] = TRUE]

OutOfRange(b) ==
    /\ bpc[b] = "segment"
    /\ Fails(b)
    /\ UNCHANGED <<files, segBuilds, bkey, ready, slots, client, pruner>>

AcquireSegment(b) ==
    /\ bpc[b] = "segment"
    /\ \/ /\ segBusy < SegCap
          /\ segBusy' = segBusy + 1 /\ Holds(b, "segment")
          /\ Goes(b, "gate") /\ UNCHANGED berr
       \/ segBusy >= SegCap /\ Fails(b) /\ UNCHANGED <<segBusy, held>> \* segBuildTimeout
    /\ UNCHANGED <<files, segBuilds, bkey, ready, gateBusy, others, client, pruner>>

(* Mutated form: a full gate is no obstacle. *)
AcquireAnyway(b) ==
    /\ bpc[b] = "gate"
    /\ gateBusy' = gateBusy + 1 /\ Holds(b, "both")
    /\ Goes(b, "mkdir")
    /\ UNCHANGED <<files, segBuilds, bkey, ready, berr, segBusy, others, client, pruner>>

Acquire(b) ==
    /\ bpc[b] = "gate"
    /\ \/ /\ gateBusy < GateCap
          /\ gateBusy' = gateBusy + 1 /\ Holds(b, "both")
          /\ Goes(b, "mkdir") /\ UNCHANGED berr
       \/ gateBusy >= GateCap /\ Fails(b) /\ UNCHANGED <<gateBusy, held>> \* ffmpegTimeout
    /\ UNCHANGED <<files, segBuilds, bkey, ready, segBusy, others, client, pruner>>

Mkdir(b) ==
    /\ bpc[b] = "mkdir"
    /\ LET d == DirOf[bkey[b]]
       IN  /\ made' = made \cup {d}
           /\ IF d \in made THEN UNCHANGED age ELSE Touched(d)
    /\ Goes(b, "ffmpeg")
    /\ UNCHANGED <<final, temp, segBuilds, bkey, ready, berr, slots, client, pruner>>

(* ffmpeg opens the temp file, over a stale one if there is one. *)
StartEncode(b) ==
    /\ bpc[b] = "ffmpeg"
    /\ LET s == bkey[b]
       IN  \/ /\ DirOf[s] \in made
              /\ temp' = [temp EXCEPT ![s] = "partial"] /\ Touched(DirOf[s])
              /\ Goes(b, "encode") /\ UNCHANGED berr
           \/ DirOf[s] \notin made /\ Fails(b) /\ UNCHANGED <<temp, age>>
    /\ UNCHANGED <<final, made, segBuilds, bkey, ready, slots, client, pruner>>

EncodeDone(b) ==
    /\ bpc[b] = "encode"
    /\ temp' = [temp EXCEPT ![bkey[b]] = IF @ = "none" THEN "none" ELSE "whole"]
    /\ Goes(b, "rename")
    /\ UNCHANGED <<final, made, age, segBuilds, bkey, ready, berr, slots, client, pruner>>

(* Mutated form: ffmpeg's error is not looked at. *)
EncodeFailKept(b) ==
    /\ bpc[b] = "encode"
    /\ Goes(b, "rename")
    /\ UNCHANGED <<files, segBuilds, bkey, ready, berr, slots, client, pruner>>

(* An error or the build timeout: the temp file is removed. *)
EncodeFail(b) ==
    /\ bpc[b] = "encode"
    /\ temp' = [temp EXCEPT ![bkey[b]] = "none"]
    /\ Fails(b)
    /\ UNCHANGED <<final, made, age, segBuilds, bkey, ready, slots, client, pruner>>

(* Mutated form: the goroutine dies without telling the callers. *)
PanicSilently(b) ==
    /\ bpc[b] = "encode"
    /\ Goes(b, "delete") /\ berr' = [berr EXCEPT ![b] = TRUE]
    /\ UNCHANGED <<files, segBuilds, bkey, ready, slots, client, pruner>>

(* A panic: the slots are given back, then the callers are told; the temp  *)
(* file stays for the sweep.                                               *)
Panic(b) ==
    /\ bpc[b] = "encode"
    /\ Goes(b, "release") /\ berr' = [berr EXCEPT ![b] = TRUE]
    /\ UNCHANGED <<files, segBuilds, bkey, ready, slots, client, pruner>>

Rename(b) ==
    /\ bpc[b] = "rename"
    /\ LET s == bkey[b]
       IN  \/ /\ temp[s] # "none"
              /\ final' = [final EXCEPT ![s] = temp[s]]
              /\ temp' = [temp EXCEPT ![s] = "none"]
              /\ Touched(DirOf[s])
              /\ Goes(b, "finish") /\ UNCHANGED berr
           \/ temp[s] = "none" /\ Fails(b) /\ UNCHANGED <<final, temp, age>>
    /\ UNCHANGED <<made, segBuilds, bkey, ready, slots, client, pruner>>

(* finish: sets the error and closes the channel, once. *)
Finish(b) ==
    /\ bpc[b] = "finish"
    /\ ready' = [ready EXCEPT ![b] = TRUE]
    /\ Goes(b, "release")
    /\ UNCHANGED <<files, segBuilds, bkey, berr, slots, client, pruner>>

(* Mutated form: only a build that got both slots gives them back. *)
ReleasedBoth(b) == IF held[b] = "both" THEN <<1, 1>> ELSE <<0, 0>>

Released(b) ==
    <<IF held[b] = "none" THEN 0 ELSE 1, IF held[b] = "both" THEN 1 ELSE 0>>

Release(b) ==
    /\ bpc[b] = "release"
    /\ segBusy' = segBusy - Released(b)[1] /\ gateBusy' = gateBusy - Released(b)[2]
    /\ Holds(b, "none")
    /\ Goes(b, IF ready[b] THEN "delete" ELSE "finish")
    /\ UNCHANGED <<files, segBuilds, bkey, ready, berr, others, client, pruner>>

(* The deferred delete is the last thing a build does. *)
Forget(b) ==
    /\ bpc[b] = "delete"
    /\ segBuilds' = [segBuilds EXCEPT ![bkey[b]] = None]
    /\ Goes(b, "gone")
    /\ UNCHANGED <<files, bkey, ready, berr, slots, client, pruner>>

(* Probes, remuxes, burn-ins: they share the gate for as long as they like. *)
OtherWork ==
    /\ \/ gateBusy < GateCap /\ others' = others + 1 /\ gateBusy' = gateBusy + 1
       \/ others > 0 /\ others' = others - 1 /\ gateBusy' = gateBusy - 1
    /\ UNCHANGED <<files, build, held, segBusy, client, pruner>>

-----------------------------------------------------------------------------
(* PruneCache, on a goroutine of its own. *)
\* Temps no build is at work on; those of builds are younger than buildTimeout.
Orphans(d) == {s \in SegsOf(d) : temp[s] # "none"
                                  /\ \A b \in Build : bpc[b] \in Writing => bkey[b] # s}

StartPrune ==
    /\ ppc = "idle"
    /\ ppc' = "measure" /\ todo' = made /\ item' = [d \in Dir |-> None]
    /\ UNCHANGED <<files, build, slots, client>>

RemoveAll(d, swept) ==
    /\ final' = [s \in Seg |-> IF DirOf[s] = d THEN "none" ELSE final[s]]
    /\ temp' = [s \in Seg |-> IF DirOf[s] = d \/ s \in swept THEN "none" ELSE temp[s]]
    /\ made' = made \ {d}

(* One directory: the stale temps go, then the directory if it is too old. *)
Measure(d) ==
    /\ ppc = "measure" /\ d \in todo
    /\ todo' = todo \ {d}
    /\ \E swept \in SUBSET Orphans(d) :
         IF age[d] = "old"
         THEN RemoveAll(d, swept) /\ UNCHANGED item
         ELSE /\ item' = [item EXCEPT ![d] = [age |-> age[d],
                                               segs |-> {s \in SegsOf(d) : final[s] # "none"}]]
              /\ temp' = [s \in Seg |-> IF s \in swept THEN "none" ELSE temp[s]]
              /\ UNCHANGED <<final, made>>
    /\ UNCHANGED <<age, build, slots, client, ppc>>

Items == {d \in Dir : item[d] # None}
Total == Cardinality(UNION {item[d].segs : d \in Items})

EndMeasure ==
    /\ ppc = "measure" /\ todo = {}
    /\ ppc' = "evict"
    /\ UNCHANGED <<files, build, slots, client, todo, item>>

(* Over the budget: oldest first, but nothing measured in the grace window. *)
Evict(d) ==
    /\ ppc = "evict" /\ Total > MaxBytes
    /\ d \in Items /\ item[d].age = "idle"
    /\ RemoveAll(d, {})
    /\ item' = [item EXCEPT ![d] = None]
    /\ UNCHANGED <<age, build, slots, client, ppc, todo>>

EndPrune ==
    /\ ppc = "evict"
    /\ Total > MaxBytes => \A d \in Items : item[d].age # "idle"
    /\ ppc' = "idle" /\ item' = [d \in Dir |-> None]
    /\ UNCHANGED <<files, build, slots, client, todo>>

-----------------------------------------------------------------------------
Later(d) ==
    /\ d \in made /\ age[d] # "old"
    /\ age' = [age EXCEPT ![d] = IF @ = "fresh" THEN "idle" ELSE "old"]
    /\ UNCHANGED <<final, temp, made, build, slots, client, pruner>>

(* The process is killed and started again: the files stay. *)
Crash ==
    /\ segBuilds' = [s \in Seg |-> None]
    /\ bpc' = [b \in Build |-> "gone"] /\ bkey' = [b \in Build |-> None]
    /\ ready' = [b \in Build |-> FALSE] /\ berr' = [b \in Build |-> FALSE]
    /\ held' = [b \in Build |-> "none"] /\ segBusy' = 0 /\ gateBusy' = 0 /\ others' = 0
    /\ cpc' = [c \in Client |-> "idle"] /\ cseg' = [c \in Client |-> None]
    /\ cbuild' = [c \in Client |-> None]
    /\ ppc' = "idle" /\ todo' = {} /\ item' = [d \in Dir |-> None]
    /\ UNCHANGED files

BuildStep(b) ==
    \/ OutOfRange(b) \/ AcquireSegment(b) \/ Acquire(b) \/ Mkdir(b)
    \/ StartEncode(b) \/ EncodeDone(b) \/ EncodeFail(b) \/ Panic(b)
    \/ Rename(b) \/ Finish(b) \/ Release(b) \/ Forget(b)

ClientStep(c) == StartOrJoin(c) \/ Answered(c) \/ Touch(c) \/ Open(c)

PrunerStep ==
    \/ \E d \in Dir : Measure(d) \/ Evict(d)
    \/ EndMeasure \/ EndPrune

Next ==
    \/ \E c \in Client : ClientStep(c) \/ GiveUp(c) \/ \E s \in Seg : Request(c, s)
    \/ \E b \in Build : BuildStep(b)
    \/ StartPrune \/ PrunerStep
    \/ OtherWork
    \/ \E d \in Dir : Later(d)
    \/ Crash

Spec == Init /\ [][Next]_vars

(* Goroutines run; every wait of a build has a timeout, every encode ends. *)
FairSpec ==
    /\ Spec
    /\ \A b \in Build : WF_vars(BuildStep(b))
    /\ \A c \in Client : WF_vars(ClientStep(c))

-----------------------------------------------------------------------------
TypeOK ==
    /\ final \in [Seg -> File] /\ temp \in [Seg -> File]
    /\ made \subseteq Dir /\ age \in [Dir -> Age]
    /\ segBuilds \in [Seg -> Build \cup {None}]
    /\ bpc \in [Build -> {"segment", "gate", "mkdir", "ffmpeg", "encode", "rename",
                          "finish", "release", "delete", "gone"}]
    /\ bkey \in [Build -> Seg \cup {None}]
    /\ ready \in [Build -> BOOLEAN] /\ berr \in [Build -> BOOLEAN]
    /\ held \in [Build -> {"none", "segment", "both"}]
    /\ segBusy \in 0..SegCap /\ gateBusy \in 0..GateCap /\ others \in 0..GateCap
    /\ cpc \in [Client -> {"idle", "join", "wait", "touch", "open"}]
    /\ cseg \in [Client -> Seg \cup {None}] /\ cbuild \in [Client -> Build \cup {None}]
    /\ ppc \in {"idle", "measure", "evict"} /\ todo \subseteq Dir
    /\ item \in [Dir -> {None} \cup [age : Age, segs : SUBSET Seg]]

(* A partial segment is never served: whatever concurrent requests, kills, *)
(* panics and sweeps do, a file under its final name is complete.          *)
WholeSegmentsOnly == \A s \in Seg : final[s] # "partial"

(* The caps hold and no slot leaks on any way out of a build: the slots    *)
(* taken are those of the builds that run and of the other work.           *)
SlotsAccounted ==
    /\ segBusy = Cardinality({b \in Build : held[b] # "none"})
    /\ gateBusy = others + Cardinality({b \in Build : held[b] = "both"})
    /\ \A b \in Build : bpc[b] \in {"segment", "delete", "gone"} => held[b] = "none"

(* A build in the map is one that will still answer or has just answered,  *)
(* and the only one of its segment: an old failure is never an answer.     *)
RegisteredBuildIsLive ==
    /\ \A s \in Seg : segBuilds[s] # None =>
          bpc[segBuilds[s]] # "gone" /\ bkey[segBuilds[s]] = s
    /\ \A b \in Build : bpc[b] # "gone" => segBuilds[bkey[b]] = b

(* Every request that waits for a segment is answered: slots, timeouts,    *)
(* panics and kills never leave it on a channel that nobody closes.        *)
CallersAnswered == \A c \in Client : cpc[c] = "wait" ~> cpc[c] # "wait"
=============================================================================
