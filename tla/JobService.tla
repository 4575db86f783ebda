----------------------------- MODULE JobService -----------------------------
(***************************************************************************)
(* The background job service (internal/jobs): the scan_jobs table, the    *)
(* bounded in-memory queue, the one worker that drains it, the callers     *)
(* that enqueue (HTTP handlers, scan executors, the watcher), the callers  *)
(* that cancel, and the restarts of the process.  Each SQL statement,      *)
(* channel operation and critical section is one step: a statement is      *)
(* atomic in SQLite, a call of the service is several of them.             *)
(***************************************************************************)
EXTENDS Integers, Sequences, FiniteSets

CONSTANTS
    JobType,    \* values of scan_jobs.job_type
    Sweep,      \* types whose executor polls ShouldYield between two items
    Cosmetic,   \* types HasQueuedInteractive does not count
    Lib,        \* libraries
    Request,    \* the enqueue calls the program makes: type, library, dedup
    Caller,     \* goroutines that enqueue
    Canceller,  \* goroutines that request a cancel
    None,       \* no job, no caller
    MaxJob,     \* bound: rows ever inserted
    QueueCap,   \* capacity of the queue channel (128 in the code)
    MaxItems,   \* bound: pending items of one sweep
    MaxBoots    \* bound: starts of the process

JobId == 1..MaxJob

ASSUME BoundsAssumption == /\ MaxJob \in Nat
                           /\ QueueCap \in Nat \ {0}
                           /\ MaxItems \in Nat
                           /\ MaxBoots \in Nat
ASSUME TypesAssumption ==
    /\ JobType # {} /\ Lib # {}
    /\ Sweep \subseteq JobType /\ Cosmetic \subseteq JobType
    /\ Request \subseteq [type : JobType, lib : Lib, dedup : BOOLEAN]
ASSUME NoneAssumption == None \notin JobId /\ None \notin Caller /\ None \notin Request

Terminal == {"done", "failed", "canceled"}
Pending == {"queued", "running"}
Status == Terminal \cup Pending \cup {"absent"}
Outcome == {"ok", "error", "canceled", "yielded", "panic"}

VARIABLES
    row,       \* the scan_jobs table; "absent": not inserted, or pruned
    nextId,    \* AUTOINCREMENT
    queue,     \* Service.queue, by job id
    cancels,   \* domain of Service.cancels
    ctxDone,   \* the context of the run in progress is cancelled
    wpc,       \* where the worker is in runJob
    wjob,      \* the job it runs
    out,       \* what the executor returned
    verdict,   \* the status it is about to write
    visited,   \* the sweep in progress has handled an item in this run (i > 0)
    left,      \* pending items of every sweep of every library
    rest,      \* items the sweep in progress listed and has not come to yet
    mutex,     \* holder of Service.enqueueMu
    epc,       \* where each caller is in enqueue
    ereq,      \* its arguments
    eid,       \* the row it inserted
    cpc,       \* where each canceller is in RequestCancel
    cid,       \* the job it cancels
    up,        \* the process runs
    boots,     \* how many times it started
    interrupted, \* Service.interruptedLibs
    fresh,     \* history: rows accepted by insertion, not started, no cancel since
    joined,    \* history: rows a deduplicated request relies on, likewise
    timely     \* history: rows cancelled before their run was settled

table == <<row, nextId>>
worker == <<ctxDone, wpc, wjob, out, verdict, visited, left, rest>>
callers == <<mutex, epc, ereq, eid>>
cancellers == <<cpc, cid>>
process == <<up, boots, interrupted>>
history == <<fresh, joined, timely>>
vars == <<table, queue, cancels, worker, callers, cancellers, process, history>>

Row == [type : JobType, lib : Lib, dedup : BOOLEAN,
        status : Status, cancel : BOOLEAN]

\* A row that is not in the table, and a caller that asks for nothing.
NoRow == CHOOSE r \in Row : r.status = "absent" /\ ~r.cancel
NoReq == None

SetStatus(j, s) == [row EXCEPT ![j].status = s]

QueuedRow(t, l, j) ==
    row[j].type = t /\ row[j].lib = l /\ row[j].status = "queued"

(* Mutated form: waiting cosmetic work counts as well. *)
HasQueuedAny == \E j \in JobId : row[j].status = "queued"

HasQueuedInteractive ==
    \E j \in JobId : row[j].status = "queued" /\ row[j].type \notin Cosmetic

(* Between two runs the worker holds nothing. *)
NoRun ==
    wjob' = None /\ ctxDone' = FALSE /\ out' = "ok" /\ verdict' = "done"
    /\ visited' = FALSE /\ rest' = 0

Init ==
    /\ row = [j \in JobId |-> NoRow]
    /\ nextId = 1
    /\ queue = <<>>
    /\ cancels = {}
    /\ ctxDone = FALSE
    /\ wpc = "idle"
    /\ wjob = None
    /\ out = "ok"
    /\ verdict = "done"
    /\ visited = FALSE
    /\ left = [w \in Sweep \X Lib |-> MaxItems]
    /\ rest = 0
    /\ mutex = None
    /\ epc = [c \in Caller |-> "idle"]
    /\ ereq = [c \in Caller |-> NoReq]
    /\ eid = [c \in Caller |-> None]
    /\ cpc = [k \in Canceller |-> "idle"]
    /\ cid = [k \in Canceller |-> None]
    /\ up = FALSE
    /\ boots = 0
    /\ interrupted = {}
    /\ fresh = {} /\ joined = {} /\ timely = {}

-----------------------------------------------------------------------------
(* New: reconcileStaleJobs, pruneOldJobs, then the worker.  Nothing else   *)
(* of the process runs yet, so it is one step; the age cutoff of the prune *)
(* is any set of finished rows.                                            *)
(* Mutated form: forgets the rows that were running. *)
BootQueuedOnly ==
    /\ ~up /\ boots < MaxBoots
    /\ row' = [j \in JobId |-> IF row[j].status = "queued"
                               THEN [row[j] EXCEPT !.status = "canceled"] ELSE row[j]]
    /\ interrupted' = {row[j].lib : j \in {i \in JobId : row[i].status \in Pending}}
    /\ up' = TRUE
    /\ boots' = boots + 1
    /\ UNCHANGED <<nextId, queue, cancels, worker, callers, cancellers, history>>

Boot ==
    /\ ~up /\ boots < MaxBoots
    /\ \E old \in SUBSET {j \in JobId : row[j].status \in Terminal} :
         row' = [j \in JobId |->
                   IF j \in old THEN NoRow
                   ELSE IF row[j].status \in Pending
                        THEN [row[j] EXCEPT !.status = "canceled"]
                        ELSE row[j]]
    /\ interrupted' = {row[j].lib : j \in {i \in JobId : row[i].status \in Pending}}
    /\ up' = TRUE
    /\ boots' = boots + 1
    /\ UNCHANGED <<nextId, queue, cancels, worker, callers, cancellers, history>>

(* Shutdown cancels the registered contexts; the worker goes on until the  *)
(* process exits.                                                          *)
Shutdown ==
    /\ up
    /\ ctxDone' = (ctxDone \/ cancels # {})
    /\ UNCHANGED <<table, queue, cancels, wpc, wjob, out, verdict, visited, left, rest,
                   callers, cancellers, process, history>>

(* The process exits or is killed: only the table survives.  The last      *)
(* start of the bound is not followed by a crash.                          *)
Crash ==
    /\ up /\ boots < MaxBoots
    /\ up' = FALSE
    /\ queue' = <<>> /\ cancels' = {}
    /\ wpc' = "idle" /\ NoRun
    /\ mutex' = None
    /\ epc' = [c \in Caller |-> "idle"]
    /\ ereq' = [c \in Caller |-> NoReq]
    /\ eid' = [c \in Caller |-> None]
    /\ cpc' = [k \in Canceller |-> "idle"]
    /\ cid' = [k \in Canceller |-> None]
    /\ fresh' = {} /\ joined' = {} /\ timely' = {}
    /\ UNCHANGED <<table, left, boots, interrupted>>

-----------------------------------------------------------------------------
(* enqueue: Enqueue inserts at once, EnqueueUnique first looks for a       *)
(* queued row of the same type and library under enqueueMu.                *)
Insert(c, r) ==
    /\ nextId \in JobId
    /\ row' = [row EXCEPT ![nextId] = [type |-> r.type, lib |-> r.lib, dedup |-> r.dedup,
                                       status |-> "queued", cancel |-> FALSE]]
    /\ nextId' = nextId + 1
    /\ eid' = [eid EXCEPT ![c] = nextId]
    /\ epc' = [epc EXCEPT ![c] = "push"]
    /\ fresh' = fresh \cup {nextId}
    /\ UNCHANGED <<queue, cancels, worker, cancellers, process, joined, timely>>

Enqueue(c, r) ==
    /\ up /\ epc[c] = "idle" /\ ~r.dedup
    /\ ereq' = [ereq EXCEPT ![c] = r]
    /\ Insert(c, r)
    /\ UNCHANGED mutex

(* The SELECT returns the oldest queued row: its id is the answer. *)
UniqueFound(c, r) ==
    /\ up /\ epc[c] = "idle" /\ r.dedup /\ mutex = None
    /\ \E j \in JobId :
         /\ QueuedRow(r.type, r.lib, j)
         /\ \A i \in JobId : QueuedRow(r.type, r.lib, i) => j <= i
         /\ joined' = joined \cup {j}
    /\ UNCHANGED <<table, queue, cancels, worker, callers, cancellers, process,
                   fresh, timely>>

(* Mutated form: the check and the insert are not under one lock. *)
UniqueMissedUnlocked(c, r) ==
    /\ up /\ epc[c] = "idle" /\ r.dedup
    /\ \A j \in JobId : ~QueuedRow(r.type, r.lib, j)
    /\ epc' = [epc EXCEPT ![c] = "insert"]
    /\ ereq' = [ereq EXCEPT ![c] = r]
    /\ UNCHANGED <<table, queue, cancels, worker, mutex, eid, cancellers, process, history>>

UniqueMissed(c, r) ==
    /\ up /\ nextId \in JobId /\ epc[c] = "idle" /\ r.dedup /\ mutex = None
    /\ \A j \in JobId : ~QueuedRow(r.type, r.lib, j)
    /\ mutex' = c
    /\ epc' = [epc EXCEPT ![c] = "insert"]
    /\ ereq' = [ereq EXCEPT ![c] = r]
    /\ UNCHANGED <<table, queue, cancels, worker, eid, cancellers, process, history>>

UniqueInsert(c) ==
    /\ epc[c] = "insert"
    /\ Insert(c, ereq[c])
    /\ UNCHANGED <<mutex, ereq>>

(* enqueue returns; the deferred unlock frees enqueueMu if it took it. *)
Released(c) ==
    /\ epc' = [epc EXCEPT ![c] = "idle"]
    /\ ereq' = [ereq EXCEPT ![c] = NoReq]
    /\ eid' = [eid EXCEPT ![c] = None]
    /\ mutex' = IF mutex = c THEN None ELSE mutex

(* Mutated form: sends whatever the queue holds. *)
PushUnbounded(c) ==
    /\ epc[c] = "push"
    /\ queue' = Append(queue, eid[c])
    /\ Released(c)
    /\ UNCHANGED <<table, cancels, worker, cancellers, process, history>>

(* The non-blocking send: accepted ... *)
Push(c) ==
    /\ epc[c] = "push"
    /\ Len(queue) < QueueCap
    /\ queue' = Append(queue, eid[c])
    /\ Released(c)
    /\ UNCHANGED <<table, cancels, worker, cancellers, process, history>>

(* Mutated form: the caller is told its job was accepted. *)
PushFullAccepted(c) ==
    /\ epc[c] = "push"
    /\ Len(queue) >= QueueCap
    /\ epc' = [epc EXCEPT ![c] = "refuse"]
    /\ UNCHANGED <<table, queue, cancels, worker, mutex, ereq, eid, cancellers, process,
                   history>>

(* ... or refused: the row is still 'queued' until the UPDATE that fails it. *)
PushFull(c) ==
    /\ epc[c] = "push"
    /\ Len(queue) >= QueueCap
    /\ epc' = [epc EXCEPT ![c] = "refuse"]
    /\ fresh' = fresh \ {eid[c]}
    /\ UNCHANGED <<table, queue, cancels, worker, mutex, ereq, eid, cancellers, process,
                   joined, timely>>

Refuse(c) ==
    /\ epc[c] = "refuse"
    /\ row' = SetStatus(eid[c], "failed")
    /\ Released(c)
    /\ UNCHANGED <<nextId, queue, cancels, worker, cancellers, process, history>>

-----------------------------------------------------------------------------
(* RequestCancel: the UPDATE, then the poke of the in-memory function.     *)
Settled(j) == wjob = j /\ wpc \in {"finish", "requeue", "repush", "unregister"}

RequestCancel(k, j) ==
    /\ up /\ cpc[k] = "idle"
    /\ row[j].status \in Pending
    /\ row' = [row EXCEPT ![j].cancel = TRUE]
    /\ cpc' = [cpc EXCEPT ![k] = "poke"]
    /\ cid' = [cid EXCEPT ![k] = j]
    /\ fresh' = fresh \ {j}
    /\ joined' = joined \ {j}
    /\ timely' = IF Settled(j) THEN timely ELSE timely \cup {j}
    /\ UNCHANGED <<nextId, queue, cancels, worker, callers, process>>

CancelIfRunning(k) ==
    /\ cpc[k] = "poke"
    /\ ctxDone' = (ctxDone \/ cid[k] \in cancels)
    /\ cpc' = [cpc EXCEPT ![k] = "idle"]
    /\ cid' = [cid EXCEPT ![k] = None]
    /\ UNCHANGED <<table, queue, cancels, wpc, wjob, out, verdict, visited, left, rest,
                   callers, process, history>>

-----------------------------------------------------------------------------
(* worker and runJob.                                                      *)
Pop ==
    /\ up /\ wpc = "idle" /\ queue # <<>>
    /\ wjob' = Head(queue)
    /\ queue' = Tail(queue)
    /\ wpc' = "popped"
    /\ UNCHANGED <<table, cancels, ctxDone, out, verdict, visited, left, rest,
                   callers, cancellers, process, history>>

CheckPopped ==
    /\ wpc = "popped"
    /\ wpc' = IF row[wjob].cancel THEN "finish" ELSE "mark"
    /\ verdict' = "canceled"
    /\ UNCHANGED <<table, queue, cancels, ctxDone, wjob, out, visited, left, rest,
                   callers, cancellers, process, history>>

MarkRunning ==
    /\ wpc = "mark"
    /\ row' = SetStatus(wjob, "running")
    /\ wpc' = "register"
    /\ UNCHANGED <<nextId, queue, cancels, ctxDone, wjob, out, verdict, visited, left, rest,
                   callers, cancellers, process, history>>

RegisterCancel ==
    /\ wpc = "register"
    /\ cancels' = cancels \cup {wjob}
    /\ ctxDone' = FALSE
    /\ wpc' = "recheck"
    /\ UNCHANGED <<table, queue, wjob, out, verdict, visited, left, rest,
                   callers, cancellers, process, history>>

WorkKey == <<row[wjob].type, row[wjob].lib>>
Listed == IF row[wjob].type \in Sweep THEN left[WorkKey] ELSE 0

(* The executor starts; a sweep lists its pending items, once. *)
StartExecutor ==
    /\ wpc' = "exec"
    /\ visited' = FALSE
    /\ rest' = Listed
    /\ fresh' = fresh \ {wjob}
    /\ joined' = joined \ {wjob}
    /\ UNCHANGED <<table, queue, cancels, wjob, out, verdict, left,
                   callers, cancellers, process, timely>>

(* Mutated form: no second look at the flag. *)
RecheckNothing ==
    /\ wpc = "recheck"
    /\ StartExecutor
    /\ UNCHANGED ctxDone

(* The flag is read once more after registering, then the executor starts. *)
RecheckCancel ==
    /\ wpc = "recheck"
    /\ ctxDone' = (ctxDone \/ row[wjob].cancel)
    /\ StartExecutor

Sweeping == wpc = "exec" /\ row[wjob].type \in Sweep

(* The poll, skipped for the first item of a run, sees nothing to yield to. *)
GoesOn == Sweeping /\ ~ctxDone /\ (visited => ~HasQueuedInteractive)

(* One iteration of a sweep.  The item is done with, or (its file is gone, *)
(* ffmpeg's gate is busy, its measure failed) stays pending for another    *)
(* run: this run has passed it either way.                                 *)
SweepItem ==
    /\ GoesOn /\ rest > 0
    /\ rest' = rest - 1
    /\ visited' = TRUE
    /\ \E done \in BOOLEAN :
         left' = IF done THEN [left EXCEPT ![WorkKey] = IF @ > 0 THEN @ - 1 ELSE 0] ELSE left
    /\ UNCHANGED <<table, queue, cancels, ctxDone, wpc, wjob, out, verdict,
                   callers, cancellers, process, history>>

Return(o) ==
    /\ wpc' = "returned"
    /\ out' = o
    /\ UNCHANGED <<table, queue, cancels, ctxDone, wjob, verdict, visited, rest,
                   callers, cancellers, process, history>>

SweepYield ==
    /\ Sweeping /\ ~ctxDone
    /\ visited /\ rest > 0 /\ HasQueuedInteractive
    /\ Return("yielded")
    /\ UNCHANGED left

(* The list is through, or the sprite cache is at its size cap. *)
SweepEnd ==
    /\ Sweeping
    /\ rest = 0 \/ GoesOn
    /\ Return("ok")
    /\ UNCHANGED left

(* Any other executor succeeds, and may leave the sweeps of its library    *)
(* new items to handle.                                                    *)
ExecOk ==
    /\ wpc = "exec" /\ row[wjob].type \notin Sweep
    /\ Return("ok")
    /\ \E more \in BOOLEAN :
         left' = [w \in Sweep \X Lib |->
                    IF more /\ w[2] = row[wjob].lib THEN MaxItems ELSE left[w]]

(* Every executor may fail, panic, or return the context's error. *)
ExecFail ==
    /\ wpc = "exec"
    /\ \E o \in {"error", "panic", "canceled"} :
         /\ o = "canceled" => ctxDone
         /\ Return(o)
    /\ UNCHANGED left

(* Mutated form: trusts the executor's nil. *)
SettleTrusting ==
    /\ wpc = "returned"
    /\ LET cancelled == \/ out = "canceled"
                        \/ out \in {"error", "yielded"} /\ row[wjob].cancel
       IN  /\ wpc' = IF out = "yielded" /\ ~cancelled THEN "requeue" ELSE "finish"
           /\ verdict' = CASE cancelled -> "canceled"
                           [] ~cancelled /\ out \in {"error", "panic"} -> "failed"
                           [] OTHER -> "done"
    /\ UNCHANGED <<table, queue, cancels, ctxDone, wjob, out, visited, left, rest,
                   callers, cancellers, process, history>>

(* What runJob makes of the return value: it reads cancel_requested, and   *)
(* writes the status in a later step.                                      *)
Settle ==
    /\ wpc = "returned"
    /\ LET cancelled == out # "panic" /\ (out = "canceled" \/ row[wjob].cancel)
       IN  /\ wpc' = IF out = "yielded" /\ ~cancelled THEN "requeue" ELSE "finish"
           /\ verdict' = CASE cancelled -> "canceled"
                           [] ~cancelled /\ out \in {"error", "panic"} -> "failed"
                           [] OTHER -> "done"
    /\ UNCHANGED <<table, queue, cancels, ctxDone, wjob, out, visited, left, rest,
                   callers, cancellers, process, history>>

FinishJob ==
    /\ wpc = "finish"
    /\ row' = SetStatus(wjob, verdict)
    /\ wpc' = "unregister"
    /\ UNCHANGED <<nextId, queue, cancels, ctxDone, wjob, out, verdict, visited, left, rest,
                   callers, cancellers, process, history>>

Requeue ==
    /\ wpc = "requeue"
    /\ row' = SetStatus(wjob, "queued")
    /\ wpc' = "repush"
    /\ UNCHANGED <<nextId, queue, cancels, ctxDone, wjob, out, verdict, visited, left, rest,
                   callers, cancellers, process, history>>

(* Mutated form: a full queue is only logged. *)
RequeuePushOrDrop ==
    /\ wpc = "repush"
    /\ wpc' = "unregister"
    /\ queue' = IF Len(queue) < QueueCap THEN Append(queue, wjob) ELSE queue
    /\ UNCHANGED <<table, cancels, ctxDone, wjob, out, verdict, visited, left, rest,
                   callers, cancellers, process, history>>

(* A full queue turns the yield into a finish. *)
RequeuePush ==
    /\ wpc = "repush"
    /\ IF Len(queue) < QueueCap
       THEN queue' = Append(queue, wjob) /\ wpc' = "unregister"
       ELSE wpc' = "finish" /\ UNCHANGED queue
    /\ UNCHANGED <<table, cancels, ctxDone, wjob, out, verdict, visited, left, rest,
                   callers, cancellers, process, history>>

UnregisterCancel ==
    /\ wpc = "unregister"
    /\ cancels' = cancels \ {wjob}
    /\ wpc' = "idle" /\ NoRun
    /\ UNCHANGED <<table, queue, left, callers, cancellers, process, history>>

-----------------------------------------------------------------------------
WorkerStep ==
    \/ Pop \/ CheckPopped \/ MarkRunning \/ RegisterCancel \/ RecheckCancel
    \/ SweepItem \/ SweepYield \/ SweepEnd \/ ExecOk \/ ExecFail
    \/ Settle \/ FinishJob \/ Requeue \/ RequeuePush \/ UnregisterCancel

EnqueueStart(c) ==
    \E r \in Request : Enqueue(c, r) \/ UniqueFound(c, r) \/ UniqueMissed(c, r)

EnqueueStep(c) == UniqueInsert(c) \/ Push(c) \/ PushFull(c) \/ Refuse(c)

Next ==
    \/ Boot \/ Shutdown \/ Crash
    \/ WorkerStep
    \/ \E c \in Caller : EnqueueStart(c) \/ EnqueueStep(c)
    \/ \E k \in Canceller : CancelIfRunning(k) \/ \E j \in JobId : RequestCancel(k, j)

Spec == Init /\ [][Next]_vars

(* The worker is never blocked for good: executors return, and the process *)
(* that crashed is started again.  Requests and cancels come or do not.    *)
FairSpec ==
    /\ Spec
    /\ WF_vars(WorkerStep)
    /\ WF_vars(Boot)
    /\ \A c \in Caller : WF_vars(EnqueueStep(c))
    /\ \A k \in Canceller : WF_vars(CancelIfRunning(k))

-----------------------------------------------------------------------------
TableOK ==
    /\ row \in [JobId -> Row]
    /\ nextId \in 1..(MaxJob + 1)

WorkerOK ==
    /\ queue \in Seq(JobId) /\ Len(queue) <= QueueCap
    /\ cancels \subseteq JobId
    /\ ctxDone \in BOOLEAN
    /\ wpc \in {"idle", "popped", "mark", "register", "recheck", "exec", "returned",
                "finish", "requeue", "repush", "unregister"}
    /\ wjob \in JobId \cup {None}
    /\ out \in Outcome /\ verdict \in Terminal /\ visited \in BOOLEAN
    /\ left \in [Sweep \X Lib -> 0..MaxItems] /\ rest \in 0..MaxItems

CallersOK ==
    /\ mutex \in Caller \cup {None}
    /\ epc \in [Caller -> {"idle", "insert", "push", "refuse"}]
    /\ ereq \in [Caller -> Request \cup {NoReq}]
    /\ eid \in [Caller -> JobId \cup {None}]
    /\ cpc \in [Canceller -> {"idle", "poke"}]
    /\ cid \in [Canceller -> JobId \cup {None}]

ProcessOK ==
    /\ up \in BOOLEAN /\ boots \in 0..MaxBoots /\ interrupted \subseteq Lib
    /\ fresh \subseteq JobId /\ joined \subseteq JobId /\ timely \subseteq JobId

TypeOK == TableOK /\ WorkerOK /\ CallersOK /\ ProcessOK

InQueue(j) == \E i \in 1..Len(queue) : queue[i] = j

(* While the process runs, no row hangs: a 'queued' row is in the queue or *)
(* in the hands of the caller that will push or fail it, or of the worker  *)
(* that will run, requeue or finish it; a 'running' row is the worker's.   *)
NoStrandedJob ==
    up => \A j \in JobId :
            /\ row[j].status = "queued" =>
                 \/ InQueue(j)
                 \/ \E c \in Caller : epc[c] \in {"push", "refuse"} /\ eid[c] = j
                 \/ wjob = j /\ wpc \in {"popped", "mark", "finish", "repush"}
            /\ row[j].status = "running" =>
                 wjob = j /\ wpc \in {"register", "recheck", "exec", "returned",
                                      "finish", "requeue"}

(* An executor never runs on with a cancel nobody will tell it about: once *)
(* the flag is in the table, its context is cancelled or the canceller is  *)
(* still on its way to cancel it.  runJob's re-check after registering.    *)
CancelReachesExecutor ==
    wpc = "exec" /\ row[wjob].cancel =>
        ctxDone \/ \E k \in Canceller : cpc[k] = "poke" /\ cid[k] = wjob

(* A cancel accepted before runJob read the flag for the last time never   *)
(* ends as 'done', across yields and requeues as well.                     *)
TimelyCancelSticks == \A j \in timely : row[j].status # "done"

(* A row that was inserted and accepted is not finished before its         *)
(* executor has started, unless a cancel came first.                       *)
AcceptedJobRuns == \A j \in fresh : row[j].status \notin Terminal

(* EnqueueUnique answers "a duplicate is already pending - reuse it": the  *)
(* row a request joined is not finished before it has run, unless a cancel *)
(* came after the request.                                                 *)
JoinedRequestRuns == \A j \in joined : row[j].status \notin Terminal

(* However scans are re-triggered and however often a sweep yields, the    *)
(* deduplicated rows of one type and library never pile up past two.       *)
PileUpBounded ==
    \A t \in JobType, l \in Lib :
        Cardinality({j \in JobId : /\ row[j].dedup /\ row[j].type = t /\ row[j].lib = l
                                   /\ row[j].status \in Pending}) <= 2

(* The service implements the life cycle of its rows. *)
Lifecycle == INSTANCE JobLifecycle
                 WITH status <- [j \in JobId |-> row[j].status], used <- 1..(nextId - 1)
RowsFollowLifecycle == Lifecycle!Spec

(* Two sweeps whose types HasQueuedInteractive takes for interactive work. *)
TwoSweepsAskingEachOther ==
    \E i, j \in JobId :
       i # j /\ \A k \in {i, j} : row[k].type \in Sweep \ Cosmetic /\ row[k].status \in Pending

(* Every job ends, however often it yields, whatever it yields to and      *)
(* whichever items fail in every run: a sweep gives way to interactive     *)
(* work only, which "excluded so two of them never ping-pong yielding to   *)
(* each other" is for.  What the code does not keep from it is two sweeps  *)
(* whose types that list forgets, for as long as both have items that stay *)
(* pending.                                                                *)
EveryJobEnds ==
    \A j \in JobId :
       \/ []<>(row[j].status \notin Pending)
       \/ <>[]TwoSweepsAskingEachOther

-----------------------------------------------------------------------------
(* The inductive strengthening: who holds a row that is not finished.      *)
HandedOver == {"push", "refuse"}
Registered == {"recheck", "exec", "returned", "requeue", "repush"}

(* A row the table does not hold yet is untouched. *)
UnusedRows == \A j \in JobId : j >= nextId => row[j] = NoRow

(* The worker's position tells the status of its row and whether a cancel  *)
(* function is registered for it.                                          *)
WorkerOwns ==
    /\ wpc = "idle" <=> wjob = None
    /\ wpc \in {"popped", "mark", "repush"} => row[wjob].status = "queued"
    /\ wpc \in {"register", "recheck", "exec", "returned", "requeue"} =>
         row[wjob].status = "running"
    /\ wpc = "finish" => row[wjob].status \in Pending
    /\ wpc = "unregister" => row[wjob].status # "absent"
    /\ wpc \in Registered => wjob \in cancels

(* Every caller between INSERT and the end of its push holds its own row. *)
CallerOwns ==
    \A c \in Caller :
       /\ epc[c] \in HandedOver =>
            eid[c] \in JobId /\ row[eid[c]].status = "queued" /\ wjob # eid[c]
       /\ epc[c] \notin HandedOver => eid[c] = None
       /\ epc[c] = "insert" => ereq[c] \in Request
       /\ \A d \in Caller \ {c} : eid[c] # None => eid[d] # eid[c]

(* The queue holds each waiting row once, and no row anybody else holds. *)
QueueOwns ==
    \A i \in 1..Len(queue) :
       /\ row[queue[i]].status = "queued"
       /\ queue[i] = wjob => wpc = "unregister"
       /\ \A c \in Caller : eid[c] # queue[i]
       /\ \A k \in 1..Len(queue) : queue[k] = queue[i] => k = i

(* A process that is down holds nothing. *)
Down ==
    ~up => /\ queue = <<>> /\ wpc = "idle"
           /\ \A c \in Caller : epc[c] = "idle"
           /\ \A k \in Canceller : cpc[k] = "idle"
           /\ timely = {} /\ fresh = {}

(* What the history variables record. *)
FreshRows ==
    /\ \A j \in fresh : row[j].status \in Pending /\ ~row[j].cancel
    /\ wjob \in fresh => wpc \in {"popped", "mark", "register", "recheck"}
    /\ \A c \in Caller : epc[c] = "refuse" => eid[c] \notin fresh
TimelyRows ==
    /\ \A j \in timely : row[j].cancel /\ row[j].status # "done"
    /\ wjob \in timely => /\ wpc \notin {"requeue", "repush"}
                          /\ wpc = "finish" => verdict # "done"

IInv ==
    /\ TypeOK /\ UnusedRows /\ WorkerOwns /\ CallerOwns /\ QueueOwns /\ Down
    /\ NoStrandedJob /\ CancelReachesExecutor /\ FreshRows /\ TimelyRows
=============================================================================
