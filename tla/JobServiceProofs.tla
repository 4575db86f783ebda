-------------------------- MODULE JobServiceProofs --------------------------
(***************************************************************************)
(* Proofs about the job service, for all values of its constants: IInv is  *)
(* inductive, the safety properties follow from it, and every step is one  *)
(* of the abstract life cycle.  One lemma per action; under it one step    *)
(* per conjunct, or per group of conjuncts the same facts preserve.        *)
(***************************************************************************)
EXTENDS JobService, FiniteSetTheorems, TLAPS

(* The value of a row that is not in the table. *)
LEMMA NoRowFact == NoRow \in Row /\ NoRow.status = "absent" /\ ~NoRow.cancel
<1>1. PICK t \in JobType, l \in Lib : TRUE
  BY TypesAssumption
<1>2. [type |-> t, lib |-> l, dedup |-> FALSE, status |-> "absent", cancel |-> FALSE] \in Row
  BY <1>1 DEF Row, Status
<1>. QED
  BY <1>2 DEF NoRow

(* A row stays a row when its status is written. *)
LEMMA StatusRow ==
  ASSUME NEW r \in Row, NEW s \in Status PROVE [r EXCEPT !.status = s] \in Row
  BY DEF Row

(* Likewise for the cancel flag. *)
LEMMA CancelRow == ASSUME NEW r \in Row PROVE [r EXCEPT !.cancel = TRUE] \in Row
  BY DEF Row

(* An UPDATE of the status keeps the table well formed. *)
LEMMA SetStatusTable ==
  ASSUME TableOK, NEW j \in JobId, NEW s \in Status
  PROVE  SetStatus(j, s) \in [JobId -> Row]
  BY StatusRow DEF TableOK, SetStatus

(* A send puts the job last and leaves the others where they are. *)
LEMMA AppendQueue ==
  ASSUME NEW q \in Seq(JobId), NEW j \in JobId
  PROVE  /\ Append(q, j) \in Seq(JobId) /\ Len(Append(q, j)) = Len(q) + 1
         /\ Append(q, j)[Len(q) + 1] = j
         /\ \A i \in 1..Len(q) : Append(q, j)[i] = q[i]
  OBVIOUS

(* The row the worker holds while it is at work on it. *)
LEMMA WorkerHasJob == ASSUME IInv, wpc # "idle" PROVE wjob \in JobId /\ up
  BY NoneAssumption DEF IInv, TypeOK, WorkerOK, ProcessOK, WorkerOwns, Down

(* The id of an insert is new: no caller, worker or history holds it. *)
LEMMA InsertIsNew ==
  ASSUME IInv, nextId \in JobId
  PROVE  /\ row[nextId].status = "absent"
         /\ wjob # nextId
         /\ nextId \notin fresh
         /\ \A d \in Caller : eid[d] # nextId
<1>1. row[nextId].status = "absent"
  BY NoRowFact DEF IInv, TypeOK, TableOK, UnusedRows, JobId
<1>2. wjob # nextId
  BY <1>1, NoneAssumption DEF IInv, TypeOK, WorkerOK, WorkerOwns, Pending
<1>3. nextId \notin fresh
  BY <1>1 DEF IInv, FreshRows, Pending
<1>4. \A d \in Caller : eid[d] # nextId
  BY <1>1, NoneAssumption DEF IInv, CallerOwns
<1>. QED
  BY <1>1, <1>2, <1>3, <1>4

(* After an insert every caller still holds its own row, the new one included. *)
LEMMA InsertCallerOwns ==
  ASSUME IInv, NEW c \in Caller, NEW r \in Request, Insert(c, r),
         epc[c] \in {"idle", "insert"},
         \A d \in Caller \ {c} : ereq'[d] = ereq[d]
  PROVE  CallerOwns'
<1>1. /\ nextId \in JobId /\ wjob' = wjob
      /\ row' = [row EXCEPT ![nextId] = [type |-> r.type, lib |-> r.lib, dedup |-> r.dedup,
                                       status |-> "queued", cancel |-> FALSE]]
      /\ eid' = [eid EXCEPT ![c] = nextId] /\ epc' = [epc EXCEPT ![c] = "push"]
  BY DEF Insert, worker
<1>2. eid'[c] = nextId /\ epc'[c] = "push" /\ row'[nextId].status = "queued"
  BY <1>1 DEF IInv, TypeOK, TableOK, CallersOK
<1>3. ASSUME NEW d \in Caller, d # c
      PROVE  eid'[d] = eid[d] /\ epc'[d] = epc[d] /\ ereq'[d] = ereq[d]
  BY <1>1, <1>3 DEF IInv, TypeOK, CallersOK
<1>4. \A j \in JobId : j # nextId => row'[j] = row[j]
  BY <1>1 DEF IInv, TypeOK, TableOK
<1>. QED
  BY <1>1, <1>2, <1>3, <1>4, InsertIsNew DEF IInv, CallerOwns, HandedOver

(* The inserted row joins the fresh ones, and it is pending and uncancelled. *)
LEMMA InsertFreshRows ==
  ASSUME IInv, NEW c \in Caller, NEW r \in Request, Insert(c, r)
  PROVE  FreshRows'
<1>1. /\ nextId \in JobId /\ wjob' = wjob /\ wpc' = wpc /\ fresh' = fresh \cup {nextId}
      /\ row' = [row EXCEPT ![nextId] = [type |-> r.type, lib |-> r.lib, dedup |-> r.dedup,
                                       status |-> "queued", cancel |-> FALSE]]
      /\ eid' = [eid EXCEPT ![c] = nextId] /\ epc' = [epc EXCEPT ![c] = "push"]
  BY DEF Insert, worker
<1>2. row'[nextId].status = "queued" /\ ~row'[nextId].cancel
  BY <1>1 DEF IInv, TypeOK, TableOK
<1>3. \A j \in JobId : j # nextId => row'[j] = row[j]
  BY <1>1 DEF IInv, TypeOK, TableOK
<1>4. \A j \in fresh' : row'[j].status \in Pending /\ ~row'[j].cancel
  BY <1>1, <1>2, <1>3 DEF IInv, TypeOK, ProcessOK, FreshRows, Pending
<1>5. wjob' \in fresh' => wpc' \in {"popped", "mark", "register", "recheck"}
  BY <1>1, InsertIsNew DEF IInv, FreshRows
<1>6. ASSUME NEW d \in Caller, epc'[d] = "refuse" PROVE eid'[d] \notin fresh'
  <2>1. epc \in [Caller -> {"idle", "insert", "push", "refuse"}] /\ eid \in [Caller -> JobId \cup {None}]
    BY DEF IInv, TypeOK, CallersOK
  <2>2. d # c /\ epc[d] = "refuse" /\ eid'[d] = eid[d]
    BY <1>1, <1>6, <2>1
  <2>. QED
    BY <1>1, <2>2, InsertIsNew DEF IInv, FreshRows
<1>. QED
  BY <1>4, <1>5, <1>6 DEF FreshRows

-----------------------------------------------------------------------------
(* The initial states.                                                     *)
LEMMA InitIInv == Init => IInv
<1>. SUFFICES ASSUME Init PROVE IInv
  OBVIOUS
<1>1. TableOK /\ UnusedRows
  BY BoundsAssumption, NoRowFact DEF Init, TableOK, UnusedRows, JobId
<1>2. WorkerOK
  <2>1. queue \in Seq(JobId) /\ Len(queue) = 0
    <3>1. queue = <<>>
      BY DEF Init
    <3>. QED
      BY <3>1
  <2>2. /\ cancels = {} /\ ctxDone = FALSE /\ wpc = "idle" /\ wjob = None
        /\ out = "ok" /\ verdict = "done" /\ visited = FALSE /\ rest = 0
    BY DEF Init
  <2>3. left \in [Sweep \X Lib -> 0..MaxItems]
    BY BoundsAssumption DEF Init
  <2>4. Len(queue) <= QueueCap
    BY <2>1, BoundsAssumption
  <2>5. rest \in 0..MaxItems
    BY <2>2, BoundsAssumption
  <2>. QED
    BY <2>1, <2>2, <2>3, <2>4, <2>5 DEF WorkerOK, Outcome, Terminal
<1>3. CallersOK
  BY DEF Init, CallersOK, NoReq
<1>4. ProcessOK
  <2>1. /\ up = FALSE /\ boots = 0 /\ interrupted = {}
        /\ fresh = {} /\ joined = {} /\ timely = {}
    BY DEF Init
  <2>2. boots \in 0..MaxBoots
    BY <2>1, BoundsAssumption
  <2>. QED
    BY <2>1, <2>2 DEF ProcessOK
<1>5. WorkerOwns /\ CallerOwns /\ Down
  BY DEF Init, WorkerOwns, CallerOwns, Down, Registered, HandedOver
<1>6. QueueOwns
  BY DEF Init, QueueOwns
<1>7. NoStrandedJob /\ CancelReachesExecutor /\ FreshRows /\ TimelyRows
  BY NoneAssumption DEF Init, NoStrandedJob, CancelReachesExecutor, FreshRows, TimelyRows
<1>. QED
  BY <1>1, <1>2, <1>3, <1>4, <1>5, <1>6, <1>7 DEF IInv, TypeOK

(* A stuttering step. *)
LEMMA StutterKeeps == ASSUME IInv, UNCHANGED vars PROVE IInv'
<1>1. UNCHANGED <<row, nextId>> /\ UNCHANGED queue /\ UNCHANGED cancels
      /\ UNCHANGED <<ctxDone, wpc, wjob, out, verdict, visited, left, rest>>
      /\ UNCHANGED <<mutex, epc, ereq, eid>> /\ UNCHANGED <<cpc, cid>>
      /\ UNCHANGED <<up, boots, interrupted>> /\ UNCHANGED <<fresh, joined, timely>>
  BY DEF vars, table, worker, callers, cancellers, process, history
<1>2. TypeOK'
  BY <1>1 DEF IInv, TypeOK, TableOK, WorkerOK, CallersOK, ProcessOK
<1>3. (UnusedRows /\ WorkerOwns /\ CallerOwns)'
  BY <1>1 DEF IInv, UnusedRows, WorkerOwns, CallerOwns
<1>4. (QueueOwns /\ Down /\ NoStrandedJob)'
  BY <1>1 DEF IInv, QueueOwns, Down, NoStrandedJob, InQueue
<1>5. (CancelReachesExecutor /\ FreshRows /\ TimelyRows)'
  BY <1>1 DEF IInv, CancelReachesExecutor, FreshRows, TimelyRows
<1>. QED
  BY <1>2, <1>3, <1>4, <1>5 DEF IInv

-----------------------------------------------------------------------------
(* The steps of the process, of the worker, of the callers and cancellers.   *)

(* New: every pending row becomes canceled, and nobody holds one. *)
LEMMA BootKeeps == ASSUME IInv, Boot PROVE IInv'
<1>1. (TableOK /\ WorkerOK /\ CallersOK /\ Down)'
  BY TypesAssumption, NoneAssumption, NoRowFact, SMTT(20) DEF IInv, TypeOK,
         TableOK, Boot, worker, callers, cancellers, Row, Status, Terminal,
         WorkerOK, CallersOK, NoReq, Down
<1>2. ProcessOK'
  BY BoundsAssumption DEF IInv, TypeOK, ProcessOK, Boot, history, Row, TableOK
<1>3. UnusedRows'
  BY NoRowFact DEF IInv, UnusedRows, Boot, Pending
<1>4. WorkerOwns'
  BY DEF IInv, WorkerOwns, Boot, worker, Down
<1>5. CallerOwns'
  BY DEF IInv, CallerOwns, Boot, callers, HandedOver, Down
<1>6. QueueOwns'
  BY DEF IInv, QueueOwns, Boot, Down
<1>7. NoStrandedJob'
  BY NoRowFact DEF IInv, TypeOK, NoStrandedJob, Boot, TableOK, Row, Status,
         Terminal
<1>8. CancelReachesExecutor'
  BY NoRowFact DEF IInv, TypeOK, CancelReachesExecutor, Boot, worker,
         cancellers, WorkerOK, WorkerOwns
<1>9. FreshRows'
  BY DEF IInv, FreshRows, Boot, history, Down
<1>10. TimelyRows'
  BY DEF IInv, TimelyRows, Boot, history, Down
<1>. QED
  BY <1>1, <1>2, <1>3, <1>4, <1>5, <1>6, <1>7, <1>8, <1>9, <1>10 DEF IInv, TypeOK

(* Shutdown: only the context of the run in progress changes. *)
LEMMA ShutdownKeeps == ASSUME IInv, Shutdown PROVE IInv'
<1>1. (TableOK /\ WorkerOK /\ CallersOK /\ ProcessOK)'
  BY DEF IInv, TypeOK, TableOK, Shutdown, table, callers, cancellers, process,
         history, WorkerOK, CallersOK, ProcessOK
<1>2. (UnusedRows /\ WorkerOwns /\ CallerOwns /\ QueueOwns /\ Down)'
  BY DEF IInv, Shutdown, table, callers, process, UnusedRows, WorkerOwns,
         CallerOwns, QueueOwns, Down
<1>3. NoStrandedJob'
  BY DEF IInv, Shutdown, table, callers, NoStrandedJob, InQueue
<1>4. CancelReachesExecutor'
  BY DEF IInv, TypeOK, CancelReachesExecutor, Shutdown, table, cancellers,
         WorkerOK
<1>5. (FreshRows /\ TimelyRows)'
  BY DEF IInv, Shutdown, table, callers, history, FreshRows, TimelyRows
<1>. QED
  BY <1>1, <1>2, <1>3, <1>4, <1>5 DEF IInv, TypeOK

(* The process ends: whoever held a row is gone, the table stays. *)
LEMMA CrashKeeps == ASSUME IInv, Crash PROVE IInv'
<1>1. (TableOK /\ CallersOK)'
  BY DEF IInv, TypeOK, TableOK, Crash, table, CallersOK
<1>2. WorkerOK'
  <2>1. /\ queue' = <<>> /\ cancels' = {} /\ wpc' = "idle" /\ wjob' = None
        /\ ctxDone' = FALSE /\ out' = "ok" /\ verdict' = "done" /\ visited' = FALSE
        /\ rest' = 0
        /\ left' = left
    BY DEF Crash, NoRun
  <2>2. queue' \in Seq(JobId) /\ Len(queue') <= QueueCap
    BY <2>1, BoundsAssumption
  <2>3. rest' \in 0..MaxItems
    BY <2>1, BoundsAssumption
  <2>. QED
    BY <2>1, <2>2, <2>3 DEF IInv, TypeOK, WorkerOK, Outcome, Terminal
<1>3. ProcessOK'
  <2>1. /\ up' = FALSE /\ boots' = boots /\ interrupted' = interrupted
        /\ fresh' = {} /\ joined' = {} /\ timely' = {}
    BY DEF Crash
  <2>. QED
    BY <2>1 DEF IInv, TypeOK, ProcessOK
<1>4. (UnusedRows /\ WorkerOwns /\ CallerOwns /\ QueueOwns /\ Down)'
  BY DEF IInv, Crash, NoRun, table, UnusedRows, WorkerOwns, Registered,
         CallerOwns, HandedOver, QueueOwns, Down
<1>5. (NoStrandedJob /\ CancelReachesExecutor)'
  BY DEF IInv, Crash, NoStrandedJob, CancelReachesExecutor
<1>6. (FreshRows /\ TimelyRows)'
  BY DEF IInv, Crash, FreshRows, TimelyRows
<1>. QED
  BY <1>1, <1>2, <1>3, <1>4, <1>5, <1>6 DEF IInv, TypeOK

(* Pop: a row passes from the queue to the worker. *)
LEMMA PopKeeps == ASSUME IInv, Pop PROVE IInv'
<1>1. TableOK'
  BY DEF IInv, TypeOK, TableOK, Pop, table
<1>2. WorkerOK'
  BY BoundsAssumption DEF IInv, TypeOK, WorkerOK, Pop
<1>3. CallersOK'
  BY DEF IInv, TypeOK, CallersOK, Pop, callers, cancellers
<1>4. ProcessOK'
  BY DEF IInv, TypeOK, ProcessOK, Pop, process, history
<1>5. UnusedRows'
  BY DEF IInv, UnusedRows, Pop, table
<1>6. WorkerOwns'
  BY DEF IInv, WorkerOwns, Pop, table, Registered, QueueOwns
<1>7. CallerOwns'
  BY TypesAssumption, NoRowFact DEF IInv, CallerOwns, Pop, table, callers,
         QueueOwns, Down
<1>8. QueueOwns'
  BY DEF IInv, QueueOwns, Pop, table, callers
<1>9. Down'
  BY DEF Down, Pop, process
<1>10. NoStrandedJob'
  BY NoRowFact DEF IInv, NoStrandedJob, Pop, table, callers, cancellers,
         process, history, InQueue
<1>11. CancelReachesExecutor'
  BY DEF CancelReachesExecutor, Pop
<1>12. FreshRows'
  BY DEF IInv, FreshRows, Pop, table, callers, history
<1>13. TimelyRows'
  BY DEF IInv, TimelyRows, Pop, table, history
<1>. QED
  BY <1>1, <1>2, <1>3, <1>4, <1>5, <1>6, <1>7, <1>8, <1>9, <1>10, <1>11, <1>12, <1>13 DEF IInv, TypeOK

(* CheckPopped: the worker decides by the cancel flag. *)
LEMMA CheckPoppedKeeps == ASSUME IInv, CheckPopped PROVE IInv'
<1>1. (TableOK /\ WorkerOK /\ CallersOK /\ ProcessOK)'
  BY DEF IInv, TypeOK, TableOK, CheckPopped, table, callers, cancellers,
         process, history, Terminal, WorkerOK, CallersOK, ProcessOK
<1>2. (UnusedRows /\ WorkerOwns /\ CallerOwns /\ QueueOwns /\ Down)'
  BY DEF IInv, TypeOK, UnusedRows, CheckPopped, table, callers, process,
         TableOK, WorkerOK, WorkerOwns, CallerOwns, QueueOwns, Down,
         FreshRows, TimelyRows, Row, Status, Terminal, Registered
<1>3. (NoStrandedJob /\ CancelReachesExecutor)'
  BY DEF IInv, CheckPopped, table, callers, process, NoStrandedJob, InQueue,
         CancelReachesExecutor
<1>4. (FreshRows /\ TimelyRows)'
  BY DEF IInv, CheckPopped, table, callers, history, FreshRows, TimelyRows
<1>. QED
  BY <1>1, <1>2, <1>3, <1>4 DEF IInv, TypeOK

(* MarkRunning: the worker's row becomes running. *)
LEMMA MarkRunningKeeps == ASSUME IInv, MarkRunning PROVE IInv'
<1>1. TableOK'
  <2>1. wjob \in JobId
    BY WorkerHasJob DEF MarkRunning
  <2>. QED
    BY <2>1, SetStatusTable DEF IInv, TypeOK, TableOK, MarkRunning, Status, Pending
<1>2. (WorkerOK /\ CallersOK /\ ProcessOK)'
  BY DEF IInv, TypeOK, WorkerOK, MarkRunning, callers, cancellers, process,
         history, CallersOK, ProcessOK
<1>3. UnusedRows'
  BY NoRowFact DEF IInv, UnusedRows, MarkRunning, SetStatus, WorkerOwns
<1>4. WorkerOwns'
  BY DEF IInv, TypeOK, WorkerOwns, MarkRunning, SetStatus, Registered,
         TableOK, WorkerOK
<1>5. (CallerOwns /\ QueueOwns /\ Down)'
  BY DEF IInv, MarkRunning, SetStatus, callers, process, CallerOwns,
         QueueOwns, Down
<1>6. NoStrandedJob'
  BY DEF IInv, TypeOK, NoStrandedJob, MarkRunning, SetStatus, callers,
         process, InQueue, TableOK
<1>7. CancelReachesExecutor'
  BY DEF IInv, MarkRunning, CancelReachesExecutor
<1>8. (FreshRows /\ TimelyRows)'
  BY DEF IInv, MarkRunning, SetStatus, callers, history, FreshRows, Pending,
         TimelyRows
<1>. QED
  BY <1>1, <1>2, <1>3, <1>4, <1>5, <1>6, <1>7, <1>8 DEF IInv, TypeOK

(* RegisterCancel: the cancel function enters the map. *)
LEMMA RegisterCancelKeeps == ASSUME IInv, RegisterCancel PROVE IInv'
<1>1. (TableOK /\ CallersOK /\ ProcessOK)'
  BY DEF IInv, TypeOK, TableOK, RegisterCancel, table, callers, cancellers,
         process, history, CallersOK, ProcessOK
<1>2. WorkerOK'
  <2>1. wjob \in JobId
    BY WorkerHasJob DEF RegisterCancel
  <2>. QED
    BY <2>1 DEF IInv, TypeOK, WorkerOK, RegisterCancel
<1>3. (UnusedRows /\ WorkerOwns /\ CallerOwns /\ QueueOwns /\ Down)'
  BY DEF IInv, RegisterCancel, table, callers, process, UnusedRows,
         WorkerOwns, CallerOwns, QueueOwns, Down
<1>4. (NoStrandedJob /\ CancelReachesExecutor)'
  BY DEF IInv, RegisterCancel, table, callers, process, NoStrandedJob,
         InQueue, CancelReachesExecutor
<1>5. (FreshRows /\ TimelyRows)'
  BY DEF IInv, RegisterCancel, table, callers, history, FreshRows, TimelyRows
<1>. QED
  BY <1>1, <1>2, <1>3, <1>4, <1>5 DEF IInv, TypeOK

(* RecheckCancel: the flag is read again, so no cancel is missed. *)
LEMMA RecheckCancelKeeps == ASSUME IInv, RecheckCancel PROVE IInv'
<1>1. (TableOK /\ CallersOK /\ ProcessOK)'
  BY DEF IInv, TypeOK, TableOK, RecheckCancel, StartExecutor, table, callers, cancellers,
         process, CallersOK, ProcessOK
<1>2. WorkerOK'
  <2>1. wjob \in JobId
    BY WorkerHasJob DEF RecheckCancel, StartExecutor
  <2>2. row[wjob].cancel \in BOOLEAN
    BY <2>1 DEF IInv, TypeOK, TableOK, Row
  <2>3. Listed \in 0..MaxItems
    BY <2>1, BoundsAssumption DEF IInv, TypeOK, TableOK, WorkerOK, Row, Listed, WorkKey
  <2>. QED
    BY <2>1, <2>2, <2>3 DEF IInv, TypeOK, WorkerOK, RecheckCancel, StartExecutor
<1>3. (UnusedRows /\ WorkerOwns /\ CallerOwns /\ QueueOwns /\ Down)'
  BY DEF IInv, RecheckCancel, StartExecutor, table, callers, process, UnusedRows, WorkerOwns,
         Registered, CallerOwns, QueueOwns, Down
<1>4. NoStrandedJob'
  BY DEF IInv, RecheckCancel, StartExecutor, table, callers, process, NoStrandedJob, InQueue
<1>5. CancelReachesExecutor'
  BY TypesAssumption DEF IInv, TypeOK, CancelReachesExecutor, RecheckCancel, StartExecutor,
         table, TableOK, WorkerOK, Row, WorkerOwns
<1>6. (FreshRows /\ TimelyRows)'
  BY DEF IInv, RecheckCancel, StartExecutor, table, callers, FreshRows, TimelyRows
<1>. QED
  BY <1>1, <1>2, <1>3, <1>4, <1>5, <1>6 DEF IInv, TypeOK

(* SweepItem: the worker stays where it is. *)
LEMMA SweepItemKeeps == ASSUME IInv, SweepItem PROVE IInv'
<1>1. (TableOK /\ CallersOK /\ ProcessOK)'
  BY DEF IInv, TypeOK, TableOK, SweepItem, table, callers, cancellers,
         process, history, CallersOK, ProcessOK
<1>2. WorkerOK'
  BY BoundsAssumption DEF IInv, TypeOK, WorkerOK, SweepItem, WorkKey,
         GoesOn, Sweeping, TableOK, Row, WorkerOwns
<1>3. (UnusedRows /\ WorkerOwns /\ CallerOwns /\ QueueOwns /\ Down)'
  BY DEF IInv, SweepItem, table, callers, cancellers, process, history,
         UnusedRows, WorkerOwns, CallerOwns, QueueOwns, Down
<1>4. (NoStrandedJob /\ CancelReachesExecutor)'
  BY DEF IInv, SweepItem, table, callers, cancellers, process, NoStrandedJob,
         InQueue, CancelReachesExecutor
<1>5. (FreshRows /\ TimelyRows)'
  BY DEF IInv, SweepItem, table, callers, history, FreshRows, TimelyRows
<1>. QED
  BY <1>1, <1>2, <1>3, <1>4, <1>5 DEF IInv, TypeOK

(* SweepYield: the sweep returns with its row running. *)
LEMMA SweepYieldKeeps == ASSUME IInv, SweepYield PROVE IInv'
<1>1. (TableOK /\ WorkerOK /\ CallersOK /\ ProcessOK)'
  BY DEF IInv, TypeOK, TableOK, SweepYield, Return, table, callers,
         cancellers, process, history, WorkerOK, Outcome, CallersOK, ProcessOK
<1>2. (UnusedRows /\ CallerOwns)'
  BY DEF IInv, SweepYield, Return, table, callers, UnusedRows, CallerOwns
<1>3. WorkerOwns'
  BY DEF IInv, WorkerOwns, SweepYield, Return, Sweeping, table, Registered
<1>4. QueueOwns'
  BY DEF IInv, QueueOwns, SweepYield, Return, Sweeping, table, callers
<1>5. Down'
  BY DEF IInv, Down, SweepYield, Return, Sweeping, process
<1>6. NoStrandedJob'
  BY DEF IInv, NoStrandedJob, SweepYield, Return, Sweeping, table, callers,
         process, InQueue
<1>7. CancelReachesExecutor'
  BY DEF IInv, SweepYield, Return, CancelReachesExecutor
<1>8. FreshRows'
  BY DEF IInv, FreshRows, SweepYield, Return, Sweeping, table, callers,
         history
<1>9. TimelyRows'
  BY DEF IInv, SweepYield, Return, table, history, TimelyRows
<1>. QED
  BY <1>1, <1>2, <1>3, <1>4, <1>5, <1>6, <1>7, <1>8, <1>9 DEF IInv, TypeOK

(* SweepEnd: the sweep returns with its row running. *)
LEMMA SweepEndKeeps == ASSUME IInv, SweepEnd PROVE IInv'
<1>1. (TableOK /\ WorkerOK /\ CallersOK /\ ProcessOK)'
  BY DEF IInv, TypeOK, TableOK, SweepEnd, Return, table, callers, cancellers,
         process, history, WorkerOK, Outcome, CallersOK, ProcessOK
<1>2. (UnusedRows /\ CallerOwns)'
  BY DEF IInv, SweepEnd, Return, table, callers, UnusedRows, CallerOwns
<1>3. WorkerOwns'
  BY DEF IInv, WorkerOwns, SweepEnd, Return, Sweeping, GoesOn, table, Registered
<1>4. QueueOwns'
  BY DEF IInv, QueueOwns, SweepEnd, Return, Sweeping, GoesOn, table, callers
<1>5. Down'
  BY DEF IInv, Down, SweepEnd, Return, Sweeping, GoesOn, process
<1>6. NoStrandedJob'
  BY DEF IInv, NoStrandedJob, SweepEnd, Return, Sweeping, GoesOn, table, callers,
         process, InQueue
<1>7. CancelReachesExecutor'
  BY DEF IInv, SweepEnd, Return, CancelReachesExecutor
<1>8. FreshRows'
  BY DEF IInv, FreshRows, SweepEnd, Return, Sweeping, GoesOn, table, callers, history
<1>9. TimelyRows'
  BY DEF IInv, SweepEnd, Return, table, history, TimelyRows
<1>. QED
  BY <1>1, <1>2, <1>3, <1>4, <1>5, <1>6, <1>7, <1>8, <1>9 DEF IInv, TypeOK

(* ExecOk: the executor returns with its row running. *)
LEMMA ExecOkKeeps == ASSUME IInv, ExecOk PROVE IInv'
<1>1. (TableOK /\ WorkerOK /\ CallersOK /\ ProcessOK)'
  BY BoundsAssumption DEF IInv, TypeOK, TableOK, ExecOk, Return, table,
         callers, cancellers, process, history, WorkerOK, Outcome, CallersOK,
         ProcessOK
<1>2. (UnusedRows /\ WorkerOwns /\ CallerOwns /\ QueueOwns /\ Down)'
  BY DEF IInv, ExecOk, Return, table, callers, process, UnusedRows,
         WorkerOwns, Registered, CallerOwns, QueueOwns, Down
<1>3. (NoStrandedJob /\ CancelReachesExecutor)'
  BY DEF IInv, ExecOk, Return, table, callers, process, NoStrandedJob,
         InQueue, CancelReachesExecutor
<1>4. (FreshRows /\ TimelyRows)'
  BY DEF IInv, ExecOk, Return, table, callers, history, FreshRows, TimelyRows
<1>. QED
  BY <1>1, <1>2, <1>3, <1>4 DEF IInv, TypeOK

(* ExecFail: the executor returns with its row running. *)
LEMMA ExecFailKeeps == ASSUME IInv, ExecFail PROVE IInv'
<1>1. (TableOK /\ WorkerOK /\ CallersOK /\ ProcessOK)'
  BY DEF IInv, TypeOK, TableOK, ExecFail, Return, table, callers, cancellers,
         process, history, WorkerOK, Outcome, CallersOK, ProcessOK
<1>2. (UnusedRows /\ WorkerOwns /\ CallerOwns /\ QueueOwns /\ Down)'
  BY DEF IInv, ExecFail, Return, table, callers, process, UnusedRows,
         WorkerOwns, Registered, CallerOwns, QueueOwns, Down
<1>3. (NoStrandedJob /\ CancelReachesExecutor)'
  BY DEF IInv, ExecFail, Return, table, callers, process, NoStrandedJob,
         InQueue, CancelReachesExecutor
<1>4. (FreshRows /\ TimelyRows)'
  BY DEF IInv, ExecFail, Return, table, callers, history, FreshRows,
         TimelyRows
<1>. QED
  BY <1>1, <1>2, <1>3, <1>4 DEF IInv, TypeOK

(* Settle: a cancel seen here becomes the verdict. *)
LEMMA SettleKeeps == ASSUME IInv, Settle PROVE IInv'
<1>1. (TableOK /\ WorkerOK /\ CallersOK /\ ProcessOK)'
  BY DEF IInv, TypeOK, TableOK, Settle, table, callers, cancellers, process,
         history, Terminal, WorkerOK, CallersOK, ProcessOK
<1>2. (UnusedRows /\ WorkerOwns /\ CallerOwns /\ QueueOwns /\ Down)'
  BY DEF IInv, Settle, table, callers, process, Pending, UnusedRows,
         WorkerOwns, Registered, CallerOwns, QueueOwns, Down
<1>3. (NoStrandedJob /\ CancelReachesExecutor)'
  BY DEF IInv, Settle, table, callers, process, NoStrandedJob, InQueue,
         CancelReachesExecutor
<1>4. (FreshRows /\ TimelyRows)'
  BY DEF IInv, Settle, table, callers, history, FreshRows, TimelyRows
<1>. QED
  BY <1>1, <1>2, <1>3, <1>4 DEF IInv, TypeOK

(* FinishJob: the row leaves the pending ones, still held by nobody else. *)
LEMMA FinishJobKeeps == ASSUME IInv, FinishJob PROVE IInv'
<1>1. TableOK'
  <2>1. wjob \in JobId /\ verdict \in Terminal
    BY WorkerHasJob DEF IInv, TypeOK, WorkerOK, FinishJob
  <2>. QED
    BY <2>1, SetStatusTable DEF IInv, TypeOK, TableOK, FinishJob, Status
<1>2. (WorkerOK /\ CallersOK /\ ProcessOK)'
  BY DEF IInv, TypeOK, WorkerOK, FinishJob, callers, cancellers, process,
         history, CallersOK, ProcessOK
<1>3. UnusedRows'
  BY NoRowFact DEF IInv, UnusedRows, FinishJob, SetStatus, WorkerOwns, Pending
<1>4. (WorkerOwns /\ CallerOwns /\ QueueOwns /\ Down)'
  BY DEF IInv, TypeOK, WorkerOK, FinishJob, SetStatus, callers, process,
         Terminal, WorkerOwns, Registered, Pending, CallerOwns, QueueOwns,
         Down
<1>5. NoStrandedJob'
  BY TypesAssumption DEF IInv, TypeOK, NoStrandedJob, FinishJob, SetStatus,
         callers, process, InQueue, TableOK, WorkerOK, Terminal, JobId
<1>6. CancelReachesExecutor'
  BY DEF IInv, FinishJob, CancelReachesExecutor
<1>7. (FreshRows /\ TimelyRows)'
  BY DEF IInv, FinishJob, SetStatus, callers, history, FreshRows, TimelyRows
<1>. QED
  BY <1>1, <1>2, <1>3, <1>4, <1>5, <1>6, <1>7 DEF IInv, TypeOK

(* Requeue: the running row becomes queued in the worker's hands. *)
LEMMA RequeueKeeps == ASSUME IInv, Requeue PROVE IInv'
<1>1. TableOK'
  <2>1. wjob \in JobId
    BY WorkerHasJob DEF Requeue
  <2>. QED
    BY <2>1, SetStatusTable DEF IInv, TypeOK, TableOK, Requeue, Status, Pending
<1>2. (WorkerOK /\ CallersOK /\ ProcessOK)'
  BY DEF IInv, TypeOK, WorkerOK, Requeue, callers, cancellers, process,
         history, CallersOK, ProcessOK
<1>3. UnusedRows'
  BY NoRowFact DEF IInv, UnusedRows, Requeue, SetStatus, WorkerOwns
<1>4. WorkerOwns'
  BY DEF IInv, TypeOK, WorkerOwns, Requeue, SetStatus, Registered, TableOK,
         WorkerOK
<1>5. (CallerOwns /\ QueueOwns /\ Down)'
  BY DEF IInv, Requeue, SetStatus, callers, process, CallerOwns, QueueOwns,
         Down
<1>6. NoStrandedJob'
  BY BoundsAssumption DEF IInv, TypeOK, NoStrandedJob, Requeue, SetStatus,
         callers, process, InQueue, TableOK
<1>7. CancelReachesExecutor'
  BY DEF IInv, Requeue, CancelReachesExecutor
<1>8. (FreshRows /\ TimelyRows)'
  BY DEF IInv, Requeue, SetStatus, callers, history, FreshRows, TimelyRows
<1>. QED
  BY <1>1, <1>2, <1>3, <1>4, <1>5, <1>6, <1>7, <1>8 DEF IInv, TypeOK

(* RequeuePush: the row passes to the queue, or stays to be finished. *)
LEMMA RequeuePushKeeps == ASSUME IInv, RequeuePush PROVE IInv'
<1>1. (TableOK /\ CallersOK /\ ProcessOK)'
  BY DEF IInv, TypeOK, TableOK, RequeuePush, table, callers, cancellers,
         process, history, CallersOK, ProcessOK
<1>2. WorkerOK'
  <2>1. wjob \in JobId
    BY WorkerHasJob DEF RequeuePush
  <2>2. CASE Len(queue) < QueueCap
    BY <2>1, <2>2, BoundsAssumption DEF IInv, TypeOK, WorkerOK, RequeuePush
  <2>3. CASE ~(Len(queue) < QueueCap)
    BY <2>3, BoundsAssumption DEF IInv, TypeOK, WorkerOK, RequeuePush
  <2>. QED
    BY <2>2, <2>3
<1>3. (UnusedRows /\ WorkerOwns /\ CallerOwns /\ Down)'
  BY DEF IInv, RequeuePush, table, callers, process, Pending, UnusedRows,
         WorkerOwns, Registered, CallerOwns, Down
<1>4. QueueOwns'
  <2>1. /\ wjob \in JobId /\ wpc = "repush" /\ row[wjob].status = "queued"
        /\ row' = row /\ wjob' = wjob /\ eid' = eid
    BY WorkerHasJob DEF IInv, WorkerOwns, RequeuePush, table, callers
  <2>2. CASE Len(queue) < QueueCap
    <3>1. queue' = Append(queue, wjob) /\ wpc' = "unregister" /\ queue \in Seq(JobId)
      BY <2>2 DEF RequeuePush, IInv, TypeOK, WorkerOK
    <3>2. \A c \in Caller : eid[c] # wjob
      BY <2>1, NoneAssumption DEF IInv, CallerOwns
    <3>3. \A i \in 1..Len(queue) : queue[i] # wjob
      BY <2>1 DEF IInv, QueueOwns
    <3>. QED
      BY <2>1, <3>1, <3>2, <3>3, AppendQueue DEF IInv, QueueOwns
  <2>3. CASE ~(Len(queue) < QueueCap)
    BY <2>1, <2>3 DEF IInv, QueueOwns, RequeuePush
  <2>. QED
    BY <2>2, <2>3
<1>5. (NoStrandedJob /\ CancelReachesExecutor)'
  BY DEF IInv, RequeuePush, table, callers, process, NoStrandedJob, InQueue,
         CancelReachesExecutor
<1>6. (FreshRows /\ TimelyRows)'
  BY DEF IInv, RequeuePush, table, callers, history, FreshRows, TimelyRows
<1>. QED
  BY <1>1, <1>2, <1>3, <1>4, <1>5, <1>6 DEF IInv, TypeOK

(* UnregisterCancel: the worker lets go of its row. *)
LEMMA UnregisterCancelKeeps == ASSUME IInv, UnregisterCancel PROVE IInv'
<1>1. (TableOK /\ CallersOK /\ ProcessOK)'
  BY DEF IInv, TypeOK, TableOK, UnregisterCancel, table, callers, cancellers,
         process, history, CallersOK, ProcessOK
<1>2. WorkerOK'
  <2>1. rest' = 0 /\ 0 \in 0..MaxItems
    BY BoundsAssumption DEF UnregisterCancel, NoRun
  <2>. QED
    BY <2>1 DEF IInv, TypeOK, WorkerOK, UnregisterCancel, NoRun, Outcome, Terminal
<1>3. (UnusedRows /\ WorkerOwns /\ CallerOwns /\ Down)'
  BY NoneAssumption DEF IInv, UnregisterCancel, NoRun, table, callers,
         process, UnusedRows, WorkerOwns, Registered, CallerOwns, Down
<1>4. QueueOwns'
  BY NoneAssumption DEF IInv, TypeOK, QueueOwns, UnregisterCancel, NoRun,
         table, callers, WorkerOK
<1>5. (NoStrandedJob /\ CancelReachesExecutor)'
  BY DEF IInv, UnregisterCancel, table, callers, process, NoStrandedJob,
         InQueue, CancelReachesExecutor
<1>6. FreshRows'
  BY NoneAssumption DEF IInv, TypeOK, ProcessOK, FreshRows, UnregisterCancel,
         NoRun, table, history, callers, WorkerOwns, Pending
<1>7. TimelyRows'
  BY DEF IInv, UnregisterCancel, table, history, TimelyRows
<1>. QED
  BY <1>1, <1>2, <1>3, <1>4, <1>5, <1>6, <1>7 DEF IInv, TypeOK

(* Enqueue: a new row in the hands of its caller. *)
LEMMA EnqueueKeeps == ASSUME IInv, NEW c \in Caller, NEW r \in Request, Enqueue(c, r) PROVE IInv'
<1>1. TableOK'
  BY BoundsAssumption, TypesAssumption DEF IInv, TypeOK, TableOK, Enqueue,
         Insert, Row, Status, Pending, JobId
<1>2. (WorkerOK /\ CallersOK /\ ProcessOK /\ Down /\ CancelReachesExecutor)'
  BY DEF IInv, TypeOK, WorkerOK, Enqueue, Insert, worker, cancellers, process,
         CallersOK, ProcessOK, Down, CancelReachesExecutor
<1>3. UnusedRows'
  BY DEF IInv, UnusedRows, Enqueue, Insert, JobId
<1>4. WorkerOwns'
  BY NoRowFact DEF IInv, TypeOK, WorkerOwns, Enqueue, Insert, worker, Pending,
         TableOK, UnusedRows
<1>5. CallerOwns'
  <2>1. /\ Insert(c, r) /\ epc[c] = "idle"
        /\ \A d \in Caller \ {c} : ereq'[d] = ereq[d]
    BY DEF IInv, TypeOK, CallersOK, Enqueue
  <2>. QED
    BY <2>1, InsertCallerOwns
<1>6. QueueOwns'
  BY NoRowFact DEF IInv, TypeOK, QueueOwns, Enqueue, Insert, worker, TableOK,
         UnusedRows
<1>7. NoStrandedJob'
  BY TypesAssumption DEF IInv, TypeOK, NoStrandedJob, Enqueue, Insert, worker,
         InQueue, CallersOK
<1>8. FreshRows'
  BY InsertFreshRows DEF Enqueue
<1>9. TimelyRows'
  BY NoRowFact DEF IInv, TypeOK, TimelyRows, Enqueue, Insert, worker, TableOK,
         UnusedRows
<1>. QED
  BY <1>1, <1>2, <1>3, <1>4, <1>5, <1>6, <1>7, <1>8, <1>9 DEF IInv, TypeOK

(* UniqueFound: only the history changes. *)
LEMMA UniqueFoundKeeps == ASSUME IInv, NEW c \in Caller, NEW r \in Request, UniqueFound(c, r) PROVE IInv'
<1>1. (TableOK /\ WorkerOK /\ CallersOK /\ ProcessOK)'
  BY DEF IInv, TypeOK, TableOK, UniqueFound, table, worker, callers,
         cancellers, process, WorkerOK, CallersOK, ProcessOK
<1>2. (UnusedRows /\ WorkerOwns /\ CallerOwns /\ QueueOwns /\ Down)'
  BY DEF IInv, UniqueFound, table, worker, callers, process, UnusedRows,
         WorkerOwns, CallerOwns, QueueOwns, Down
<1>3. (NoStrandedJob /\ CancelReachesExecutor)'
  BY DEF IInv, UniqueFound, table, worker, callers, cancellers, NoStrandedJob,
         InQueue, CancelReachesExecutor
<1>4. (FreshRows /\ TimelyRows)'
  BY DEF IInv, UniqueFound, table, worker, callers, FreshRows, TimelyRows
<1>. QED
  BY <1>1, <1>2, <1>3, <1>4 DEF IInv, TypeOK

(* UniqueMissed: the caller holds the lock and no row yet. *)
LEMMA UniqueMissedKeeps == ASSUME IInv, NEW c \in Caller, NEW r \in Request, UniqueMissed(c, r) PROVE IInv'
<1>1. (TableOK /\ WorkerOK /\ CallersOK /\ ProcessOK)'
  BY DEF IInv, TypeOK, TableOK, UniqueMissed, table, worker, cancellers,
         process, history, WorkerOK, CallersOK, ProcessOK
<1>2. (UnusedRows /\ WorkerOwns /\ QueueOwns /\ Down)'
  BY DEF IInv, UniqueMissed, table, worker, process, UnusedRows, WorkerOwns,
         QueueOwns, Down
<1>3. CallerOwns'
  BY DEF IInv, TypeOK, CallerOwns, UniqueMissed, table, worker, HandedOver,
         CallersOK
<1>4. (NoStrandedJob /\ CancelReachesExecutor)'
  BY DEF IInv, UniqueMissed, table, worker, cancellers, NoStrandedJob,
         InQueue, CancelReachesExecutor
<1>5. (FreshRows /\ TimelyRows)'
  BY DEF IInv, UniqueMissed, table, worker, history, FreshRows, TimelyRows
<1>. QED
  BY <1>1, <1>2, <1>3, <1>4, <1>5 DEF IInv, TypeOK

(* UniqueInsert: a new row in the hands of its caller. *)
LEMMA UniqueInsertKeeps == ASSUME IInv, NEW c \in Caller, UniqueInsert(c) PROVE IInv'
<1>1. TableOK'
  BY BoundsAssumption, TypesAssumption DEF IInv, TypeOK, TableOK,
         UniqueInsert, Insert, Row, Status, Pending, CallerOwns, JobId
<1>2. (WorkerOK /\ CallersOK /\ ProcessOK /\ Down /\ CancelReachesExecutor)'
  BY DEF IInv, TypeOK, WorkerOK, UniqueInsert, Insert, worker, cancellers,
         process, CallersOK, ProcessOK, Down, CancelReachesExecutor
<1>3. UnusedRows'
  BY DEF IInv, UnusedRows, UniqueInsert, Insert, JobId
<1>4. WorkerOwns'
  BY NoRowFact DEF IInv, TypeOK, WorkerOwns, UniqueInsert, Insert, worker,
         Pending, TableOK, UnusedRows, NoReq
<1>5. CallerOwns'
  <2>1. /\ Insert(c, ereq[c]) /\ epc[c] = "insert" /\ ereq[c] \in Request
        /\ \A d \in Caller \ {c} : ereq'[d] = ereq[d]
    BY DEF IInv, CallerOwns, UniqueInsert
  <2>. QED
    BY <2>1, InsertCallerOwns
<1>6. QueueOwns'
  BY NoRowFact DEF IInv, TypeOK, QueueOwns, UniqueInsert, Insert, worker,
         TableOK, UnusedRows, Terminal
<1>7. NoStrandedJob'
  BY NoneAssumption DEF IInv, TypeOK, NoStrandedJob, UniqueInsert, Insert,
         worker, process, InQueue, CallersOK
<1>8. FreshRows'
  <2>1. Insert(c, ereq[c]) /\ ereq[c] \in Request
    BY DEF IInv, CallerOwns, UniqueInsert
  <2>. QED
    BY <2>1, InsertFreshRows
<1>9. TimelyRows'
  BY NoRowFact DEF IInv, TypeOK, TimelyRows, UniqueInsert, Insert, worker,
         TableOK, UnusedRows
<1>. QED
  BY <1>1, <1>2, <1>3, <1>4, <1>5, <1>6, <1>7, <1>8, <1>9 DEF IInv, TypeOK

(* Push: a row passes from its caller to the queue. *)
LEMMA PushKeeps == ASSUME IInv, NEW c \in Caller, Push(c) PROVE IInv'
<1>1. (TableOK /\ CallersOK /\ ProcessOK)'
  BY DEF IInv, TypeOK, TableOK, Push, Released, table, cancellers, process,
         history, CallersOK, ProcessOK
<1>2. WorkerOK'
  BY BoundsAssumption DEF IInv, TypeOK, WorkerOK, Push, worker, CallerOwns,
         HandedOver
<1>3. (UnusedRows /\ WorkerOwns /\ Down)'
  BY DEF IInv, Push, table, worker, process, UnusedRows, WorkerOwns, Down
<1>4. CallerOwns'
  BY DEF IInv, TypeOK, CallerOwns, Push, Released, table, worker, HandedOver,
         CallersOK
<1>5. QueueOwns'
  BY NoneAssumption DEF IInv, TypeOK, QueueOwns, Push, Released, table,
         worker, WorkerOK, CallersOK, CallerOwns, HandedOver
<1>6. (NoStrandedJob /\ CancelReachesExecutor)'
  BY DEF IInv, Push, Released, table, worker, cancellers, process,
         NoStrandedJob, InQueue, CancelReachesExecutor
<1>7. (FreshRows /\ TimelyRows)'
  BY DEF IInv, Push, Released, table, worker, history, FreshRows, TimelyRows
<1>. QED
  BY <1>1, <1>2, <1>3, <1>4, <1>5, <1>6, <1>7 DEF IInv, TypeOK

(* PushFull: the caller keeps its row, to fail it. *)
LEMMA PushFullKeeps == ASSUME IInv, NEW c \in Caller, PushFull(c) PROVE IInv'
<1>1. TableOK'
  BY DEF IInv, TypeOK, TableOK, PushFull, table
<1>2. WorkerOK'
  BY DEF IInv, TypeOK, WorkerOK, PushFull, worker
<1>3. CallersOK'
  BY DEF IInv, TypeOK, CallersOK, PushFull, cancellers
<1>4. ProcessOK'
  BY DEF IInv, TypeOK, ProcessOK, PushFull, process
<1>5. UnusedRows'
  BY DEF IInv, UnusedRows, PushFull, table
<1>6. WorkerOwns'
  BY DEF IInv, WorkerOwns, PushFull, table, worker
<1>7. CallerOwns'
  BY DEF IInv, CallerOwns, PushFull, table, worker, HandedOver
<1>8. QueueOwns'
  BY DEF IInv, QueueOwns, PushFull, table, worker
<1>9. Down'
  BY DEF IInv, Down, PushFull, process
<1>10. NoStrandedJob'
  BY DEF IInv, NoStrandedJob, PushFull, table, worker, process, InQueue
<1>11. CancelReachesExecutor'
  BY DEF IInv, CancelReachesExecutor, PushFull, table, worker, cancellers
<1>12. FreshRows'
  BY DEF IInv, FreshRows, PushFull, table, worker
<1>13. TimelyRows'
  BY DEF IInv, TimelyRows, PushFull, table, worker
<1>. QED
  BY <1>1, <1>2, <1>3, <1>4, <1>5, <1>6, <1>7, <1>8, <1>9, <1>10, <1>11, <1>12, <1>13 DEF IInv, TypeOK

(* Refuse: the caller fails its row and lets go of it. *)
LEMMA RefuseKeeps == ASSUME IInv, NEW c \in Caller, Refuse(c) PROVE IInv'
<1>1. TableOK'
  <2>1. eid[c] \in JobId
    BY DEF IInv, CallerOwns, HandedOver, Refuse
  <2>. QED
    BY <2>1, SetStatusTable DEF IInv, TypeOK, TableOK, Refuse, Status, Terminal
<1>2. (WorkerOK /\ CallersOK /\ ProcessOK)'
  BY DEF IInv, TypeOK, WorkerOK, Refuse, Released, worker, cancellers,
         process, history, CallersOK, ProcessOK
<1>3. UnusedRows'
  BY NoRowFact DEF IInv, UnusedRows, Refuse, SetStatus, CallerOwns, HandedOver
<1>4. WorkerOwns'
  BY DEF IInv, WorkerOwns, Refuse, SetStatus, worker, CallerOwns
<1>5. CallerOwns'
  BY NoneAssumption DEF IInv, TypeOK, CallerOwns, Refuse, Released, SetStatus,
         worker, HandedOver, CallersOK
<1>6. QueueOwns'
  BY NoneAssumption DEF IInv, TypeOK, QueueOwns, Refuse, Released, SetStatus,
         worker, WorkerOK
<1>7. Down'
  BY DEF IInv, Refuse, process, Down
<1>8. NoStrandedJob'
  BY TypesAssumption DEF IInv, TypeOK, NoStrandedJob, Refuse, Released,
         SetStatus, worker, process, InQueue, TableOK, CallersOK
<1>9. CancelReachesExecutor'
  BY DEF IInv, Refuse, SetStatus, worker, cancellers, CancelReachesExecutor
<1>10. FreshRows'
  BY DEF IInv, TypeOK, FreshRows, Refuse, Released, SetStatus, worker,
         history, CallersOK
<1>11. TimelyRows'
  BY DEF IInv, Refuse, SetStatus, worker, history, TimelyRows
<1>. QED
  BY <1>1, <1>2, <1>3, <1>4, <1>5, <1>6, <1>7, <1>8, <1>9, <1>10, <1>11 DEF IInv, TypeOK

(* RequestCancel: the flag of a pending row, and the canceller on its way. *)
LEMMA RequestCancelKeeps == ASSUME IInv, NEW k \in Canceller, NEW j \in JobId, RequestCancel(k, j) PROVE IInv'
<1>1. TableOK'
  BY CancelRow DEF IInv, TypeOK, TableOK, RequestCancel
<1>2. (WorkerOK /\ CallersOK /\ ProcessOK)'
  BY DEF IInv, TypeOK, WorkerOK, RequestCancel, worker, callers, process,
         CallersOK, ProcessOK
<1>3. UnusedRows'
  BY NoRowFact DEF IInv, UnusedRows, RequestCancel, Pending
<1>4. (WorkerOwns /\ CallerOwns /\ QueueOwns /\ Down)'
  BY DEF IInv, RequestCancel, worker, callers, process, WorkerOwns,
         CallerOwns, QueueOwns, Down
<1>5. NoStrandedJob'
  BY DEF IInv, RequestCancel, worker, callers, NoStrandedJob, InQueue
<1>6. CancelReachesExecutor'
  BY DEF IInv, TypeOK, CancelReachesExecutor, RequestCancel, worker, CallersOK
<1>7. FreshRows'
  BY DEF IInv, RequestCancel, worker, callers, FreshRows
<1>8. TimelyRows'
  BY DEF IInv, TypeOK, TimelyRows, RequestCancel, Settled, worker, Pending,
         TableOK
<1>. QED
  BY <1>1, <1>2, <1>3, <1>4, <1>5, <1>6, <1>7, <1>8 DEF IInv, TypeOK

(* CancelIfRunning: the context is cancelled if its function is in the map. *)
LEMMA CancelIfRunningKeeps == ASSUME IInv, NEW k \in Canceller, CancelIfRunning(k) PROVE IInv'
<1>1. (TableOK /\ WorkerOK /\ CallersOK /\ ProcessOK)'
  BY DEF IInv, TypeOK, TableOK, CancelIfRunning, table, callers, process,
         history, WorkerOK, CallersOK, ProcessOK
<1>2. (UnusedRows /\ WorkerOwns /\ CallerOwns /\ QueueOwns /\ Down)'
  BY DEF IInv, CancelIfRunning, table, callers, process, UnusedRows,
         WorkerOwns, CallerOwns, QueueOwns, Down
<1>3. NoStrandedJob'
  BY DEF IInv, CancelIfRunning, table, callers, process, NoStrandedJob,
         InQueue
<1>4. CancelReachesExecutor'
  BY DEF IInv, TypeOK, CancelReachesExecutor, CancelIfRunning, table, TableOK,
         WorkerOK, Row, WorkerOwns, Registered
<1>5. (FreshRows /\ TimelyRows)'
  BY DEF IInv, CancelIfRunning, table, callers, history, FreshRows, TimelyRows
<1>. QED
  BY <1>1, <1>2, <1>3, <1>4, <1>5 DEF IInv, TypeOK

-----------------------------------------------------------------------------
(* Every step keeps the invariant. *)
LEMMA NextKeeps == ASSUME IInv, [Next]_vars PROVE IInv'
<1>1. CASE Boot \/ Shutdown \/ Crash
  BY <1>1, BootKeeps, ShutdownKeeps, CrashKeeps
<1>2. CASE WorkerStep
  BY <1>2, PopKeeps, CheckPoppedKeeps, MarkRunningKeeps, RegisterCancelKeeps,
     RecheckCancelKeeps, SweepItemKeeps, SweepYieldKeeps, SweepEndKeeps, ExecOkKeeps,
     ExecFailKeeps, SettleKeeps, FinishJobKeeps, RequeueKeeps, RequeuePushKeeps,
     UnregisterCancelKeeps DEF WorkerStep
<1>3. ASSUME NEW c \in Caller, EnqueueStart(c) \/ EnqueueStep(c) PROVE IInv'
  BY <1>3, EnqueueKeeps, UniqueFoundKeeps, UniqueMissedKeeps, UniqueInsertKeeps,
     PushKeeps, PushFullKeeps, RefuseKeeps DEF EnqueueStart, EnqueueStep
<1>4. ASSUME NEW k \in Canceller,
             CancelIfRunning(k) \/ \E j \in JobId : RequestCancel(k, j)
      PROVE  IInv'
  BY <1>4, CancelIfRunningKeeps, RequestCancelKeeps
<1>5. CASE UNCHANGED vars
  BY <1>5, StutterKeeps
<1>. QED
  BY <1>1, <1>2, <1>3, <1>4, <1>5 DEF Next

(* The inductive invariant holds in every reachable state. *)
THEOREM IInvHolds == Spec => []IInv
<1>1. Init => IInv
  BY InitIInv
<1>2. IInv /\ [Next]_vars => IInv'
  BY NextKeeps
<1>. QED
  BY <1>1, <1>2, PTL DEF Spec

(* Every variable keeps its type, and the queue (a channel of 128) never holds  *)
(* more than its capacity.                                                   *)
THEOREM JobsTypeCorrect == Spec => []TypeOK
<1>1. IInv => TypeOK
  BY DEF IInv
<1>. QED
  BY <1>1, IInvHolds, PTL

(* No scan_jobs row hangs while the process runs: a queued row is in the queue *)
(* or in somebody's hands, a running row is the worker's.                      *)
THEOREM NoJobStranded == Spec => []NoStrandedJob
<1>1. IInv => NoStrandedJob
  BY DEF IInv
<1>. QED
  BY <1>1, IInvHolds, PTL

(* RequestCancel against runJob: an executor that runs with the cancel flag of  *)
(* its row set has a cancelled context, or the canceller is on its way to it.  *)
THEOREM CancelsReachExecutors == Spec => []CancelReachesExecutor
<1>1. IInv => CancelReachesExecutor
  BY DEF IInv
<1>. QED
  BY <1>1, IInvHolds, PTL

(* A cancel accepted before runJob read the flag for the last time never ends   *)
(* as done.                                                                    *)
THEOREM TimelyCancelsStick == Spec => []TimelyCancelSticks
<1>1. IInv => TimelyCancelSticks
  BY DEF IInv, TimelyRows, TimelyCancelSticks
<1>. QED
  BY <1>1, IInvHolds, PTL

(* A job the service accepted by insertion is not finished before its executor   *)
(* started, unless it was cancelled.                                            *)
THEOREM AcceptedJobsRun == Spec => []AcceptedJobRuns
<1>1. IInv => AcceptedJobRuns
  BY DEF IInv, FreshRows, AcceptedJobRuns, Pending, Terminal
<1>. QED
  BY <1>1, IInvHolds, PTL

-----------------------------------------------------------------------------
(* Refinement: the status column of a row.                                 *)
StatusOf == [j \in JobId |-> row[j].status]

(* Writing a status into the table writes it into the abstract state. *)
LEMMA SetStatusMaps ==
  ASSUME TableOK, NEW j \in JobId, NEW s \in Status, row' = SetStatus(j, s)
  PROVE  StatusOf' = [StatusOf EXCEPT ![j] = s]
<1>1. \A i \in JobId : row[i] \in Row
  BY DEF TableOK
<1>2. ASSUME NEW i \in JobId
      PROVE  row'[i].status = IF i = j THEN s ELSE row[i].status
  BY <1>1 DEF TableOK, SetStatus, Row
<1>. QED
  BY <1>2 DEF StatusOf

(* A row that is inserted is one the abstract state has not used. *)
LEMMA InsertSubmits ==
  ASSUME IInv, NEW c \in Caller, NEW r \in Request, Insert(c, r)
  PROVE  Lifecycle!Next
<1>1. /\ nextId \in JobId /\ nextId' = nextId + 1
      /\ row' = [row EXCEPT ![nextId] = [type |-> r.type, lib |-> r.lib, dedup |-> r.dedup,
                                       status |-> "queued", cancel |-> FALSE]]
  BY DEF Insert
<1>2. StatusOf' = [StatusOf EXCEPT ![nextId] = "queued"]
  BY <1>1 DEF IInv, TypeOK, TableOK, StatusOf
<1>3. nextId \notin 1..(nextId - 1) /\ 1..(nextId' - 1) = 1..(nextId - 1) \cup {nextId}
  BY <1>1, BoundsAssumption DEF JobId
<1>. QED
  BY <1>1, <1>2, <1>3 DEF Lifecycle!Next, Lifecycle!Submit, StatusOf


(* The start of the process is the restart of the life cycle. *)
LEMMA BootRestarts == ASSUME IInv, Boot PROVE Lifecycle!Next
<1>1. PICK old \in SUBSET {j \in JobId : row[j].status \in Terminal} :
        row' = [j \in JobId |->
                  IF j \in old THEN NoRow
                  ELSE IF row[j].status \in Pending
                       THEN [row[j] EXCEPT !.status = "canceled"] ELSE row[j]]
  BY DEF Boot
<1>2. old \in SUBSET {j \in JobId : StatusOf[j] \in Terminal}
  BY DEF StatusOf
<1>3. StatusOf' = [j \in JobId |-> IF j \in old THEN "absent"
                                ELSE IF StatusOf[j] \in Pending THEN "canceled" ELSE StatusOf[j]]
  <2>1. ASSUME NEW j \in JobId
        PROVE  row'[j].status = IF j \in old THEN "absent"
                                ELSE IF row[j].status \in Pending THEN "canceled"
                                ELSE row[j].status
    BY <1>1, NoRowFact DEF IInv, TypeOK, TableOK, Row
  <2>. QED
    BY <2>1 DEF StatusOf
<1>4. nextId' = nextId
  BY DEF Boot
<1>. QED
  BY <1>2, <1>3, <1>4 DEF Lifecycle!Next, Lifecycle!Restart, Lifecycle!Terminal,
     Lifecycle!Pending, Terminal, Pending, StatusOf

(* Marking a row running starts it: no other row runs. *)
LEMMA MarkStarts == ASSUME IInv, MarkRunning PROVE Lifecycle!Next
<1>1. wjob \in JobId /\ up /\ row[wjob].status = "queued" /\ wpc = "mark"
  BY WorkerHasJob DEF IInv, WorkerOwns, MarkRunning
<1>2. \A j \in JobId : row[j].status # "running"
  BY <1>1 DEF IInv, NoStrandedJob
<1>3. StatusOf' = [StatusOf EXCEPT ![wjob] = "running"] /\ nextId' = nextId
  BY <1>1, SetStatusMaps DEF IInv, TypeOK, MarkRunning, Status, Pending
<1>. QED
  BY <1>1, <1>2, <1>3 DEF Lifecycle!Next, Lifecycle!Start, StatusOf

(* Finishing a row ends it. *)
LEMMA FinishEnds == ASSUME IInv, FinishJob PROVE Lifecycle!Next
<1>1. wjob \in JobId /\ row[wjob].status \in Pending /\ verdict \in Terminal
  BY WorkerHasJob DEF IInv, TypeOK, WorkerOK, WorkerOwns, FinishJob
<1>2. StatusOf' = [StatusOf EXCEPT ![wjob] = verdict] /\ nextId' = nextId
  BY <1>1, SetStatusMaps DEF IInv, TypeOK, FinishJob, Status
<1>. QED
  BY <1>1, <1>2 DEF Lifecycle!Next, Lifecycle!End, Lifecycle!Terminal, Lifecycle!Pending, Terminal, Pending, StatusOf

(* Putting a row back in line is a yield. *)
LEMMA RequeueYields == ASSUME IInv, Requeue PROVE Lifecycle!Next
<1>1. wjob \in JobId /\ row[wjob].status = "running"
  BY WorkerHasJob DEF IInv, WorkerOwns, Requeue
<1>2. StatusOf' = [StatusOf EXCEPT ![wjob] = "queued"] /\ nextId' = nextId
  BY <1>1, SetStatusMaps DEF IInv, TypeOK, Requeue, Status, Pending
<1>. QED
  BY <1>1, <1>2 DEF Lifecycle!Next, Lifecycle!Yield, StatusOf

(* Refusing a row for a full queue ends it. *)
LEMMA RefuseEnds == ASSUME IInv, NEW c \in Caller, Refuse(c) PROVE Lifecycle!Next
<1>1. eid[c] \in JobId /\ row[eid[c]].status = "queued"
  BY DEF IInv, CallerOwns, HandedOver, Refuse
<1>2. StatusOf' = [StatusOf EXCEPT ![eid[c]] = "failed"] /\ nextId' = nextId
  BY <1>1, SetStatusMaps DEF IInv, TypeOK, Refuse, Status, Terminal
<1>. QED
  BY <1>1, <1>2 DEF Lifecycle!Next, Lifecycle!End, Lifecycle!Terminal, Lifecycle!Pending, StatusOf

(* A cancel request changes no status. *)
LEMMA CancelKeepsStatus ==
  ASSUME IInv, NEW k \in Canceller, NEW j \in JobId, RequestCancel(k, j)
  PROVE  StatusOf' = StatusOf /\ nextId' = nextId
  BY DEF IInv, TypeOK, TableOK, Row, RequestCancel, StatusOf

(* Every step of the service is a step of the life cycle, or leaves it alone. *)
LEMMA StepsFollow == ASSUME IInv, [Next]_vars PROVE [Lifecycle!Next]_<<StatusOf, 1..(nextId - 1)>>
<1>. DEFINE Quiet == row' = row /\ nextId' = nextId
            Follows == [Lifecycle!Next]_<<StatusOf, 1..(nextId - 1)>>
<1>q. Quiet => Follows
  BY DEF StatusOf
<1>1. CASE Boot
  BY <1>1, BootRestarts
<1>2. CASE Shutdown \/ Crash
  BY <1>2, <1>q DEF Shutdown, Crash, table
<1>3. CASE MarkRunning
  BY <1>3, MarkStarts
<1>4. CASE FinishJob
  BY <1>4, FinishEnds
<1>5. CASE Requeue
  BY <1>5, RequeueYields
<1>6. CASE WorkerStep /\ ~MarkRunning /\ ~FinishJob /\ ~Requeue
  <2>1. Quiet
    BY <1>6 DEF WorkerStep, Pop, CheckPopped, RegisterCancel, RecheckCancel, StartExecutor, SweepItem,
       SweepYield, SweepEnd, ExecOk, ExecFail, Return, Settle, RequeuePush,
       UnregisterCancel, table
  <2>. QED
    BY <2>1, <1>q
<1>7. ASSUME NEW c \in Caller, EnqueueStart(c) \/ EnqueueStep(c) PROVE Follows
  <2>1. ASSUME NEW r \in Request, Insert(c, r) PROVE Follows
    BY <2>1, InsertSubmits
  <2>2. CASE \E r \in Request : Enqueue(c, r)
    BY <2>1, <2>2 DEF Enqueue
  <2>3. CASE UniqueInsert(c)
    BY <2>1, <2>3 DEF UniqueInsert, IInv, CallerOwns
  <2>4. CASE Refuse(c)
    BY <2>4, RefuseEnds
  <2>5. CASE Push(c) \/ PushFull(c) \/ \E r \in Request : UniqueFound(c, r) \/ UniqueMissed(c, r)
    BY <2>5, <1>q DEF Push, PushFull, UniqueFound, UniqueMissed, table
  <2>. QED
    BY <1>7, <2>2, <2>3, <2>4, <2>5 DEF EnqueueStart, EnqueueStep
<1>8. ASSUME NEW k \in Canceller,
             CancelIfRunning(k) \/ \E j \in JobId : RequestCancel(k, j)
      PROVE  Follows
  <2>1. CASE CancelIfRunning(k)
    BY <2>1, <1>q DEF CancelIfRunning, table
  <2>2. CASE \E j \in JobId : RequestCancel(k, j)
    BY <2>2, CancelKeepsStatus
  <2>. QED
    BY <1>8, <2>1, <2>2
<1>9. CASE UNCHANGED vars
  BY <1>9, <1>q DEF vars, table
<1>. QED
  BY <1>1, <1>2, <1>3, <1>4, <1>5, <1>6, <1>7, <1>8, <1>9 DEF Next, WorkerStep

(* The service implements the abstract life cycle of a scan_jobs row: an id is  *)
(* used once, one row runs at a time, a finished row stays finished, and only a *)
(* restart removes it.                                                          *)
THEOREM JobsFollowLifecycle == Spec => RowsFollowLifecycle
<1>1. Init => Lifecycle!Init
  BY NoRowFact DEF Init, Lifecycle!Init
<1>2. IInv /\ [Next]_vars => [Lifecycle!Next]_<<StatusOf, 1..(nextId - 1)>>
  BY StepsFollow
<1>. QED
  BY <1>1, <1>2, IInvHolds, PTL DEF Spec, RowsFollowLifecycle, Lifecycle!Spec, StatusOf

-----------------------------------------------------------------------------
(* Deduplicated rows do not pile up.  What EnqueueUnique misses under its  *)
(* lock is at most the one row that runs; nobody else can insert a         *)
(* deduplicated row before it does, and a yield only puts that row back.   *)
Piled(r, t, l) == r.dedup /\ r.type = t /\ r.lib = l /\ r.status \in Pending

\* A table rows has at most one such row.
OnePiled(rows, t, l) == \A i, j \in JobId : Piled(rows[i], t, l) /\ Piled(rows[j], t, l) => i = j

InsertsInTurn ==
    \A c \in Caller : epc[c] = "insert" =>
        /\ mutex = c /\ ereq[c].dedup
        /\ OnePiled(row, ereq[c].type, ereq[c].lib)

NeverThree ==
    \A t \in JobType, l \in Lib : \A i, j, k \in JobId :
        Piled(row[i], t, l) /\ Piled(row[j], t, l) /\ Piled(row[k], t, l) =>
            i = j \/ i = k \/ j = k

PInv == InsertsInTurn /\ NeverThree

\* A row that is pending after the step was so before, as what it is.
NoNewRow == \A j \in JobId : \A t \in JobType, l \in Lib : Piled(row'[j], t, l) => Piled(row[j], t, l)

\* No caller begins to insert, and one that will keeps the lock.
NoNewInsert ==
    \A c \in Caller : epc'[c] = "insert" =>
        epc[c] = "insert" /\ ereq'[c] = ereq[c] /\ (mutex = c => mutex' = c)

LEMMA PileKeeps == ASSUME IInv, PInv, NoNewRow, NoNewInsert PROVE PInv'
<1>1. InsertsInTurn'
  <2>. SUFFICES ASSUME NEW c \in Caller, epc'[c] = "insert"
                PROVE  /\ mutex' = c /\ ereq'[c].dedup
                       /\ OnePiled(row', ereq'[c].type, ereq'[c].lib)
    BY DEF InsertsInTurn
  <2>1. epc[c] = "insert" /\ ereq'[c] = ereq[c] /\ (mutex = c => mutex' = c)
    BY DEF NoNewInsert
  <2>2. ereq[c].type \in JobType /\ ereq[c].lib \in Lib
    BY <2>1, TypesAssumption DEF IInv, CallerOwns
  <2>3. /\ mutex = c /\ ereq[c].dedup
        /\ OnePiled(row, ereq[c].type, ereq[c].lib)
    BY <2>1 DEF PInv, InsertsInTurn
  <2>4. \A i \in JobId : Piled(row'[i], ereq[c].type, ereq[c].lib) => Piled(row[i], ereq[c].type, ereq[c].lib)
    BY <2>2 DEF NoNewRow
  <2>5. mutex' = c
    BY <2>1, <2>3
  <2>6. ereq'[c].dedup
    BY <2>1, <2>3, Zenon
  <2>7. OnePiled(row', ereq[c].type, ereq[c].lib)
    BY <2>3, <2>4 DEF OnePiled
  <2>. QED
    <3>1. ereq'[c].type = ereq[c].type /\ ereq'[c].lib = ereq[c].lib
      BY <2>1
    <3>2. OnePiled(row', ereq'[c].type, ereq'[c].lib)
      BY <3>1, <2>7
    <3>. QED
      BY <2>5, <2>6, <3>2, Zenon
<1>2. NeverThree'
  BY DEF PInv, NeverThree, NoNewRow
<1>. QED
  BY <1>1, <1>2 DEF PInv

(* A status is written into a pending row, or is none of a pending row.    *)
LEMMA StatusNoNewRow ==
  ASSUME TypeOK, NEW j \in JobId, NEW s, row' = SetStatus(j, s),
         row[j].status \in Pending \/ s \notin Pending
  PROVE  NoNewRow
<1>1. \A i \in JobId \ {j} : row'[i] = row[i]
  BY DEF TypeOK, TableOK, SetStatus
<1>2. row'[j].status = s /\ row'[j].type = row[j].type /\ row'[j].lib = row[j].lib
      /\ row'[j].dedup = row[j].dedup
  BY DEF TypeOK, TableOK, SetStatus, Row
<1>. QED
  BY <1>1, <1>2 DEF NoNewRow, Piled

LEMMA PileInsert ==
  ASSUME IInv, PInv, NEW c \in Caller, NEW r \in Request, Insert(c, r),
         epc[c] \in {"idle", "insert"}, mutex' = mutex,
         \A d \in Caller \ {c} : ereq'[d] = ereq[d],
         r.dedup => epc[c] = "insert" /\ r = ereq[c]
  PROVE  PInv'
<1>1. /\ nextId \in JobId
      /\ row' = [row EXCEPT ![nextId] = [type |-> r.type, lib |-> r.lib, dedup |-> r.dedup,
                                       status |-> "queued", cancel |-> FALSE]]
      /\ epc' = [epc EXCEPT ![c] = "push"]
  BY DEF Insert
<1>2. /\ row'[nextId].type = r.type /\ row'[nextId].lib = r.lib /\ row'[nextId].dedup = r.dedup
      /\ \A j \in JobId \ {nextId} : row'[j] = row[j]
  BY <1>1 DEF IInv, TypeOK, TableOK
<1>3. epc'[c] = "push" /\ \A d \in Caller \ {c} : epc'[d] = epc[d]
  BY <1>1 DEF IInv, TypeOK, CallersOK
<1>4. NoNewInsert
  BY <1>3 DEF NoNewInsert
<1>5. CASE ~r.dedup
  <2>1. NoNewRow
    BY <1>2, <1>5 DEF NoNewRow, Piled
  <2>. QED
    BY <1>4, <2>1, PileKeeps
<1>6. CASE r.dedup
  <2>1. epc[c] = "insert" /\ r = ereq[c] /\ mutex = c
    BY <1>6 DEF PInv, InsertsInTurn
  <2>2. \A d \in Caller : epc'[d] # "insert"
    BY <1>3, <2>1 DEF PInv, InsertsInTurn
  <2>3. InsertsInTurn'
    BY <2>2 DEF InsertsInTurn
  <2>4. NeverThree'
    <3>. SUFFICES ASSUME NEW t \in JobType, NEW l \in Lib, NEW i \in JobId, NEW j \in JobId, NEW k \in JobId,
                         Piled(row'[i], t, l), Piled(row'[j], t, l), Piled(row'[k], t, l),
                         i # j, i # k, j # k
                  PROVE  FALSE
      BY DEF NeverThree
    <3>1. CASE nextId \notin {i, j, k}
      BY <1>2, <3>1 DEF PInv, NeverThree
    <3>2. CASE nextId \in {i, j, k}
      <4>1. t = r.type /\ l = r.lib
        BY <1>2, <3>2 DEF Piled
      <4>2. \A a, b \in JobId \ {nextId} : Piled(row'[a], t, l) /\ Piled(row'[b], t, l) => a = b
        BY <1>2, <2>1, <4>1 DEF PInv, InsertsInTurn, OnePiled
      <4>. QED
        BY <3>2, <4>2
    <3>. QED
      BY <3>1, <3>2
  <2>. QED
    BY <2>3, <2>4 DEF PInv
<1>. QED
  BY <1>5, <1>6

(* EnqueueUnique finds no queued row: what is pending of its type and      *)
(* library is what runs, which is one row.                                 *)
LEMMA PileMissed ==
  ASSUME IInv, PInv, NEW c \in Caller, NEW r \in Request, UniqueMissed(c, r)
  PROVE  PInv'
<1>1. /\ up /\ r.dedup /\ mutex = None /\ mutex' = c /\ row' = row
      /\ \A j \in JobId : ~QueuedRow(r.type, r.lib, j)
      /\ epc' = [epc EXCEPT ![c] = "insert"] /\ ereq' = [ereq EXCEPT ![c] = r]
  BY DEF UniqueMissed, table
<1>2. ereq'[c] = r /\ \A d \in Caller \ {c} : epc'[d] = epc[d]
  BY <1>1 DEF IInv, TypeOK, CallersOK
<1>3. \A d \in Caller : epc[d] # "insert"
  BY <1>1, NoneAssumption DEF PInv, InsertsInTurn
<1>4. \A i \in JobId : Piled(row[i], r.type, r.lib) => wjob = i
  BY <1>1 DEF IInv, NoStrandedJob, Piled, Pending, QueuedRow
<1>5. InsertsInTurn'
  <2>. SUFFICES ASSUME NEW d \in Caller, epc'[d] = "insert"
                PROVE  /\ mutex' = d /\ ereq'[d].dedup
                       /\ OnePiled(row', ereq'[d].type, ereq'[d].lib)
    BY DEF InsertsInTurn
  <2>1. d = c
    BY <1>2, <1>3
  <2>2. OnePiled(row', r.type, r.lib)
    BY <1>1, <1>4 DEF OnePiled
  <2>3. ereq'[d].dedup
    BY <1>1, <1>2, <2>1, Zenon
  <2>. QED
    <3>1. ereq'[d].type = r.type /\ ereq'[d].lib = r.lib /\ mutex' = d
      BY <1>1, <1>2, <2>1
    <3>2. OnePiled(row', ereq'[d].type, ereq'[d].lib)
      BY <3>1, <2>2
    <3>. QED
      BY <2>3, <3>1, <3>2, Zenon
<1>6. NeverThree'
  BY <1>1 DEF PInv, NeverThree
<1>. QED
  BY <1>5, <1>6 DEF PInv

LEMMA PileBoot == ASSUME IInv, PInv, Boot PROVE PInv'
<1>1. PICK old \in SUBSET {j \in JobId : row[j].status \in Terminal} :
         row' = [j \in JobId |->
                   IF j \in old THEN NoRow
                   ELSE IF row[j].status \in Pending
                        THEN [row[j] EXCEPT !.status = "canceled"]
                        ELSE row[j]]
  BY DEF Boot
<1>2. ASSUME NEW j \in JobId PROVE row'[j].status \notin Pending
  <2>1. row[j] \in Row
    BY DEF IInv, TypeOK, TableOK
  <2>2. CASE j \in old
    BY <1>1, <2>2, NoRowFact DEF Pending
  <2>3. CASE j \notin old /\ row[j].status \in Pending
    BY <1>1, <2>1, <2>3 DEF Pending, Row
  <2>4. CASE j \notin old /\ row[j].status \notin Pending
    BY <1>1, <2>4
  <2>. QED
    BY <2>2, <2>3, <2>4
<1>3. NoNewRow
  BY <1>2 DEF NoNewRow, Piled
<1>4. NoNewInsert
  BY DEF Boot, NoNewInsert, callers
<1>. QED
  BY <1>3, <1>4, PileKeeps

LEMMA PileWorker == ASSUME IInv, PInv, WorkerStep PROVE PInv'
<1>1. NoNewInsert
  BY DEF WorkerStep, Pop, CheckPopped, MarkRunning, RegisterCancel, RecheckCancel, StartExecutor, SweepItem,
         SweepYield, SweepEnd, ExecOk, ExecFail, Return, Settle, FinishJob, Requeue, RequeuePush,
         UnregisterCancel, callers, NoNewInsert
<1>2. CASE row' = row
  <2>1. NoNewRow
    BY <1>2 DEF NoNewRow
  <2>. QED
    BY <1>1, <2>1, PileKeeps
<1>3. CASE MarkRunning \/ FinishJob \/ Requeue
  <2>1. wpc # "idle" /\ \E s : row' = SetStatus(wjob, s) /\ (row[wjob].status \in Pending \/ s \notin Pending)
    BY <1>3 DEF MarkRunning, FinishJob, Requeue, IInv, WorkerOwns, Pending
  <2>2. wjob \in JobId
    BY <2>1, WorkerHasJob
  <2>3. NoNewRow
    BY <2>1, <2>2, StatusNoNewRow DEF IInv
  <2>. QED
    BY <1>1, <2>3, PileKeeps
<1>4. row' = row \/ MarkRunning \/ FinishJob \/ Requeue
  BY DEF WorkerStep, Pop, CheckPopped, RegisterCancel, RecheckCancel, StartExecutor, SweepItem,
         SweepYield, SweepEnd, ExecOk, ExecFail, Return, Settle, RequeuePush, UnregisterCancel, table
<1>. QED
  BY <1>2, <1>3, <1>4

LEMMA PileNext == ASSUME IInv, PInv, [Next]_vars PROVE PInv'
<1>1. ASSUME row' = row, NoNewInsert PROVE PInv'
  BY <1>1, PileKeeps DEF NoNewRow
<1>2. CASE Boot
  BY <1>2, PileBoot
<1>3. CASE Shutdown
  BY <1>3, <1>1 DEF Shutdown, table, callers, NoNewInsert
<1>4. CASE Crash
  <2>1. NoNewInsert
    BY <1>4 DEF Crash, NoNewInsert
  <2>. QED
    BY <1>4, <2>1, <1>1 DEF Crash, table
<1>5. CASE WorkerStep
  BY <1>5, PileWorker
<1>6. ASSUME NEW c \in Caller, EnqueueStart(c) \/ EnqueueStep(c) PROVE PInv'
  <2>c. /\ epc \in [Caller -> {"idle", "insert", "push", "refuse"}]
        /\ ereq \in [Caller -> Request \cup {NoReq}]
    BY DEF IInv, TypeOK, CallersOK
  <2>1. ASSUME NEW r \in Request, Enqueue(c, r) PROVE PInv'
    <3>1. Insert(c, r) /\ epc[c] = "idle" /\ ~r.dedup /\ mutex' = mutex
          /\ \A d \in Caller \ {c} : ereq'[d] = ereq[d]
      BY <2>c, <2>1 DEF Enqueue
    <3>. QED
      BY <3>1, PileInsert
  <2>2. ASSUME NEW r \in Request, UniqueFound(c, r) PROVE PInv'
    BY <2>2, <1>1 DEF UniqueFound, table, callers, NoNewInsert
  <2>3. ASSUME NEW r \in Request, UniqueMissed(c, r) PROVE PInv'
    BY <2>3, PileMissed
  <2>4. CASE UniqueInsert(c)
    <3>1. /\ epc[c] = "insert" /\ Insert(c, ereq[c]) /\ mutex' = mutex /\ ereq' = ereq
          /\ ereq[c] \in Request
      BY <2>4 DEF UniqueInsert, IInv, CallerOwns
    <3>. QED
      BY <3>1, PileInsert
  <2>5. ASSUME epc[c] # "insert", Released(c) PROVE NoNewInsert
    <3>1. epc'[c] = "idle" /\ \A d \in Caller \ {c} : epc'[d] = epc[d] /\ ereq'[d] = ereq[d]
      BY <2>5, <2>c DEF Released
    <3>. QED
      BY <2>5, <3>1 DEF NoNewInsert, Released
  <2>6. CASE Push(c)
    BY <2>5, <2>6, <1>1 DEF Push, table
  <2>7. CASE PushFull(c)
    <3>1. epc'[c] = "refuse" /\ \A d \in Caller \ {c} : epc'[d] = epc[d]
      BY <2>7, <2>c DEF PushFull
    <3>2. NoNewInsert
      BY <2>7, <3>1 DEF PushFull, NoNewInsert
    <3>. QED
      BY <2>7, <3>2, <1>1 DEF PushFull, table
  <2>8. CASE Refuse(c)
    <3>1. eid[c] \in JobId /\ row' = SetStatus(eid[c], "failed")
      BY <2>8 DEF Refuse, IInv, CallerOwns, HandedOver
    <3>2. NoNewRow
      BY <3>1, StatusNoNewRow DEF IInv, Pending
    <3>. QED
      BY <2>5, <2>8, <3>2, PileKeeps DEF Refuse
  <2>. QED
    BY <1>6, <2>1, <2>2, <2>3, <2>4, <2>6, <2>7, <2>8 DEF EnqueueStart, EnqueueStep
<1>7. ASSUME NEW k \in Canceller, CancelIfRunning(k) PROVE PInv'
  BY <1>7, <1>1 DEF CancelIfRunning, table, callers, NoNewInsert
<1>8. ASSUME NEW k \in Canceller, NEW j \in JobId, RequestCancel(k, j) PROVE PInv'
  <2>1. row' = [row EXCEPT ![j].cancel = TRUE] /\ UNCHANGED callers
    BY <1>8 DEF RequestCancel
  <2>2. \A i \in JobId : /\ row'[i].type = row[i].type /\ row'[i].lib = row[i].lib
                         /\ row'[i].dedup = row[i].dedup /\ row'[i].status = row[i].status
    BY <2>1 DEF IInv, TypeOK, TableOK, Row
  <2>3. NoNewRow
    BY <2>2 DEF NoNewRow, Piled
  <2>4. NoNewInsert
    BY <2>1 DEF NoNewInsert, callers
  <2>. QED
    BY <2>3, <2>4, PileKeeps
<1>9. CASE UNCHANGED vars
  BY <1>9, <1>1 DEF vars, table, callers, NoNewInsert
<1>. QED
  BY <1>2, <1>3, <1>4, <1>5, <1>6, <1>7, <1>8, <1>9 DEF Next

(* A set of which no three are different has two members at most. *)
LEMMA TwoAtMost ==
  ASSUME NEW S, \A i, j, k \in S : i = j \/ i = k \/ j = k
  PROVE  IsFiniteSet(S) /\ Cardinality(S) <= 2
<1>1. CASE S = {}
  BY <1>1, FS_EmptySet
<1>2. ASSUME NEW a \in S PROVE IsFiniteSet(S) /\ Cardinality(S) <= 2
  <2>1. PICK b \in S : S = {a, b}
    <3>1. CASE S = {a}
      BY <3>1
    <3>2. CASE S # {a}
      <4>1. PICK b \in S : b # a
        BY <1>2, <3>2
      <4>2. S = {a, b}
        BY <1>2, <4>1
      <4>. QED
        BY <4>2
    <3>. QED
      BY <3>1, <3>2
  <2>2. IsFiniteSet({a}) /\ Cardinality({a}) = 1
    BY FS_Singleton
  <2>3. S = {a} \cup {b}
    BY <2>1
  <2>. QED
    BY <2>2, <2>3, FS_AddElement
<1>. QED
  BY <1>1, <1>2

(* The rows that EnqueueUnique inserted for a type and a library never      *)
(* pile up past two, the one that runs and one that waits, however often a  *)
(* scan is triggered again and however often a sweep yields.                *)
THEOREM PileStaysBounded == Spec => []PileUpBounded
<1>1. Init => PInv
  <2>. SUFFICES ASSUME Init PROVE PInv
    OBVIOUS
  <2>1. \A j \in JobId : row[j].status \notin Pending
    BY NoRowFact DEF Init, Pending
  <2>2. \A c \in Caller : epc[c] # "insert"
    BY DEF Init
  <2>. QED
    BY <2>1, <2>2 DEF PInv, InsertsInTurn, OnePiled, NeverThree, Piled
<1>2. IInv /\ PInv /\ [Next]_vars => PInv'
  BY PileNext
<1>3. PInv => PileUpBounded
  <2>. SUFFICES ASSUME PInv, NEW t \in JobType, NEW l \in Lib
                PROVE  Cardinality({j \in JobId : /\ row[j].dedup /\ row[j].type = t /\ row[j].lib = l
                                                  /\ row[j].status \in Pending}) <= 2
    BY DEF PileUpBounded
  <2>. DEFINE S == {j \in JobId : /\ row[j].dedup /\ row[j].type = t /\ row[j].lib = l
                                  /\ row[j].status \in Pending}
  <2>1. \A i, j, k \in S : i = j \/ i = k \/ j = k
    BY DEF PInv, NeverThree, Piled
  <2>. QED
    BY <2>1, TwoAtMost
<1>. QED
  BY <1>1, <1>2, <1>3, IInvHolds, PTL DEF Spec
=============================================================================
