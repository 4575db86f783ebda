---------------------------- MODULE PlayerSession ----------------------------
(***************************************************************************)
(* The audio slot of hesplay (cmd/hesplay: control.go, main.go, noise.go,  *)
(* schedule.go).  Requests of the remote and the schedule's reconciler     *)
(* replace what plays: stop() takes the session out of the slot and waits  *)
(* for its loop, then the new session is installed under a new generation. *)
(* A queue's loop runs one engine process per track and publishes what it  *)
(* plays; a noise session is one process.  Loops end late, engines end,    *)
(* fail and stall, and transport actions and pauses arrive at any time.    *)
(***************************************************************************)
EXTENDS NoiseSchedule, FiniteSets

CONSTANTS
    Request,     \* requests of the remote, one at a time each
    Reconciler,  \* the goroutine of watchNoiseSchedule
    Schedule,    \* the configured windows
    QueueLen,    \* tracks in a queue
    FailLimit,   \* instant failures in a row that end a queue
    MaxSession,  \* bound on sessions
    MaxTime      \* bound on the clock

ASSUME ActorAssumption == Reconciler \notin Request
ASSUME ScheduleAssumption == Schedule \in Seq(Window)
ASSUME BoundAssumption == /\ QueueLen \in Nat \ {0} /\ FailLimit \in Nat \ {0} /\ MaxSession \in Nat
                          /\ MaxTime \in Nat

VARIABLES
    now,        \* the clock, in minutes
    latch,      \* noiseLatchUntil
    gen,        \* the newest session
    slot,       \* cancel/done, actions, kind and noiseScheduled of the controller
    shown,      \* state: session and track published, <<0, 0>> when idle
    tracks,     \* the session whose list is published, 0 for none
    seam,       \* noisePause: the session it signals, 0 for none
    paused,     \* the flag shared with the loops
    ses,        \* each session: its loop, its channel and its engine
    apc, arg, waits,   \* where each actor is, what it installs, whom it waits for
    overlapped, \* history: two actors were replacing the session at once
    raced,      \* history: since this track or session began, a pause request met
                \* a change of engine or another pause
    hush        \* history: until when the noise a human stopped was scheduled

control == <<gen, slot, shown, tracks, seam>>
actor == <<apc, arg, waits, overlapped>>
latched == <<latch, hush>>
vars == <<now, latched, control, paused, ses, actor, raced>>

Actor == Request \cup {Reconciler}
Session == 1 .. MaxSession
Idle == <<0, 0>>
EmptySlot == [cur |-> 0, actions |-> 0, kind |-> "none", scheduled |-> FALSE]
NoSession == [kind |-> "none", loop |-> "none", at |-> 0, cancelled |-> FALSE,
              pending |-> "none", engine |-> "off", still |-> FALSE, quick |-> 0]
NoArg == [op |-> "none", at |-> 0, scheduled |-> FALSE, until |-> 0]
Queue(n) == [NoArg EXCEPT !.op = "queue", !.at = n]
Noise(scheduled) == [NoArg EXCEPT !.op = "noise", !.at = 1, !.scheduled = scheduled]
Nothing(until) == [NoArg EXCEPT !.op = "stop", !.until = until]
Playing(s) == ses[s].engine = "playing"
At(s, l) == s \in Session /\ ses[s].loop = l
Replacing == {a \in Actor : apc[a] \in {"latch", "take", "wait", "install", "clear"}}
PauseStep == {"flag", "ask", "signal", "store"}
Pausing == \E r \in Request : apc[r] \in PauseStep

Init ==
    /\ now = 0 /\ latch = 0 /\ gen = 0 /\ slot = EmptySlot /\ shown = Idle
    /\ tracks = 0 /\ seam = 0 /\ paused = FALSE
    /\ ses = [s \in Session |-> NoSession]
    /\ apc = [a \in Actor |-> "idle"] /\ arg = [a \in Actor |-> NoArg]
    /\ waits = [a \in Actor |-> 0]
    /\ overlapped = FALSE /\ raced = FALSE /\ hush = 0

-----------------------------------------------------------------------------
(* An actor begins to replace the session: with a queue from track `at`,   *)
(* with noise, or with nothing.                                            *)
Room == gen + Cardinality({a \in Replacing : arg[a].op \in {"queue", "noise"}}) < MaxSession
Begin(a, step, what) ==
    /\ apc[a] = "idle" /\ (what.op = "stop" \/ Room)
    /\ apc' = [apc EXCEPT ![a] = step] /\ arg' = [arg EXCEPT ![a] = what]
    /\ overlapped' = (overlapped \/ Replacing # {})
    /\ UNCHANGED <<now, control, paused, ses, waits, raced>>

(* handlePlay: the queue has been fetched, start() replaces the session. *)
Play(r) == Begin(r, "take", Queue(1)) /\ UNCHANGED latched

(* handleJump: the published list again, from track n. *)
Jump(r, n) ==
    /\ tracks # 0
    /\ Begin(r, "take", Queue(n)) /\ UNCHANGED latched

(* handleNoiseStart: clears the latch, as nobody's schedule. *)
NoiseStart(r) == Begin(r, "take", Noise(FALSE)) /\ latch' = 0 /\ hush' = 0

(* handleStop, stopByHuman: noise stopped inside a window latches it. *)
Stop(r) ==
    LET w == ActiveWindow(Schedule, now)
        until == IF slot.kind = "noise" /\ w # 0 THEN EndsAt(Schedule[w], now) ELSE 0
    IN /\ Begin(r, IF until = 0 THEN "take" ELSE "latch",
                Nothing(until))
       /\ hush' = IF slot.kind = "noise" THEN ScheduledUntil(Schedule, now) ELSE hush
       /\ UNCHANGED latch

Latch(r) ==
    /\ apc[r] = "latch" /\ latch' = arg[r].until /\ apc' = [apc EXCEPT ![r] = "take"]
    /\ UNCHANGED <<now, hush, control, paused, ses, arg, waits, overlapped, raced>>

(* reconcileNoise: decides from a snapshot of the slot. *)
Reconcile ==
    LET does == Decide(Schedule, now, [kind |-> slot.kind, scheduled |-> slot.scheduled,
                                       until |-> latch])
    IN /\ \/ /\ does = "start"
             /\ Begin(Reconciler, "take", Noise(TRUE))
          \/ /\ does = "stop"
             /\ Begin(Reconciler, "take", Nothing(0))
       /\ UNCHANGED latched

After(a) ==
    IF arg[a].op # "stop" THEN "install" ELSE IF a \in Request THEN "clear" ELSE "idle"
Proceeds(a, step) ==
    /\ apc' = [apc EXCEPT ![a] = step]
    /\ arg' = IF step = "idle" THEN [arg EXCEPT ![a] = NoArg] ELSE arg

(* Mutated form: stop() does not wait for the loop it cancelled. *)
TakeAndGo(a) ==
    /\ apc[a] = "take"
    /\ slot' = EmptySlot /\ seam' = 0
    /\ ses' = [s \in Session |-> IF s = slot.cur THEN [ses[s] EXCEPT !.cancelled = TRUE]
                                 ELSE ses[s]]
    /\ Proceeds(a, After(a))
    /\ UNCHANGED <<now, latched, gen, shown, tracks, paused, waits, overlapped, raced>>

(* stop(): the session leaves the slot and is cancelled; its loop is       *)
(* waited for.  An empty slot is not waited for, whoever emptied it.       *)
Take(a) ==
    /\ apc[a] = "take"
    /\ slot' = EmptySlot /\ seam' = 0
    /\ ses' = [s \in Session |-> IF s = slot.cur THEN [ses[s] EXCEPT !.cancelled = TRUE]
                                 ELSE ses[s]]
    /\ waits' = [waits EXCEPT ![a] = slot.cur]
    /\ Proceeds(a, IF slot.cur = 0 THEN After(a) ELSE "wait")
    /\ UNCHANGED <<now, latched, gen, shown, tracks, paused, overlapped, raced>>

Wait(a) ==
    /\ apc[a] = "wait" /\ ses[waits[a]].loop = "closed"
    /\ Proceeds(a, After(a)) /\ waits' = [waits EXCEPT ![a] = 0]
    /\ UNCHANGED <<now, latched, control, paused, ses, overlapped, raced>>

(* start() and startNoise() under the lock, and the loop's goroutine. *)
Install(a) ==
    LET s == gen + 1
        queue == arg[a].op = "queue"
    IN /\ apc[a] = "install"
       /\ paused' = FALSE /\ gen' = s
       /\ slot' = [cur |-> s, actions |-> IF queue THEN s ELSE 0, kind |-> arg[a].op,
                   scheduled |-> IF queue THEN slot.scheduled ELSE arg[a].scheduled]
       /\ IF queue THEN UNCHANGED <<shown, tracks>>
          ELSE shown' = <<s, 1>> /\ tracks' = 0
       /\ ses' = [ses EXCEPT ![s] = [NoSession EXCEPT !.kind = arg[a].op, !.loop = "begin",
                                                      !.at = arg[a].at]]
       /\ Proceeds(a, "idle") /\ raced' = Pausing
       /\ UNCHANGED <<now, latched, seam, waits, overlapped>>

(* handleStop's own setState, after stop(). *)
Clear(r) ==
    /\ apc[r] = "clear" /\ shown' = Idle
    /\ Proceeds(r, "idle")
    /\ UNCHANGED <<now, latched, gen, slot, tracks, seam, paused, ses, waits, overlapped, raced>>

-----------------------------------------------------------------------------
(* send(): one action may be pending in the session's channel. *)
Send(r, act) ==
    /\ apc[r] = "idle" /\ slot.actions # 0 /\ ses[slot.actions].pending = "none"
    /\ ses' = [ses EXCEPT ![slot.actions].pending = act]
    /\ UNCHANGED <<now, latched, control, paused, actor, raced>>

(* handlePause reads what plays under the lock, and the flag it toggles; it *)
(* acts on that without the lock.  A queue's flag is set before its engine *)
(* is asked, noise is signalled before its flag is set.                    *)
Asks(r, step, session, track) ==
    /\ apc[r] = "idle"
    /\ apc' = [apc EXCEPT ![r] = step]
    /\ \E op \in {"pause", "resume"} :
          arg' = [arg EXCEPT ![r] = [NoArg EXCEPT !.op = op, !.at = track, !.until = session]]
    /\ raced' = (raced \/ Pausing)
    /\ UNCHANGED <<now, latched, control, paused, ses, waits, overlapped>>
Wants(r) == arg[r].op = "pause"

Pause(r) ==
    /\ slot.kind = "queue" /\ shown # Idle /\ ses[shown[1]].kind = "queue"
    /\ Asks(r, "flag", shown[1], shown[2])

PauseFlag(r) ==
    /\ apc[r] = "flag" /\ paused' = Wants(r)
    /\ Proceeds(r, "ask")
    /\ UNCHANGED <<now, latched, control, ses, waits, overlapped, raced>>

(* ipcSetPause: the socket is named after the track, so an engine that was *)
(* restarted answers in its place; no engine is an error, taken back.      *)
PauseAnswered(r) ==
    LET hears == {s \in Session : Playing(s) /\ ses[s].kind = "queue" /\ ses[s].at = arg[r].at}
    IN /\ apc[r] = "ask"
       /\ IF hears = {} THEN paused' = ~Wants(r) /\ UNCHANGED ses
          ELSE \E s \in hears : ses' = [ses EXCEPT ![s].still = Wants(r)] /\ UNCHANGED paused
       /\ Proceeds(r, "idle")
       /\ raced' = (raced \/ hears = {})
       /\ UNCHANGED <<now, latched, control, waits, overlapped>>

PauseNoise(r) ==
    /\ slot.kind = "noise" /\ seam # 0
    /\ Asks(r, "signal", seam, 1)

(* The signal reaches the process the seam was made for, or fails once it  *)
(* is reaped; one that has ended and is not reaped takes it either way.    *)
PauseSignal(r) ==
    LET s == arg[r].until
    IN /\ apc[r] = "signal"
       /\ \/ Playing(s) /\ ses' = [ses EXCEPT ![s].still = Wants(r)] /\ Proceeds(r, "store")
          \/ ~Playing(s) /\ At(s, "await") /\ UNCHANGED ses /\ Proceeds(r, "store")
          \/ ~Playing(s) /\ UNCHANGED ses /\ Proceeds(r, "idle")
       /\ UNCHANGED <<now, latched, control, paused, waits, overlapped, raced>>

(* The flag follows, whichever session it belongs to by then. *)
PauseStored(r) ==
    /\ apc[r] = "store" /\ paused' = Wants(r)
    /\ Proceeds(r, "idle")
    /\ UNCHANGED <<now, latched, control, ses, waits, overlapped, raced>>

-----------------------------------------------------------------------------
(* The loop of a session: a step leads from one loop state to the next.    *)
Goes(s, l) == [ses EXCEPT ![s].loop = l]
Quiet == UNCHANGED <<now, latched, gen, slot, seam, actor>>
Meets(s) == raced' = (raced \/ Pausing)

(* playQueue publishes its list once. *)
Announce(s) ==
    /\ At(s, "begin") /\ ses[s].kind = "queue"
    /\ tracks' = s /\ ses' = Goes(s, "top")
    /\ Quiet /\ UNCHANGED <<shown, paused, raced>>

(* Mutated form: a new track leaves the paused flag as it was. *)
TopKeepsPause(s) ==
    /\ At(s, "top")
    /\ IF ses[s].cancelled \/ ses[s].at > QueueLen
       THEN ses' = Goes(s, "unlist") /\ UNCHANGED shown
       ELSE ses' = Goes(s, "start") /\ shown' = <<s, ses[s].at>>
    /\ raced' = Pausing /\ Quiet /\ UNCHANGED <<tracks, paused>>

(* The head of the loop: the queue is over, or its next track is shown. *)
Top(s) ==
    /\ At(s, "top")
    /\ IF ses[s].cancelled \/ ses[s].at > QueueLen
       THEN ses' = Goes(s, "unlist") /\ UNCHANGED <<shown, paused>>
       ELSE ses' = Goes(s, "start") /\ shown' = <<s, ses[s].at>> /\ paused' = FALSE
    /\ raced' = Pausing /\ Quiet /\ UNCHANGED tracks

(* cmd.Start: an engine, or none when the context is over or it fails. *)
StartTrack(s) ==
    /\ At(s, "start")
    /\ \E e \in {"playing", "unstarted"} :
          /\ ses[s].cancelled => e = "unstarted"
          /\ ses' = [ses EXCEPT ![s].loop = "await", ![s].engine = e, ![s].still = FALSE]
    /\ Meets(s) /\ Quiet /\ UNCHANGED <<shown, tracks, paused>>

(* runNoise: the process starts and hands over the pause, if it is still   *)
(* the newest session's.                                                   *)
StartNoise(s) ==
    /\ At(s, "begin") /\ ses[s].kind = "noise"
    /\ \/ /\ ~ses[s].cancelled
          /\ ses' = [ses EXCEPT ![s].loop = "await", ![s].engine = "playing"]
          /\ seam' = IF gen = s THEN s ELSE seam
       \/ ses' = Goes(s, "retire") /\ UNCHANGED seam
    /\ UNCHANGED <<now, latched, gen, slot, shown, tracks, paused, actor, raced>>

(* The engine ends, or fails, by itself. *)
EngineEnds(s) ==
    /\ At(s, "await") /\ Playing(s)
    /\ \E e \in {"ended", "failed"} : ses' = [ses EXCEPT ![s].engine = e]
    /\ Meets(s) /\ Quiet /\ UNCHANGED <<shown, tracks, paused>>

(* watchStall: no progress for the timeout while the flag is down. *)
Stalls(s) ==
    /\ At(s, "await") /\ Playing(s) /\ ses[s].kind = "queue" /\ ~paused
    /\ ses' = [ses EXCEPT ![s].engine = "stalled"]
    /\ Meets(s) /\ Quiet /\ UNCHANGED <<shown, tracks, paused>>

(* Mutated form: instant failures are counted, and never end the queue. *)
OnwardForever(s, n, quick) ==
    ses' = [ses EXCEPT ![s].loop = "top", ![s].at = n,
                       ![s].engine = "off", ![s].still = FALSE, ![s].quick = quick]

(* The engine is gone and reaped; the loop goes on at track n. *)
Onward(s, n, quick) ==
    ses' = [ses EXCEPT ![s].loop = IF quick = FailLimit THEN "unlist" ELSE "top", ![s].at = n,
                       ![s].engine = "off", ![s].still = FALSE, ![s].quick = quick % FailLimit]

(* awaitTrack: the engine finished.  FailLimit instant failures in a row end   *)
(* the queue; a stall or a real play starts the count again.               *)
TrackOver(s) ==
    /\ At(s, "await") /\ ses[s].kind = "queue"
    /\ ses[s].engine \in {"ended", "failed", "unstarted", "stalled"}
    /\ \E quick \in {0, ses[s].quick + 1} :
          /\ quick # 0 => ses[s].engine \in {"failed", "unstarted"} /\ ~ses[s].cancelled
          /\ quick = 0 => ses[s].engine # "unstarted" \/ ses[s].cancelled
          /\ IF ses[s].cancelled /\ ses[s].engine # "stalled"
             THEN ses' = [ses EXCEPT ![s].loop = "unlist", ![s].engine = "off"]
             ELSE Onward(s, ses[s].at + 1, quick)
    /\ Meets(s) /\ Quiet /\ UNCHANGED <<shown, tracks, paused>>

(* awaitTrack: an action kills the engine.  prev restarts a track played   *)
(* for a while, and the first one.                                         *)
ActionTaken(s) ==
    /\ At(s, "await") /\ ses[s].kind = "queue" /\ ses[s].pending # "none"
    /\ ses[s].engine # "unstarted"
    /\ \E n \in IF ses[s].pending = "next" \/ ses[s].engine = "stalled" THEN {ses[s].at + 1}
                ELSE {ses[s].at, IF ses[s].at > 1 THEN ses[s].at - 1 ELSE 1} :
          ses' = [ses EXCEPT ![s].loop = "top", ![s].at = n, ![s].engine = "off",
                             ![s].still = FALSE, ![s].quick = 0, ![s].pending = "none"]
    /\ Meets(s) /\ Quiet /\ UNCHANGED <<shown, tracks, paused>>

(* awaitTrack, runNoise: the context is cancelled; the engine is killed    *)
(* and reaped.                                                             *)
Killed(s) ==
    /\ At(s, "await") /\ ses[s].cancelled /\ ses[s].engine # "unstarted"
    /\ ses' = [ses EXCEPT ![s].engine = "off", ![s].still = FALSE,
                          ![s].loop = IF ses[s].kind = "queue" THEN "unlist" ELSE "retire"]
    /\ Meets(s) /\ Quiet /\ UNCHANGED <<shown, tracks, paused>>

NoiseOver(s) ==
    /\ At(s, "await") /\ ses[s].kind = "noise" /\ ses[s].engine \in {"ended", "failed"}
    /\ ses' = [ses EXCEPT ![s].loop = "retire", ![s].engine = "off"]
    /\ Quiet /\ UNCHANGED <<shown, tracks, paused, raced>>

(* The deferred publications of playQueue: no list, then idle. *)
Unlist(s) ==
    /\ At(s, "unlist") /\ tracks' = 0 /\ ses' = Goes(s, "unshow")
    /\ Quiet /\ UNCHANGED <<shown, paused, raced>>
Unshow(s) ==
    /\ At(s, "unshow") /\ shown' = Idle /\ ses' = Goes(s, "retire")
    /\ Quiet /\ UNCHANGED <<tracks, paused, raced>>

(* Mutated form: retire without the generation check. *)
RetireAny(s) ==
    /\ At(s, "retire")
    /\ slot' = EmptySlot /\ seam' = 0 /\ shown' = Idle /\ tracks' = 0 /\ paused' = FALSE
    /\ ses' = Goes(s, "close")
    /\ UNCHANGED <<now, latched, gen, actor, raced>>

(* retire: the newest session clears the controller, a replaced one leaves *)
(* it to its successor.                                                    *)
Retire(s) ==
    /\ At(s, "retire")
    /\ IF gen = s
       THEN slot' = EmptySlot /\ seam' = 0 /\ shown' = Idle /\ tracks' = 0 /\ paused' = FALSE
       ELSE UNCHANGED <<slot, seam, shown, tracks, paused>>
    /\ ses' = Goes(s, "close")
    /\ UNCHANGED <<now, latched, gen, actor, raced>>

Close(s) ==
    /\ At(s, "close") /\ ses' = [ses EXCEPT ![s].loop = "closed", ![s].cancelled = TRUE]
    /\ Quiet /\ UNCHANGED <<shown, tracks, paused, raced>>

Tick ==
    /\ now < MaxTime /\ now' = now + 1
    /\ UNCHANGED <<latched, control, paused, ses, actor, raced>>

Next ==
    \/ \E r \in Request :
          \/ Play(r) \/ NoiseStart(r) \/ Stop(r) \/ Latch(r) \/ Clear(r)
          \/ \E n \in 1 .. QueueLen : Jump(r, n)
          \/ \E act \in {"next", "prev"} : Send(r, act)
          \/ Pause(r) \/ PauseFlag(r) \/ PauseAnswered(r)
          \/ PauseNoise(r) \/ PauseSignal(r) \/ PauseStored(r)
    \/ Reconcile
    \/ \E a \in Actor : Take(a) \/ Wait(a) \/ Install(a)
    \/ \E s \in Session :
          \/ Announce(s) \/ Top(s) \/ StartTrack(s) \/ StartNoise(s) \/ EngineEnds(s)
          \/ Stalls(s) \/ TrackOver(s) \/ ActionTaken(s) \/ Killed(s) \/ NoiseOver(s)
          \/ Unlist(s) \/ Unshow(s) \/ Retire(s) \/ Close(s)
    \/ Tick

Spec == Init /\ [][Next]_vars
-----------------------------------------------------------------------------
SessionRecord ==
    [kind : {"none", "queue", "noise"}, at : 0 .. QueueLen + 1, cancelled : BOOLEAN,
     loop : {"none", "begin", "top", "start", "await", "unlist", "unshow", "retire",
             "close", "closed"},
     pending : {"none", "next", "prev"}, still : BOOLEAN, quick : 0 .. FailLimit - 1,
     engine : {"off", "playing", "ended", "failed", "unstarted", "stalled"}]

(* Every variable keeps its type, and sessions are handed out in order.    *)
TypeOK ==
    /\ now \in 0 .. MaxTime /\ latch \in Nat /\ hush \in Nat /\ gen \in 0 .. MaxSession
    /\ slot \in [cur : 0 .. gen, actions : 0 .. gen, kind : {"none", "queue", "noise"},
                 scheduled : BOOLEAN]
    /\ shown \in (0 .. gen) \X (0 .. QueueLen) /\ tracks \in 0 .. gen
    /\ seam \in 0 .. gen /\ paused \in BOOLEAN
    /\ ses \in [Session -> SessionRecord]
    /\ \A s \in Session : s > gen <=> ses[s] = NoSession
    /\ apc \in [Actor -> {"idle", "latch", "take", "wait", "install", "clear"} \cup PauseStep]
    /\ waits \in [Actor -> 0 .. gen] /\ overlapped \in BOOLEAN /\ raced \in BOOLEAN

(* Two engines never hold the audio device at once.  start() promises it   *)
(* (control.go:363), and stop() cancels and waits for that.                *)
NeverTwoEngines == Cardinality({s \in Session : Playing(s)}) <= 1

(* It holds as long as no two actors replace the session at the same time. *)
OneEngineWhenSerial == ~overlapped => NeverTwoEngines

(* Noise a human stopped in a window stays off for the rest of that        *)
(* window (schedule.go:58), whatever plays and ends in between and however *)
(* late the loops and the schedule run, unless a human asks for noise.     *)
LatchHolds ==
    ~overlapped /\ Replacing = {} =>
        ~(slot.kind = "noise" /\ slot.scheduled /\ now < hush)

(* Between two requests the remote tells the truth: an idle slot is        *)
(* silent, a busy one shows the track its engine plays, and the pause it   *)
(* shows is the engine's, from the start of each track and session until a *)
(* pause still on its way meets a change of engine, whose flag it may then *)
(* set, or another pause: two of those may reach the flag in one order and *)
(* the engine in the other.                                                *)
RemoteTellsTruth ==
    ~overlapped /\ Replacing = {} =>
        /\ slot.kind = "none" =>
              shown = Idle /\ tracks = 0 /\ \A s \in Session : ~Playing(s)
        /\ slot.kind # "none" /\ At(gen, "await") => shown = <<gen, ses[gen].at>>
        /\ ~raced /\ ~Pausing =>
              \A s \in Session : Playing(s) => ses[s].still = paused

(* However requests, the schedule and ending loops interleave, the newest  *)
(* session is in the slot until it is cancelled or has ended: the next     *)
(* stop reaches it.  A loop that ends late must not clear its successor.   *)
NewestIsReachable ==
    gen # 0 /\ ~ses[gen].cancelled /\ ses[gen].loop # "close" => slot.cur = gen
=============================================================================
