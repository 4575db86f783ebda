---------------------------- MODULE NoisePipeline ----------------------------
(***************************************************************************)
(* The processes of one noise session (cmd/hesplay/noise.go): runNoise,    *)
(* runNoiseHybrid and runNoiseFloor.  A preset's body and floor are        *)
(* rendered by sox, by ffmpeg in front of it for some colours, and played  *)
(* by the process that owns the device.  Opening a pipe and starting a     *)
(* process may fail at each step, the session may be cancelled, paused, or *)
(* lose any process at any time.                                           *)
(***************************************************************************)
EXTENDS Naturals, Sequences, FiniteSets

VARIABLES
    preset,   \* which layers need ffmpeg: [body, floor]
    at,       \* the next step of the script; beyond it the owner is waited for
    pc,       \* "script", "wait", "kill", "reap" or "returned"
    ends,     \* pipe ends the parent holds open
    started, alive, reaped,   \* processes
    frozen,   \* the owner of the device is stopped by a pause
    over,     \* the context is cancelled, or its time is up
    result    \* "none", "nil" or "error"

vars == <<preset, at, pc, ends, started, alive, reaped, frozen, over, result>>

Presets == [body : {"sox", "ffmpeg"}, floor : {"none", "sox", "ffmpeg"}]
Owner == "play"
Ends(p) == {<<p, "r">>, <<p, "w">>}

(* One stage: the pipe of its output, its generator, and its own process. *)
Stage(gen, shape, colour) ==
    IF colour = "ffmpeg"
    THEN << <<"pipe", shape>>, <<"pipe", gen>>, <<"start", gen>>, <<"start", shape>> >>
    ELSE << <<"pipe", shape>>, <<"start", shape>> >>

(* The steps of each topology, in the order of the code. *)
Script(p) ==
    (IF p.floor # "none"
     THEN Stage("bodygen", "body", p.body) \o Stage("floorgen", "floor", p.floor)
     ELSE IF p.body = "ffmpeg" THEN << <<"pipe", "bodygen">>, <<"start", "bodygen">> >>
     ELSE <<>>) \o << <<"start", Owner>> >>

Reads(p) ==
    CASE p = "body" /\ preset.body = "ffmpeg" -> {"bodygen"}
      [] p = "floor" /\ preset.floor = "ffmpeg" -> {"floorgen"}
      [] p = Owner /\ preset.floor # "none" -> {"body", "floor"}
      [] p = Owner /\ preset.floor = "none" /\ preset.body = "ffmpeg" -> {"bodygen"}
      [] OTHER -> {}

Init ==
    /\ preset \in Presets /\ at = 1 /\ pc = "script" /\ ends = {}
    /\ started = {} /\ alive = {} /\ reaped = {} /\ frozen = FALSE
    /\ over = FALSE /\ result = "none"

Does(what) == pc = "script" /\ Script(preset)[at][1] = what
Subject == Script(preset)[at][2]

OpenPipe ==
    /\ Does("pipe")
    /\ ends' = ends \cup Ends(Subject) /\ at' = at + 1
    /\ UNCHANGED <<preset, pc, started, alive, reaped, frozen, over, result>>

(* Mutated form: the parent keeps its copies of the ends it handed over. *)
StartKeepsEnds ==
    /\ Does("start") /\ ~over
    /\ started' = started \cup {Subject} /\ alive' = alive \cup {Subject}
    /\ at' = at + 1 /\ pc' = IF Subject = Owner THEN "wait" ELSE pc
    /\ UNCHANGED <<preset, ends, reaped, frozen, over, result>>

(* A process starts.  Once it and its generator hold their ends, the       *)
(* parent closes its copies: those it reads from, and the end it writes.   *)
Start ==
    /\ Does("start") /\ ~over
    /\ started' = started \cup {Subject} /\ alive' = alive \cup {Subject}
    /\ ends' = (ends \ UNION {Ends(q) : q \in Reads(Subject)})
               \ IF preset.floor # "none" /\ Subject \in {"body", "floor"}
                 THEN {<<Subject, "w">>} ELSE {}
    /\ at' = at + 1 /\ pc' = IF Subject = Owner THEN "wait" ELSE pc
    /\ UNCHANGED <<preset, reaped, frozen, over, result>>

(* Mutated form: the error path forgets the processes already running. *)
FailAndLeave ==
    /\ pc = "script"
    /\ ends' = {} /\ result' = "error" /\ pc' = "returned"
    /\ UNCHANGED <<preset, at, started, alive, reaped, frozen, over>>

(* A pipe cannot be opened or a process not started (a cancelled context   *)
(* starts none): every end opened so far is closed, what runs is killed.   *)
Fail ==
    /\ pc = "script"
    /\ ends' = {} /\ result' = "error" /\ pc' = "kill"
    /\ UNCHANGED <<preset, at, started, alive, reaped, frozen, over>>

(* The wait for the owner of the device ends with it. *)
Waited ==
    /\ pc = "wait" /\ Owner \notin alive
    /\ \E r \in {"nil", "error"} : (over => r = "nil") /\ result' = r
    /\ reaped' = reaped \cup {Owner} /\ pc' = "kill"
    /\ UNCHANGED <<preset, at, ends, started, alive, frozen, over>>

KillAll ==
    /\ pc = "kill" /\ alive' = {} /\ pc' = "reap"
    /\ UNCHANGED <<preset, at, ends, started, reaped, frozen, over, result>>

Reap ==
    /\ pc = "reap" /\ started \ reaped # {}
    /\ \E p \in started \ (reaped \cup alive) : reaped' = reaped \cup {p}
    /\ UNCHANGED <<preset, at, pc, ends, started, alive, frozen, over, result>>

Return ==
    /\ pc = "reap" /\ started = reaped /\ pc' = "returned"
    /\ UNCHANGED <<preset, at, ends, started, alive, reaped, frozen, over, result>>

-----------------------------------------------------------------------------
(* A process goes on its own: it fails, reads the end of its input, or     *)
(* writes to nobody.  A frozen one does nothing.                           *)
Quits(p) ==
    /\ p \in alive /\ ~(p = Owner /\ frozen)
    /\ alive' = alive \ {p}
    /\ UNCHANGED <<preset, at, pc, ends, started, reaped, frozen, over, result>>

(* The context ends and its kill reaches each running process. *)
Cancel ==
    /\ ~over /\ pc # "returned" /\ over' = TRUE
    /\ UNCHANGED <<preset, at, pc, ends, started, alive, reaped, frozen, result>>

Killed(p) ==
    /\ over /\ p \in alive /\ alive' = alive \ {p}
    /\ UNCHANGED <<preset, at, pc, ends, started, reaped, frozen, over, result>>

(* The remote's pause signals the owner of the device. *)
Freeze ==
    /\ pc = "wait" /\ Owner \in alive /\ frozen' = ~frozen
    /\ UNCHANGED <<preset, at, pc, ends, started, alive, reaped, over, result>>

Next ==
    \/ OpenPipe \/ Start \/ Fail \/ Waited \/ KillAll \/ Reap \/ Return
    \/ \E p \in started : Quits(p) \/ Killed(p)
    \/ Cancel \/ Freeze

Spec == Init /\ [][Next]_vars
-----------------------------------------------------------------------------
TypeOK ==
    /\ preset \in Presets /\ at \in 1 .. Len(Script(preset)) + 1
    /\ pc \in {"script", "wait", "kill", "reap", "returned"}
    /\ reaped \subseteq started /\ alive \subseteq started
    /\ frozen \in BOOLEAN /\ over \in BOOLEAN /\ result \in {"none", "nil", "error"}

(* A session leaves nothing behind: when it returns, whatever failed,      *)
(* every process it started is gone and reaped and no pipe end is open;    *)
(* and while the owner plays the parent holds no end of any pipe, so that  *)
(* the death of one process reaches its neighbours (noise.go:893).         *)
NothingLeftBehind ==
    /\ pc = "returned" => started = reaped /\ alive = {} /\ ends = {}
    /\ pc = "wait" => ends = {}
=============================================================================
