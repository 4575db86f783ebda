---------------------------- MODULE DisplayRevert ----------------------------
(***************************************************************************)
(* The display mode of the machine Hespera runs on                         *)
(* (web/handlers_display.go): a change is provisional until it is kept,    *)
(* and otherwise undone by a timer.  xrandr is called with no lock held, a *)
(* change is known by the mode it applies and by nothing else, and a       *)
(* restarted server applies the mode that was kept.                        *)
(***************************************************************************)
EXTENDS FiniteSets

CONSTANTS
    Modes,
    Asks,      \* requests to change the mode
    Screens    \* what a screen may offer: sets of modes, {} with none attached

VARIABLES
    offered,   \* modes of the attached screen
    screen,    \* the mode it is in, None if it shows nothing
    saved,     \* the display_mode setting, None or unusable
    pending,   \* displayPending: [applied, prev, timer], Nothing
    ask,       \* [at, mode, prev] of each request
    timers,    \* requests whose timer runs
    undo,      \* modes that reverts are about to put back
    boot,      \* the mode applySavedDisplayMode waits to apply, None
    expected,  \* history: the mode a person last had or kept
    crossed    \* history: something changed between the steps of a request

vars == <<offered, screen, saved, pending, ask, timers, undo, boot, expected, crossed>>

None == "none"
Nothing == [applied |-> None, prev |-> None, timer |-> None]
Fresh == [at |-> "new", mode |-> None, prev |-> None]

Init ==
    /\ offered \in Screens /\ screen \in offered \cup {None} /\ expected = screen
    /\ saved \in Modes \cup {None} /\ boot = saved
    /\ pending = Nothing /\ ask = [r \in Asks |-> Fresh]
    /\ timers = {} /\ undo = {} /\ crossed = FALSE

Under == \E r \in Asks : ask[r].at \in {"read", "set"}
Move(r, at) == ask' = [ask EXCEPT ![r].at = at]

-----------------------------------------------------------------------------
(* displayModeApply: the mode is offered and the present one is known.     *)
Ask(r, m) ==
    /\ ask[r].at = "new" /\ m \in offered /\ screen # None
    /\ ask' = [ask EXCEPT ![r] = [at |-> "read", mode |-> m, prev |-> screen]]
    /\ crossed' = (crossed \/ undo # {})
    /\ UNCHANGED <<offered, screen, saved, pending, timers, undo, boot, expected>>

(* Mutated form: a change takes the slot of one that waits. *)
FreeAlways == TRUE

Free == pending = Nothing

Claim(r) ==
    /\ ask[r].at = "read"
    /\ IF Free THEN Move(r, "set") /\ pending' = [applied |-> ask[r].mode, prev |-> ask[r].prev,
                                                  timer |-> None]
       ELSE Move(r, "done") /\ UNCHANGED pending
    /\ UNCHANGED <<offered, screen, saved, timers, undo, boot, expected, crossed>>

(* clearDisplayPending when xrandr refuses. *)
SetMode(r, ok) ==
    /\ ask[r].at = "set"
    /\ IF ok THEN ask[r].mode \in offered /\ screen' = ask[r].mode /\ Move(r, "arm") /\ UNCHANGED pending
       ELSE /\ pending' = IF pending.applied = ask[r].mode THEN Nothing ELSE pending
            /\ Move(r, "done") /\ UNCHANGED screen
    /\ UNCHANGED <<offered, saved, timers, undo, boot, expected, crossed>>
Arm(r) ==
    /\ ask[r].at = "arm" /\ Move(r, "done")
    /\ IF pending.applied = ask[r].mode
       THEN pending' = [pending EXCEPT !.timer = r] /\ timers' = timers \cup {r}
       ELSE UNCHANGED <<pending, timers>>
    /\ UNCHANGED <<offered, screen, saved, undo, boot, expected, crossed>>

(* displayModeConfirm: kept, and stored if the database takes it. *)
Keep(m) ==
    /\ pending.applied = m /\ pending' = Nothing /\ timers' = timers \ {pending.timer}
    /\ saved' \in {saved, m} /\ expected' = m /\ crossed' = (crossed \/ Under)
    /\ UNCHANGED <<offered, screen, ask, undo, boot>>

(* revertDisplayMode, asked for or by a timer, which nothing stopped.      *)
Revert(m) ==
    IF pending.applied = m
    THEN pending' = Nothing /\ undo' = undo \cup {pending.prev} /\ crossed' = (crossed \/ Under)
    ELSE UNCHANGED <<pending, undo, crossed>>
Decline(m) ==
    /\ pending.applied = m /\ Revert(m)
    /\ UNCHANGED <<offered, screen, saved, ask, timers, boot, expected>>
TimerFires(r) ==
    /\ r \in timers /\ timers' = timers \ {r} /\ Revert(ask[r].mode)
    /\ UNCHANGED <<offered, screen, saved, ask, boot, expected>>
Restore(m, ok) ==
    /\ m \in undo /\ undo' = undo \ {m}
    /\ ok => m \in offered
    /\ screen' = IF ok THEN m ELSE screen
    /\ crossed' = (crossed \/ ~ok \/ Under)
    /\ UNCHANGED <<offered, saved, pending, ask, timers, boot, expected>>

-----------------------------------------------------------------------------
(* applySavedDisplayMode, once a screen is attached; it looks at no slot.  *)
Boot(ok) ==
    /\ boot # None /\ offered # {} /\ boot' = None
    /\ IF ok /\ boot \in offered
       THEN screen' = boot /\ expected' = boot
            /\ crossed' = (crossed \/ Under \/ pending # Nothing \/ undo # {})
       ELSE UNCHANGED <<screen, expected, crossed>>
    /\ UNCHANGED <<offered, saved, pending, ask, timers, undo>>
BootGivesUp ==
    /\ boot # None /\ boot' = None
    /\ UNCHANGED <<offered, screen, saved, pending, ask, timers, undo, expected, crossed>>

(* Another screen is attached, or the server restarted. *)
Swap(S, m) ==
    /\ S # offered /\ offered' = S /\ screen' = m /\ expected' = m
    /\ crossed' = (crossed \/ Under \/ pending # Nothing \/ undo # {})
    /\ UNCHANGED <<saved, pending, ask, timers, undo, boot>>
Restart ==
    /\ crossed' = (crossed \/ Under \/ pending # Nothing \/ undo # {})
    /\ ask' = [r \in Asks |-> IF ask[r].at = "new" THEN ask[r] ELSE [ask[r] EXCEPT !.at = "done"]]
    /\ pending' = Nothing /\ timers' = {} /\ undo' = {} /\ boot' = saved
    /\ UNCHANGED <<offered, screen, saved, expected>>

Next ==
    \/ \E r \in Asks : Claim(r) \/ Arm(r) \/ TimerFires(r) \/ \E m \in Modes : Ask(r, m)
    \/ \E m \in Modes : Keep(m) \/ Decline(m)
    \/ \E ok \in BOOLEAN : \/ \E r \in Asks : SetMode(r, ok)
                           \/ \E m \in undo : Restore(m, ok)
                           \/ Boot(ok)
    \/ BootGivesUp \/ Restart
    \/ \E S \in Screens : \E m \in S \cup {None} : Swap(S, m)

Spec == Init /\ [][Next]_vars
-----------------------------------------------------------------------------
TypeOK ==
    /\ offered \in Screens /\ screen \in offered \cup {None} /\ undo \subseteq Modes
    /\ saved \in Modes \cup {None} /\ boot \in {saved, None} \cup Modes
    /\ pending.timer \in Asks => pending.timer \in timers

(* A mode nobody kept does not stay: once no change is provisional, being  *)
(* applied or being undone, the screen is in the mode a person last had or *)
(* kept, whatever timers still run - unless two requests, or a request and *)
(* a swap, a restart or a refused restore, crossed on the way.             *)
UnkeptIsUndone ==
    (~crossed /\ pending = Nothing /\ undo = {} /\ \A r \in Asks : ask[r].at # "set")
        => screen = expected
=============================================================================
