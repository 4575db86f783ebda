---------------------------- MODULE NoiseSchedule ----------------------------
(***************************************************************************)
(* The noise schedule of hesplay (cmd/hesplay/schedule.go) as operators:   *)
(* which window holds at a time, when its occurrence ends, and what the    *)
(* reconciler decides.  Time is a number of minutes of DayLen a day; day 0 *)
(* is a Sunday.  A window is [start, end, days], an empty days every day.  *)
(***************************************************************************)
EXTENDS Integers, Sequences, FiniteSetsExt

CONSTANT DayLen  \* minutes in a day

ASSUME DayAssumption == DayLen \in Nat \ {0}

\* A window that parses; activeWindow skips the others.
Window == [start : 0 .. DayLen - 1, end : 0 .. DayLen - 1, days : SUBSET (0 .. 6)]

Minute(t) == t % DayLen
Day(t) == t \div DayLen
Weekday(t) == Day(t) % 7
PrevWeekday(d) == (d + 6) % 7
DayAllowed(w, d) == w.days = {} \/ d \in w.days
Wraps(w) == w.start >= w.end

Contains(w, t) ==
    IF ~Wraps(w) THEN DayAllowed(w, Weekday(t)) /\ Minute(t) \in w.start .. w.end - 1
    ELSE \/ Minute(t) >= w.start /\ DayAllowed(w, Weekday(t))
         \/ Minute(t) < w.end /\ DayAllowed(w, PrevWeekday(Weekday(t)))

(* Mutated form: the end is always today's. *)
EndsToday(w, t) == Day(t) * DayLen + w.end

(* The end of the occurrence that contains t: tomorrow in the evening half. *)
EndsAt(w, t) ==
    (Day(t) + (IF Wraps(w) /\ Minute(t) >= w.start THEN 1 ELSE 0)) * DayLen + w.end

(* activeWindow: the first window of the schedule that contains t, or 0. *)
ActiveWindow(schedule, t) ==
    LET hits == {i \in DOMAIN schedule : Contains(schedule[i], t)}
    IN IF hits = {} THEN 0 ELSE Min(hits)

(* decideNoise: rt is what runs, [kind, scheduled, until]. *)
Decide(schedule, t, rt) ==
    LET active == ActiveWindow(schedule, t) # 0
    IN IF active /\ rt.kind = "none" /\ t >= rt.until THEN "start"
       ELSE IF ~active /\ rt.kind = "noise" /\ rt.scheduled THEN "stop"
       ELSE "leave"

-----------------------------------------------------------------------------
(* Reference: a window occurs once for each day it may start on, for at    *)
(* most one day; Lasts(w) minutes from its start.                          *)
Lasts(w) == w.end - w.start + (IF Wraps(w) THEN DayLen ELSE 0)
StartOn(w, d) == d * DayLen + w.start
Occurrence(w, d) == StartOn(w, d) .. StartOn(w, d) + Lasts(w) - 1
OccursAround(w, t) ==
    {d \in {Day(t) - 1, Day(t)} : DayAllowed(w, d % 7) /\ t \in Occurrence(w, d)}

(* The end of the occurrence that has noise scheduled at t, or 0. *)
ScheduledUntil(schedule, t) ==
    LET hits == {i \in DOMAIN schedule : OccursAround(schedule[i], t) # {}}
        w == schedule[Min(hits)]
    IN IF hits = {} THEN 0 ELSE StartOn(w, Max(OccursAround(w, t))) + Lasts(w)

(* A window holds exactly during its occurrences, and a latch taken at any *)
(* moment of one ends with that one: Contains and EndsAt agree with the    *)
(* reference at t.                                                         *)
ScheduleFollowsOccurrences(w, t) ==
    LET around == OccursAround(w, t)
    IN /\ Contains(w, t) <=> around # {}
       /\ \A d \in around : EndsAt(w, t) = StartOn(w, d) + Lasts(w)
=============================================================================
