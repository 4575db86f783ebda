------------------------- MODULE PlayerSessionProofs -------------------------
(***************************************************************************)
(* Proofs about the audio slot of hesplay, for any number of requests, any *)
(* schedule and any length of queue, and about the schedule's arithmetic   *)
(* for every window and every time.  The clauses of IInv are about the     *)
(* actors, the newest session, and, while nobody has replaced a session at *)
(* the same time as somebody else, the hand-over from one session to the   *)
(* next.                                                                   *)
(***************************************************************************)
EXTENDS PlayerSession, FiniteSetTheorems, WellFoundedInduction, TLAPS

(* What an actor is about to do. *)
Argument == [op : {"none", "queue", "noise", "stop", "pause", "resume"}, at : 0 .. QueueLen,
             scheduled : BOOLEAN, until : Nat]

ActorsOK ==
    /\ arg \in [Actor -> Argument]
    /\ \A a \in Actor :
          /\ apc[a] \in {"take", "wait"} => arg[a].op \in {"queue", "noise", "stop"}
          /\ apc[a] = "install" => arg[a].op \in {"queue", "noise"}
          /\ apc[a] \in {"latch", "clear"} => a \in Request /\ arg[a].op = "stop"
          /\ apc[a] \in PauseStep => a \in Request /\ arg[a].op \in {"pause", "resume"}
          /\ apc[a] = "signal" => arg[a].until \in Session
          /\ arg[a].op = "noise" => arg[a].at = 1
          /\ arg[a].scheduled => a = Reconciler

(* Room has kept a session for each actor that will install one. *)
Installing == {a \in Replacing : arg[a].op \in {"queue", "noise"}}
RoomKept == IsFiniteSet(Installing) /\ gen + Cardinality(Installing) <= MaxSession

(* An engine plays only in its loop's wait, a track of the queue. *)
LoopsOK ==
    \A s \in Session :
        /\ s <= gen => ses[s].loop # "none"
        /\ Playing(s) => ses[s].loop = "await"
        /\ ses[s].loop \in {"begin", "start", "await"} => ses[s].at <= QueueLen
        /\ ses[s].loop = "begin" => ~ses[s].still

(* The slot holds the newest session or none. *)
SlotOK ==
    /\ slot.cur \in {0, gen} /\ (slot.cur = 0 <=> slot.kind = "none")
    /\ slot.kind # "none" => slot.kind = ses[gen].kind

Over(s) == s # 0 => ses[s].loop \in {"close", "closed"}

(* One hand-over at a time: the older sessions are over, the newest is over *)
(* before its successor is installed, and whoever cancelled it waits.      *)
HandOver ==
    ~overlapped =>
        /\ \A a, b \in Replacing : a = b
        /\ \A s \in Session : s < gen => Over(s)
        /\ \A a \in Actor : apc[a] \in {"install", "clear"} => Over(gen)
        /\ \A a \in Actor : apc[a] = "wait" => waits[a] = gen
        /\ gen # 0 /\ ses[gen].cancelled /\ ~Over(gen) =>
              \E a \in Actor : apc[a] = "wait" /\ waits[a] = gen

(* What the newest session has published. *)
Announced(s) ==
    \/ ses[s].loop \in {"start", "await"}
    \/ ses[s].loop = "begin" /\ ses[s].kind = "noise"
Published ==
    ~overlapped =>
        /\ Over(gen) => shown = Idle /\ tracks = 0
        /\ gen # 0 /\ Announced(gen) => shown = <<gen, ses[gen].at>>

(* The pause flag is the engine's, or a request still has to make it so:   *)
(* one that has set a queue's flag and not asked its engine yet, or has    *)
(* signalled noise and not set the flag.                                   *)
InSync ==
    /\ Playing(gen) => ses[gen].still = paused
    /\ ses[gen].loop = "start" => ~paused
    /\ ses[gen].loop = "begin" /\ ses[gen].kind = "noise" => ~paused
HalfDone == \E r \in Request : apc[r] \in {"ask", "store"}
Carries(r) ==
    /\ apc[r] \in PauseStep => gen # 0
    /\ apc[r] \in {"flag", "ask"} => ses[gen].kind = "queue"
    /\ apc[r] \in {"signal", "store"} => ses[gen].kind = "noise"
    /\ apc[r] = "ask" /\ Playing(gen) => paused = Wants(r)
    /\ apc[r] = "store" => /\ ses[gen].loop \notin {"begin", "start"}
                           /\ Playing(gen) => ses[gen].still = Wants(r)
OnePause == \A r, q \in Request : apc[r] \in PauseStep /\ apc[q] \in PauseStep => r = q
PauseKept ==
    ~overlapped /\ ~raced =>
        /\ OnePause
        /\ gen # 0 /\ ~HalfDone => InSync
        /\ \A r \in Request : Carries(r)

(* What a stop has hushed is latched, and the schedule's noise was decided *)
(* on when nothing was hushed.                                             *)
LatchKept ==
    ~overlapped =>
        /\ now < hush => latch >= hush \/ \E r \in Request : apc[r] = "latch"
        /\ \A r \in Request : apc[r] = "latch" => arg[r].until >= hush
        /\ Reconciler \in Installing => now >= hush
        /\ slot.kind = "noise" /\ slot.scheduled /\ now < hush =>
              \E r \in Request : apc[r] \in {"latch", "take"}

IInv ==
    /\ TypeOK /\ ActorsOK /\ RoomKept /\ LoopsOK /\ SlotOK /\ NewestIsReachable
    /\ HandOver /\ Published /\ PauseKept /\ LatchKept

-----------------------------------------------------------------------------
(* The schedule.                                                           *)
(* A time is its day and its minute. *)
LEMMA Split ==
  ASSUME NEW t \in Nat
  PROVE  /\ Day(t) \in Nat /\ Minute(t) \in 0 .. DayLen - 1
         /\ Day(t) * DayLen \in Nat /\ t = Day(t) * DayLen + Minute(t)
<1>1. /\ t \div DayLen \in Nat /\ t % DayLen \in 0 .. DayLen - 1
  BY DayAssumption
<1>2. t = (DayLen * (t \div DayLen)) + (t % DayLen)
  BY DayAssumption
<1>3. (t \div DayLen) * DayLen \in Nat /\ DayLen * (t \div DayLen) = (t \div DayLen) * DayLen
  BY <1>1, DayAssumption
<1>. QED
  BY <1>1, <1>2, <1>3 DEF Day, Minute

(* The weekday of the day before. *)
LEMMA Yesterday == ASSUME NEW d \in Nat PROVE (d - 1) % 7 = PrevWeekday(d % 7)
BY DEF PrevWeekday

(* A day is DayLen minutes longer than the days up to the one before. *)
LEMMA DayBefore == ASSUME NEW d \in Nat PROVE (d - 1) * DayLen = d * DayLen - DayLen
BY DayAssumption

(* A window holds exactly while an occurrence of it lasts, and EndsAt is   *)
(* the end of that occurrence: for every window and every time.            *)
THEOREM ScheduleIsRight ==
   ASSUME NEW w \in Window, NEW t \in Nat
  PROVE  ScheduleFollowsOccurrences(w, t)
<1>. DEFINE q == Day(t)
            m == Minute(t)
            X == q * DayLen
<1>1. /\ q \in Nat /\ m \in 0 .. DayLen - 1 /\ X \in Nat /\ t = X + m
      /\ (q - 1) * DayLen = X - DayLen /\ DayLen \in Nat \ {0}
  BY Split, DayBefore, DayAssumption
<1>2. w.start \in 0 .. DayLen - 1 /\ w.end \in 0 .. DayLen - 1
  BY DEF Window
<1>3. StartOn(w, q) = X + w.start /\ StartOn(w, q - 1) = (X - DayLen) + w.start
  BY <1>1 DEF StartOn
<1>. HIDE DEF q, m, X
<1>4. t \in Occurrence(w, q) <=> m >= w.start /\ (Wraps(w) \/ m < w.end)
  BY <1>1, <1>2, <1>3 DEF Occurrence, Lasts, Wraps
<1>5. t \in Occurrence(w, q - 1) <=> Wraps(w) /\ m < w.end
  BY <1>1, <1>2, <1>3 DEF Occurrence, Lasts, Wraps
<1>6. DayAllowed(w, (q - 1) % 7) <=> DayAllowed(w, PrevWeekday(q % 7))
  BY <1>1, Yesterday
<1>7. Contains(w, t) <=> \/ DayAllowed(w, q % 7) /\ t \in Occurrence(w, q)
                         \/ DayAllowed(w, (q - 1) % 7) /\ t \in Occurrence(w, q - 1)
  BY <1>1, <1>2, <1>4, <1>5, <1>6 DEF Contains, Weekday, q, m
<1>8. Contains(w, t) <=> OccursAround(w, t) # {}
  BY <1>7 DEF OccursAround, q
<1>9. ASSUME NEW d \in OccursAround(w, t) PROVE EndsAt(w, t) = StartOn(w, d) + Lasts(w)
  <2>1. t \in Occurrence(w, d) /\ d \in {q, q - 1}
    BY <1>9 DEF OccursAround, q
  <2>2. (q + 1) * DayLen = X + DayLen /\ (q + 0) * DayLen = X
    BY <1>1 DEF X
  <2>3. CASE d = q
    BY <1>1, <1>2, <1>3, <1>4, <2>1, <2>2, <2>3 DEF EndsAt, Lasts, Wraps, q, m
  <2>4. CASE d = q - 1
    BY <1>1, <1>2, <1>3, <1>5, <2>1, <2>2, <2>4 DEF EndsAt, Lasts, Wraps, q, m
  <2>. QED
    BY <2>1, <2>3, <2>4
<1>. QED
  BY <1>8, <1>9 DEF ScheduleFollowsOccurrences

-----------------------------------------------------------------------------
(* The constants are what the actions add and compare. *)
LEMMA Numbers ==
  /\ QueueLen \in Nat \ {0} /\ FailLimit \in Nat \ {0} /\ MaxSession \in Nat /\ MaxTime \in Nat
BY BoundAssumption

(* The initial states. *)
LEMMA InitIInv == Init => IInv
<1>. SUFFICES ASSUME Init PROVE IInv
  OBVIOUS
<1>1. TypeOK
  <2>1. NoSession \in SessionRecord
    BY Numbers DEF NoSession, SessionRecord
  <2>2. ses \in [Session -> SessionRecord] /\ \A s \in Session : s > gen <=> ses[s] = NoSession
    BY <2>1 DEF Init, Session
  <2>3. /\ gen \in 0 .. MaxSession /\ shown \in (0 .. gen) \X (0 .. QueueLen)
        /\ waits \in [Actor -> 0 .. gen] /\ tracks \in 0 .. gen /\ seam \in 0 .. gen
    BY Numbers DEF Init, Idle
  <2>4. slot \in [cur : 0 .. gen, actions : 0 .. gen, kind : {"none", "queue", "noise"},
                  scheduled : BOOLEAN]
    BY DEF Init, EmptySlot
  <2>5. /\ now \in 0 .. MaxTime /\ latch \in Nat /\ hush \in Nat
        /\ apc \in [Actor -> {"idle", "latch", "take", "wait", "install", "clear"} \cup PauseStep]
    BY Numbers DEF Init
  <2>6. paused \in BOOLEAN /\ overlapped \in BOOLEAN /\ raced \in BOOLEAN
    BY Zenon DEF Init
  <2>. QED
    BY <2>2, <2>3, <2>4, <2>5, <2>6 DEF TypeOK
<1>2. ActorsOK
  BY Numbers DEF Init, ActorsOK, Argument, NoArg, PauseStep
<1>3. RoomKept
  <2>1. Installing = {}
    BY DEF Init, Installing, Replacing
  <2>. QED
    BY <2>1, Numbers, FS_EmptySet DEF Init, RoomKept
<1>4. LoopsOK /\ SlotOK /\ NewestIsReachable
  BY Numbers DEF Init, LoopsOK, Playing, NoSession, Session, SlotOK, EmptySlot, NewestIsReachable
<1>5. HandOver
  BY Numbers DEF Init, HandOver, Session, Replacing
<1>6. Published /\ PauseKept
  BY DEF Init, Published, PauseKept, OnePause, Carries, PauseStep, Actor
<1>7. LatchKept
  BY DEF Init, LatchKept, EmptySlot, Actor
<1>. QED
  BY <1>1, <1>2, <1>3, <1>4, <1>5, <1>6, <1>7 DEF IInv

-----------------------------------------------------------------------------
(* The steps of a loop, and what each of them may change.                  *)
LoopStep(s) ==
    \/ Announce(s) \/ Top(s) \/ StartTrack(s) \/ StartNoise(s) \/ EngineEnds(s)
    \/ Stalls(s) \/ TrackOver(s) \/ ActionTaken(s) \/ Killed(s) \/ NoiseOver(s)
    \/ Unlist(s) \/ Unshow(s) \/ Retire(s) \/ Close(s)

SessionMoves(s) ==
    /\ s \in 1 .. gen /\ ses' \in [Session -> SessionRecord]
    /\ \A q \in Session \ {s} : ses'[q] = ses[q]
    /\ ses'[s].kind = ses[s].kind
    /\ ses[s].loop \notin {"none", "closed"} /\ ses'[s].loop # "none"
    /\ ses[s].loop = "close" <=> ses'[s].loop = "closed"
    /\ IF ses'[s].loop = "closed" THEN ses'[s].cancelled
       ELSE ses'[s].cancelled = ses[s].cancelled
    /\ ses'[s].engine = "playing" => ses'[s].loop = "await"
    /\ ses'[s].loop \in {"begin", "start", "await"} => ses'[s].at <= QueueLen
    /\ \/ slot' = slot /\ ses'[s].loop # "close"
       \/ gen = s /\ slot' = EmptySlot /\ ses'[s].loop = "close"
       \/ gen # s /\ slot' = slot
    /\ UNCHANGED <<now, latched, gen, actor>>

(* The count of instant failures stays below its limit. *)
LEMMA QuickInRange == ASSUME NEW n \in Nat PROVE (n % FailLimit) \in 0 .. FailLimit - 1
BY Numbers

(* Every step of a loop is such a move. *)
LEMMA LoopMoves ==
  ASSUME IInv, NEW s \in Session, LoopStep(s) PROVE SessionMoves(s)
<1>. DEFINE r == ses[s]
<1>1. /\ ses \in [Session -> SessionRecord] /\ r \in SessionRecord /\ gen \in 0 .. MaxSession
      /\ r.engine = "playing" => r.loop = "await"
      /\ r.loop \in {"begin", "start", "await"} => r.at <= QueueLen
  BY DEF IInv, TypeOK, LoopsOK, Playing
<1>2. r.loop # "none" => s \in 1 .. gen
  BY <1>1, Numbers DEF IInv, TypeOK, Session, NoSession
<1>3. CASE Announce(s)
  BY <1>1, <1>2, <1>3, Numbers DEF Announce, At, Goes, Quiet, SessionMoves, SessionRecord
<1>4. CASE Top(s)
  BY <1>1, <1>2, <1>4, Numbers DEF Top, At, Goes, Quiet, SessionMoves, SessionRecord
<1>5. CASE StartTrack(s)
  <2>1. PICK e \in {"playing", "unstarted"} :
          ses' = [ses EXCEPT ![s].loop = "await", ![s].engine = e, ![s].still = FALSE]
    BY <1>5 DEF StartTrack
  <2>2. /\ ses'[s].loop = "await" /\ ses'[s].engine = e /\ ses'[s].at = r.at
        /\ ses'[s].kind = r.kind /\ ses'[s].cancelled = r.cancelled
        /\ ses' \in [Session -> SessionRecord] /\ \A q \in Session \ {s} : ses'[q] = ses[q]
    BY <1>1, <2>1 DEF SessionRecord
  <2>. QED
    BY <1>1, <1>2, <1>5, <2>2 DEF StartTrack, At, Quiet, SessionMoves
<1>6. CASE StartNoise(s)
  BY <1>1, <1>2, <1>6, Numbers DEF StartNoise, At, Goes, SessionMoves, SessionRecord
<1>7. CASE EngineEnds(s)
  BY <1>1, <1>2, <1>7, Numbers DEF EngineEnds, At, Quiet, SessionMoves, SessionRecord
<1>8. CASE Stalls(s)
  BY <1>1, <1>2, <1>8, Numbers DEF Stalls, At, Quiet, SessionMoves, SessionRecord
<1>9. CASE TrackOver(s)
  BY <1>1, <1>2, <1>9, Numbers, QuickInRange
     DEF TrackOver, Onward, At, Quiet, SessionMoves, SessionRecord
<1>10. CASE ActionTaken(s)
  BY <1>1, <1>2, <1>10, Numbers DEF ActionTaken, At, Quiet, SessionMoves, SessionRecord
<1>11. CASE Killed(s)
  BY <1>1, <1>2, <1>11, Numbers DEF Killed, At, Quiet, SessionMoves, SessionRecord
<1>12. CASE NoiseOver(s)
  BY <1>1, <1>2, <1>12, Numbers DEF NoiseOver, At, Quiet, SessionMoves, SessionRecord
<1>13. CASE Unlist(s)
  BY <1>1, <1>2, <1>13, Numbers DEF Unlist, At, Goes, Quiet, SessionMoves, SessionRecord
<1>14. CASE Unshow(s)
  BY <1>1, <1>2, <1>14, Numbers DEF Unshow, At, Goes, Quiet, SessionMoves, SessionRecord
<1>15. CASE Retire(s)
  BY <1>1, <1>2, <1>15, Numbers DEF Retire, At, Goes, SessionMoves, SessionRecord
<1>16. CASE Close(s)
  BY <1>1, <1>2, <1>16, Numbers DEF Close, At, Quiet, SessionMoves, SessionRecord
<1>. QED
  BY <1>3, <1>4, <1>5, <1>6, <1>7, <1>8, <1>9, <1>10, <1>11, <1>12, <1>13, <1>14, <1>15, <1>16
     DEF LoopStep

(* What a step of a loop publishes. *)
Publishes(s) ==
    /\ \/ shown' = shown /\ ses'[s].loop # "start"
       \/ shown' = Idle /\ (ses'[s].loop = "retire" \/ (ses'[s].loop = "close" /\ gen = s))
       \/ shown' = <<s, ses[s].at>> /\ ses[s].at <= QueueLen /\ ses'[s].loop = "start"
    /\ \/ tracks' = tracks
       \/ tracks' = 0 /\ (ses'[s].loop = "unshow" \/ (ses'[s].loop = "close" /\ gen = s))
       \/ tracks' = s /\ ses'[s].loop = "top"
    /\ seam' \in {seam, 0, s}
    /\ gen = s /\ ses'[s].loop = "close" => shown' = Idle /\ tracks' = 0
    /\ ses'[s].loop # "begin"
    /\ ses'[s].loop = "start" => ses'[s].at = ses[s].at
    /\ ses'[s].loop = "await" => Announced(s) /\ ses'[s].at = ses[s].at /\ shown' = shown

(* What it does to the pause, and the engine it starts. *)
PausesSo(s) ==
    /\ ses'[s].loop = "start" => ~paused' /\ ses[s].loop = "top"
    /\ ses'[s].loop = "start" \/ (ses'[s].loop = "close" /\ gen = s) \/ paused' = paused
    /\ paused' = paused \/ paused' = FALSE
    /\ ses'[s].engine = "playing" =>
          ~ses'[s].still /\ ses[s].loop \in {"start", "begin"} /\ Announced(s)

(* However a track ends, its engine is gone and the loop goes on. *)
LEMMA TrackEnds ==
  ASSUME IInv, NEW s \in Session, TrackOver(s) \/ ActionTaken(s) \/ Killed(s)
  PROVE  /\ ses'[s].loop \in {"top", "unlist", "retire"} /\ ses'[s].engine = "off"
         /\ UNCHANGED <<shown, tracks, paused, seam>>
<1>1. ses[s] \in SessionRecord /\ ses \in [Session -> SessionRecord]
  BY DEF IInv, TypeOK
<1>2. CASE TrackOver(s)
  <2>1. UNCHANGED <<shown, tracks, paused, seam>>
    BY <1>2 DEF TrackOver, Quiet
  <2>2. ASSUME NEW n, NEW quick, Onward(s, n, quick)
        PROVE  ses'[s].loop \in {"top", "unlist"} /\ ses'[s].engine = "off"
    BY <1>1, <2>2 DEF Onward, SessionRecord
  <2>3. ASSUME ses' = [ses EXCEPT ![s].loop = "unlist", ![s].engine = "off"]
        PROVE  ses'[s].loop = "unlist" /\ ses'[s].engine = "off"
    BY <1>1, <2>3 DEF SessionRecord
  <2>. QED
    BY <1>2, <2>1, <2>2, <2>3 DEF TrackOver
<1>3. CASE ActionTaken(s)
  <2>1. UNCHANGED <<shown, tracks, paused, seam>>
    BY <1>3 DEF ActionTaken, Quiet
  <2>2. PICK n : ses' = [ses EXCEPT ![s].loop = "top", ![s].at = n, ![s].engine = "off",
                                    ![s].still = FALSE, ![s].quick = 0, ![s].pending = "none"]
    BY <1>3 DEF ActionTaken
  <2>. QED
    BY <1>1, <2>1, <2>2 DEF SessionRecord
<1>4. CASE Killed(s)
  BY <1>1, <1>4 DEF Killed, Quiet, SessionRecord
<1>. QED
  BY <1>2, <1>3, <1>4

(* See Publishes. *)
LEMMA LoopPublishes ==
  ASSUME IInv, NEW s \in Session, LoopStep(s) PROVE Publishes(s)
<1>1. /\ ses \in [Session -> SessionRecord] /\ ses[s].at \in Nat
  BY DEF IInv, TypeOK, SessionRecord
<1>2. CASE Announce(s)
  BY <1>1, <1>2 DEF Announce, Goes, Quiet, Publishes, SessionRecord
<1>3. CASE Top(s)
  BY <1>1, <1>3, Numbers DEF Top, Goes, Quiet, Publishes, SessionRecord
<1>4. CASE StartTrack(s) \/ EngineEnds(s) \/ Stalls(s)
  BY <1>1, <1>4 DEF StartTrack, EngineEnds, Stalls, Quiet, At, Announced, Publishes, SessionRecord
<1>5. CASE TrackOver(s) \/ ActionTaken(s) \/ Killed(s)
  BY <1>5, TrackEnds DEF Publishes
<1>6. CASE StartNoise(s)
  BY <1>1, <1>6 DEF StartNoise, Goes, At, Announced, Publishes, SessionRecord
<1>7. CASE NoiseOver(s) \/ Close(s)
  BY <1>1, <1>7 DEF NoiseOver, Close, Quiet, Publishes, SessionRecord
<1>8. CASE Unlist(s) \/ Unshow(s)
  BY <1>1, <1>8 DEF Unlist, Unshow, Goes, Quiet, Publishes, SessionRecord
<1>9. CASE Retire(s)
  BY <1>1, <1>9 DEF Retire, Goes, Publishes, SessionRecord
<1>. QED
  BY <1>2, <1>3, <1>4, <1>5, <1>6, <1>7, <1>8, <1>9 DEF LoopStep

(* See PausesSo. *)
LEMMA LoopPauses ==
  ASSUME IInv, NEW s \in Session, LoopStep(s) PROVE PausesSo(s)
<1>1. /\ ses \in [Session -> SessionRecord]
      /\ ses[s].engine = "playing" => ses[s].loop = "await"
      /\ ses[s].loop = "begin" => ~ses[s].still
  BY DEF IInv, TypeOK, LoopsOK, Playing
<1>2. CASE Announce(s) \/ Unlist(s) \/ Unshow(s)
  BY <1>1, <1>2 DEF Announce, Unlist, Unshow, Goes, At, Quiet, PausesSo, SessionRecord
<1>3. CASE Top(s)
  BY <1>1, <1>3, Numbers DEF Top, Goes, At, Quiet, PausesSo, SessionRecord
<1>4. CASE StartTrack(s)
  <2>1. PICK e \in {"playing", "unstarted"} :
          ses' = [ses EXCEPT ![s].loop = "await", ![s].engine = e, ![s].still = FALSE]
    BY <1>4 DEF StartTrack
  <2>. QED
    BY <1>1, <1>4, <2>1 DEF StartTrack, At, Announced, PausesSo, SessionRecord
<1>5. CASE EngineEnds(s) \/ Stalls(s)
  BY <1>1, <1>5 DEF EngineEnds, Stalls, At, PausesSo, SessionRecord
<1>6. CASE TrackOver(s) \/ ActionTaken(s) \/ Killed(s)
  BY <1>6, TrackEnds DEF PausesSo
<1>7. CASE StartNoise(s)
  BY <1>1, <1>7 DEF StartNoise, Goes, At, Announced, PausesSo, SessionRecord
<1>8. CASE NoiseOver(s) \/ Close(s)
  BY <1>1, <1>8 DEF NoiseOver, Close, At, PausesSo, SessionRecord
<1>9. CASE Retire(s)
  BY <1>1, <1>9 DEF Retire, Goes, At, PausesSo, SessionRecord
<1>. QED
  BY <1>2, <1>3, <1>4, <1>5, <1>6, <1>7, <1>8, <1>9 DEF LoopStep

(* The history says when a pause met a change of engine, and begins again  *)
(* with a track.                                                           *)
LEMMA LoopRaces ==
  ASSUME IInv, NEW s \in Session, LoopStep(s)
  PROVE  /\ raced' \in BOOLEAN
         /\ ~raced' => ~raced \/ (ses[s].loop = "top" /\ ~Pausing)
         /\ Pausing /\ ses[s].loop = "top" => raced'
         /\ Pausing /\ ses[s].loop \in {"start", "await"} /\ ses[s].kind = "queue" => raced'
<1>1. raced \in BOOLEAN
  BY Zenon DEF IInv, TypeOK
<1>2. Pausing \in BOOLEAN
  BY Zenon DEF Pausing
<1>3. \/ raced' = Pausing /\ ses[s].loop = "top"
      \/ raced' = (raced \/ Pausing) /\ ses[s].loop \in {"start", "await"}
      \/ raced' = raced /\ ses[s].loop \notin {"top", "start", "await"}
      \/ raced' = raced /\ ses[s].loop = "await" /\ ses[s].kind = "noise"
  BY DEF LoopStep, Meets, At, Announce, Top, StartTrack, StartNoise, EngineEnds, Stalls, TrackOver,
     ActionTaken, Killed, NoiseOver, Unlist, Unshow, Retire, Close
<1>. QED
  BY <1>1, <1>2, <1>3

LEMMA LoopTypeOK == ASSUME IInv, NEW s \in Session, LoopStep(s) PROVE TypeOK'
<1>1. SessionMoves(s) /\ Publishes(s)
  BY LoopMoves, LoopPublishes
<1>2. /\ gen \in 0 .. MaxSession /\ gen' = gen /\ s \in 1 .. gen /\ ses[s].at \in Nat
  BY <1>1 DEF IInv, TypeOK, SessionMoves, SessionRecord
<1>3. shown' \in (0 .. gen) \X (0 .. QueueLen) /\ tracks' \in 0 .. gen /\ seam' \in 0 .. gen
  BY <1>1, <1>2, Numbers DEF IInv, TypeOK, Publishes, Idle
<1>4. slot' \in [cur : 0 .. gen, actions : 0 .. gen, kind : {"none", "queue", "noise"},
                 scheduled : BOOLEAN]
  <2>1. EmptySlot \in [cur : 0 .. gen, actions : 0 .. gen, kind : {"none", "queue", "noise"},
                       scheduled : BOOLEAN]
    BY <1>2 DEF EmptySlot
  <2>2. slot' \in {slot, EmptySlot}
    BY <1>1 DEF SessionMoves
  <2>. QED
    BY <2>1, <2>2 DEF IInv, TypeOK
<1>5. ses' \in [Session -> SessionRecord] /\ \A q \in Session : q > gen <=> ses'[q] = NoSession
  BY <1>1, <1>2 DEF IInv, TypeOK, SessionMoves, NoSession
<1>6. paused' \in BOOLEAN /\ raced' \in BOOLEAN
  <2>1. paused \in BOOLEAN
    BY Zenon DEF IInv, TypeOK
  <2>. QED
    BY <2>1, LoopPauses, LoopRaces DEF PausesSo
<1>7. UNCHANGED <<now, latch, hush, apc, waits, overlapped>>
  BY <1>1 DEF SessionMoves, latched, actor
<1>. QED
  BY <1>2, <1>3, <1>4, <1>5, <1>6, <1>7 DEF IInv, TypeOK

(* A step of a loop leaves the actors and the room they were promised. *)
LEMMA LoopKeepsActors ==
  ASSUME IInv, NEW s \in Session, LoopStep(s) PROVE ActorsOK' /\ RoomKept'
<1>1. UNCHANGED <<gen, apc, arg>>
  BY LoopMoves DEF SessionMoves, actor
<1>. QED
  BY <1>1 DEF IInv, ActorsOK, RoomKept, Installing, Replacing

(* While one actor at a time replaces, only the newest session is at work: *)
(* an older one has at most its channel to close.                          *)
LEMMA LiveIsNewest ==
  ASSUME IInv, NEW s \in Session, LoopStep(s), ~overlapped, s # gen
  PROVE  /\ ses[s].loop = "close" /\ ses'[s].loop = "closed" /\ ses'[gen] = ses[gen]
         /\ UNCHANGED <<shown, tracks, paused>>
<1>1. /\ SessionMoves(s) /\ Publishes(s) /\ PausesSo(s) /\ gen \in Session
  BY LoopMoves, LoopPublishes, LoopPauses DEF IInv, TypeOK, SessionMoves, Session
<1>2. ses[s].loop = "close"
  BY <1>1 DEF IInv, TypeOK, HandOver, Over, SessionMoves
<1>. QED
  BY <1>1, <1>2 DEF SessionMoves, Publishes, PausesSo

LEMMA LoopKeepsSlot ==
  ASSUME IInv, NEW s \in Session, LoopStep(s)
  PROVE  LoopsOK' /\ SlotOK' /\ NewestIsReachable' /\ HandOver'
<1>1. /\ SessionMoves(s) /\ Publishes(s) /\ gen \in 0 .. MaxSession /\ s \in 1 .. gen /\ gen' = gen
      /\ ses \in [Session -> SessionRecord] /\ apc' = apc /\ waits' = waits
      /\ overlapped' = overlapped /\ gen \in Session
  BY LoopMoves, LoopPublishes DEF IInv, TypeOK, SessionMoves, actor, Session
<1>2. LoopsOK'
  BY <1>1 DEF IInv, LoopsOK, Playing, SessionMoves, Publishes
<1>3. ses'[gen].kind = ses[gen].kind /\ slot' \in {slot, EmptySlot}
  BY <1>1 DEF SessionMoves
<1>4. SlotOK'
  BY <1>1, <1>3 DEF IInv, SlotOK, EmptySlot
<1>5. NewestIsReachable'
  <2>1. CASE slot' = slot /\ ses'[s].loop # "close"
    BY <1>1, <2>1 DEF IInv, TypeOK, NewestIsReachable, SessionMoves, SessionRecord
  <2>2. CASE gen = s /\ slot' = EmptySlot
    BY <1>1, <2>2 DEF IInv, NewestIsReachable, SessionMoves
  <2>3. CASE gen # s /\ slot' = slot
    BY <1>1, <2>3 DEF IInv, NewestIsReachable, SessionMoves
  <2>. QED
    BY <1>1, <2>1, <2>2, <2>3 DEF SessionMoves
<1>6. HandOver'
  <2>1. \A q \in Session : Over(q) => Over(q)'
    BY <1>1 DEF Over, SessionMoves
  <2>2. Replacing' = Replacing
    BY <1>1 DEF Replacing
  <2>3. ses'[gen].cancelled /\ ~Over(gen)' => ses[gen].cancelled /\ ~Over(gen)
    BY <1>1, <2>1 DEF Over, SessionMoves
  <2>. QED
    BY <1>1, <2>1, <2>2, <2>3 DEF IInv, HandOver, Session, Over
<1>. QED
  BY <1>2, <1>4, <1>5, <1>6

LEMMA LoopKeepsShown ==
  ASSUME IInv, NEW s \in Session, LoopStep(s) PROVE Published'
<1>1. /\ SessionMoves(s) /\ Publishes(s) /\ gen \in Nat /\ s \in 1 .. gen /\ gen' = gen
      /\ overlapped' = overlapped
  BY LoopMoves, LoopPublishes DEF IInv, TypeOK, SessionMoves, actor
<1>. SUFFICES ASSUME ~overlapped
     PROVE  /\ Over(gen)' => shown' = Idle /\ tracks' = 0
            /\ Announced(gen)' => shown' = <<gen, ses'[gen].at>>
  BY <1>1 DEF Published
<1>2. CASE s # gen
  BY <1>1, <1>2, LiveIsNewest DEF IInv, Published, Over, Announced
<1>3. CASE s = gen
  <2>1. ASSUME Over(gen)' PROVE shown' = Idle /\ tracks' = 0
    BY <1>1, <1>3, <2>1 DEF IInv, Published, Over, SessionMoves, Publishes
  <2>2. ASSUME Announced(gen)' PROVE shown' = <<gen, ses'[gen].at>>
    BY <1>1, <1>3, <2>2 DEF IInv, Published, Announced, SessionMoves, Publishes
  <2>. QED
    BY <2>1, <2>2
<1>. QED
  BY <1>2, <1>3

LEMMA LoopKeepsPause ==
  ASSUME IInv, NEW s \in Session, LoopStep(s) PROVE PauseKept'
<1>1. /\ SessionMoves(s) /\ Publishes(s) /\ PausesSo(s) /\ gen \in Nat /\ s \in 1 .. gen
      /\ gen' = gen /\ overlapped' = overlapped /\ apc' = apc /\ arg' = arg
  BY LoopMoves, LoopPublishes, LoopPauses DEF IInv, TypeOK, SessionMoves, actor
<1>2. (HalfDone' <=> HalfDone) /\ (OnePause' <=> OnePause) /\ (HalfDone => Pausing)
      /\ \A r \in Request : Wants(r)' = Wants(r)
  BY <1>1 DEF HalfDone, OnePause, Pausing, PauseStep, Wants
<1>. SUFFICES ASSUME ~overlapped, ~raced'
     PROVE  OnePause /\ (~HalfDone => InSync') /\ \A r \in Request : Carries(r)'
  BY <1>1, <1>2 DEF PauseKept
<1>3. CASE s # gen
  <2>1. ses[s].loop = "close" /\ ses'[gen] = ses[gen] /\ paused' = paused
    BY <1>3, LiveIsNewest
  <2>2. ~raced
    BY <2>1, LoopRaces
  <2>. QED
    BY <1>1, <1>2, <2>1, <2>2 DEF IInv, PauseKept, InSync, Carries, Playing
<1>4. CASE s = gen /\ raced
  <2>1. ses[s].loop = "top" /\ ~Pausing
    BY <1>4, LoopRaces
  <2>2. \A r \in Request : apc[r] \notin PauseStep
    BY <2>1 DEF Pausing
  <2>3. ses'[s].engine # "playing"
    BY <1>1, <2>1 DEF PausesSo
  <2>4. InSync'
    BY <1>1, <1>4, <2>3 DEF InSync, Playing, PausesSo, Publishes
  <2>. QED
    BY <1>1, <2>2, <2>4 DEF OnePause, Carries, PauseStep
<1>5. CASE s = gen /\ ~raced
  <2>1. OnePause /\ (~HalfDone => InSync) /\ \A r \in Request : Carries(r)
    BY <1>1, <1>5 DEF IInv, PauseKept
  <2>2. ASSUME ~HalfDone PROVE InSync'
    <3>1. ASSUME Playing(gen)' PROVE ses'[gen].still = paused'
      <4>1. /\ ses'[s].still \in BOOLEAN /\ ~ses'[s].still /\ Announced(s)
            /\ ses[s].loop \in {"start", "begin"} /\ ses'[s].loop = "await" /\ paused' = paused
        BY <1>1, <1>5, <3>1 DEF Playing, PausesSo, SessionMoves, SessionRecord
      <4>2. ~paused
        BY <1>5, <2>1, <2>2, <4>1 DEF InSync, Announced
      <4>3. paused \in BOOLEAN
        BY Zenon DEF IInv, TypeOK
      <4>. QED
        BY <1>5, <4>1, <4>2, <4>3
    <3>. QED
      BY <1>1, <1>5, <3>1 DEF InSync, PausesSo, Publishes
  <2>3. ASSUME NEW r \in Request PROVE Carries(r)'
    <3>1. ses'[gen].kind = ses[gen].kind /\ Carries(r) /\ (apc[r] \in PauseStep => Pausing)
      BY <1>1, <1>5, <2>1 DEF SessionMoves, Pausing
    <3>2. ~(apc[r] = "ask" /\ Playing(gen)')
      BY <1>1, <1>5, <3>1, LoopRaces DEF Carries, PauseStep, Playing, PausesSo, Announced
    <3>3. apc[r] = "store" => ses'[gen].loop \notin {"begin", "start"} /\ ~Playing(gen)'
      BY <1>1, <1>5, <3>1, LoopRaces DEF Carries, PauseStep, Playing, PausesSo, Publishes
    <3>. QED
      BY <1>1, <3>1, <3>2, <3>3 DEF Carries
  <2>. QED
    BY <2>1, <2>2, <2>3
<1>. QED
  BY <1>3, <1>4, <1>5

LEMMA LoopKeepsLatch ==
  ASSUME IInv, NEW s \in Session, LoopStep(s) PROVE LatchKept'
<1>1. UNCHANGED <<now, latch, hush, gen, apc, arg, overlapped>> /\ slot' \in {slot, EmptySlot}
  BY LoopMoves DEF SessionMoves, latched, actor
<1>. QED
  BY <1>1 DEF IInv, LatchKept, Installing, Replacing, EmptySlot

LEMMA LoopKeeps == ASSUME IInv, NEW s \in Session, LoopStep(s) PROVE IInv'
BY LoopTypeOK, LoopKeepsActors, LoopKeepsSlot, LoopKeepsShown, LoopKeepsPause, LoopKeepsLatch DEF IInv

-----------------------------------------------------------------------------
(* The hour a stop latches is the end of what was scheduled, as the        *)
(* reference has it; outside every window it is nothing.                   *)
LEMMA MinIsIn == ASSUME NEW S \in SUBSET Nat, S # {} PROVE Min(S) \in S
<1>1. PICK n \in S : \A m \in S : <<m, n>> \notin OpToRel(<, Nat)
  BY WFMin, NatLessThanWellFounded, Zenon
<1>2. \A m \in S : ~(m < n)
  BY <1>1, Zenon DEF OpToRel
<1>3. \A m \in S : n <= m
  BY <1>2
<1>. QED
  BY <1>3 DEF Min

LEMMA EndsInNat == ASSUME NEW w \in Window, NEW t \in Nat PROVE EndsAt(w, t) \in Nat
<1>1. DayLen \in Nat \ {0} /\ Day(t) \in Nat
  BY Split, DayAssumption
<1>2. w.end \in Nat
  BY <1>1 DEF Window
<1>3. \A n \in Nat : n * DayLen \in Nat
  BY <1>1
<1>. QED
  BY <1>1, <1>2, <1>3 DEF EndsAt

LEMMA LatestIsIn ==
  ASSUME NEW w \in Window, NEW t \in Nat, OccursAround(w, t) # {}
  PROVE  Max(OccursAround(w, t)) \in OccursAround(w, t)
<1>. DEFINE O == OccursAround(w, t)
<1>1. Day(t) \in Nat /\ O \subseteq {Day(t) - 1, Day(t)}
  BY Split DEF OccursAround
<1>2. \E d \in O : \A e \in O : d >= e
  <2>1. CASE Day(t) \in O
    BY <1>1, <2>1
  <2>2. CASE Day(t) \notin O
    BY <1>1, <2>2
  <2>. QED
    BY <2>1, <2>2
<1>. HIDE DEF O
<1>3. Max(O) \in O
  BY <1>2 DEF Max
<1>. QED
  BY <1>3 DEF O

LEMMA StopLatches ==
  ASSUME NEW t \in Nat
  PROVE  LET w == ActiveWindow(Schedule, t)
         IN  IF w = 0 THEN ScheduledUntil(Schedule, t) = 0
             ELSE EndsAt(Schedule[w], t) \in Nat
                  /\ ScheduledUntil(Schedule, t) = EndsAt(Schedule[w], t)
<1>. DEFINE hits == {i \in DOMAIN Schedule : Contains(Schedule[i], t)}
            first == Min(hits)
<1>1. \A i \in DOMAIN Schedule : i \in Nat \ {0} /\ Schedule[i] \in Window
  BY ScheduleAssumption
<1>2. {i \in DOMAIN Schedule : OccursAround(Schedule[i], t) # {}} = hits
  BY <1>1, ScheduleIsRight DEF ScheduleFollowsOccurrences
<1>3. CASE hits = {}
  BY <1>2, <1>3 DEF ActiveWindow, ScheduledUntil
<1>4. CASE hits # {}
  <2>1. first \in hits
    BY <1>1, <1>4, MinIsIn
  <2>2. first # 0 /\ Schedule[first] \in Window /\ OccursAround(Schedule[first], t) # {}
    BY <1>1, <1>2, <2>1
  <2>3. ActiveWindow(Schedule, t) = first
    BY <1>4 DEF ActiveWindow
  <2>4. ScheduledUntil(Schedule, t)
          = StartOn(Schedule[first], Max(OccursAround(Schedule[first], t))) + Lasts(Schedule[first])
    BY <1>2, <1>4 DEF ScheduledUntil
  <2>. HIDE DEF first
  <2>5. ScheduledUntil(Schedule, t) = EndsAt(Schedule[first], t)
    BY <2>2, <2>4, LatestIsIn, ScheduleIsRight DEF ScheduleFollowsOccurrences
  <2>. QED
    BY <2>2, <2>3, <2>5, EndsInNat
<1>. QED
  BY <1>3, <1>4

-----------------------------------------------------------------------------
(* A step that touches no pause, no engine and no flag leaves them in step. *)
LEMMA PausesStay ==
  ASSUME IInv, gen' = gen, paused' = paused, ~overlapped' => ~overlapped, ~raced' => ~raced,
         \A s \in Session : /\ ses'[s].loop = ses[s].loop /\ ses'[s].kind = ses[s].kind
                             /\ ses'[s].engine = ses[s].engine /\ ses'[s].still = ses[s].still,
         \A r \in Request : apc'[r] \in PauseStep \/ apc[r] \in PauseStep =>
                               apc'[r] = apc[r] /\ arg'[r] = arg[r]
  PROVE  PauseKept'
<1>. SUFFICES ASSUME ~overlapped, ~raced
     PROVE  /\ OnePause'
            /\ gen' # 0 /\ ~HalfDone' => InSync'
            /\ \A r \in Request : Carries(r)'
  BY DEF PauseKept
<1>1. OnePause /\ (gen # 0 /\ ~HalfDone => InSync) /\ \A r \in Request : Carries(r)
  BY DEF IInv, PauseKept
<1>2. gen # 0 => gen \in Session
  BY Numbers DEF IInv, TypeOK, Session
<1>3. OnePause' /\ (HalfDone' <=> HalfDone)
  BY <1>1 DEF OnePause, HalfDone, PauseStep
<1>4. gen # 0 /\ ~HalfDone' => InSync'
  BY <1>1, <1>2, <1>3 DEF InSync, Playing
<1>5. \A r \in Request : Carries(r)'
  BY <1>1, <1>2 DEF Carries, PauseStep, Playing, Wants
<1>. QED
  BY <1>3, <1>4, <1>5

-----------------------------------------------------------------------------
(* An actor begins to replace the session.                                 *)
Beginning(a, step, what) ==
    /\ a \in Actor /\ step \in {"latch", "take"}
    /\ what \in Argument /\ what.op \in {"queue", "noise", "stop"}
    /\ what.op = "noise" => what.at = 1
    /\ what.scheduled => a = Reconciler
    /\ step = "latch" => a \in Request /\ what.op = "stop"
    /\ Begin(a, step, what) /\ latch' \in Nat /\ hush' \in Nat

(* It is the one more that replaces. *)
LEMMA BeginsAlone ==
  ASSUME IInv, NEW a, NEW step, NEW what, Beginning(a, step, what)
  PROVE  /\ a \notin Replacing /\ Replacing' = Replacing \cup {a}
         /\ apc' = [apc EXCEPT ![a] = step] /\ arg' = [arg EXCEPT ![a] = what]
         /\ \A b \in Actor \ {a} : apc'[b] = apc[b] /\ arg'[b] = arg[b]
         /\ apc[a] = "idle" /\ apc'[a] = step /\ arg'[a] = what
         /\ overlapped' \in BOOLEAN /\ (~overlapped' => ~overlapped /\ Replacing = {})
<1>1. /\ apc \in [Actor -> {"idle", "latch", "take", "wait", "install", "clear"} \cup PauseStep]
      /\ arg \in [Actor -> Argument]
  BY DEF IInv, TypeOK, ActorsOK
<1>2. apc' = [apc EXCEPT ![a] = step] /\ arg' = [arg EXCEPT ![a] = what] /\ apc[a] = "idle"
  BY DEF Beginning, Begin
<1>3. overlapped' \in BOOLEAN /\ (~overlapped' => ~overlapped /\ Replacing = {})
  <2>1. overlapped' = (overlapped \/ Replacing # {}) /\ overlapped \in BOOLEAN
    BY Zenon DEF Beginning, Begin, IInv, TypeOK
  <2>. QED
    BY <2>1
<1>. QED
  BY <1>1, <1>2, <1>3 DEF Beginning, Replacing

LEMMA BeginKeepsRoom ==
  ASSUME IInv, NEW a, NEW step, NEW what, Beginning(a, step, what) PROVE RoomKept'
<1>1. /\ gen' = gen /\ gen \in Nat /\ IsFiniteSet(Installing) /\ a \notin Installing
      /\ gen + Cardinality(Installing) <= MaxSession
  <2>1. gen' = gen /\ gen \in Nat
    BY DEF IInv, TypeOK, Beginning, Begin, control
  <2>2. a \notin Installing
    BY BeginsAlone DEF Installing
  <2>. QED
    BY <2>1, <2>2 DEF IInv, RoomKept
<1>. Cardinality(Installing) \in Nat
  BY <1>1, FS_CardinalityType
<1>2. CASE what.op = "stop"
  <2>1. Installing' = Installing
    BY <1>2, BeginsAlone DEF Installing, Replacing, Beginning
  <2>. QED
    BY <1>1, <2>1 DEF RoomKept
<1>3. CASE what.op # "stop"
  <2>1. Installing' = Installing \cup {a}
    BY <1>3, BeginsAlone DEF Installing, Replacing, Beginning
  <2>2. gen + Cardinality(Installing) < MaxSession
    BY <1>3 DEF Beginning, Begin, Room, Installing
  <2>3. IsFiniteSet(Installing') /\ Cardinality(Installing') = Cardinality(Installing) + 1
    BY <1>1, <2>1, FS_AddElement
  <2>. QED
    BY <1>1, <2>2, <2>3, Numbers DEF RoomKept
<1>. QED
  BY <1>2, <1>3

LEMMA BeginKeeps ==
  ASSUME IInv, NEW a, NEW step, NEW what, Beginning(a, step, what), LatchKept' PROVE IInv'
<1>1. UNCHANGED <<now, gen, slot, shown, tracks, seam, paused, ses, waits, raced>>
  BY DEF Beginning, Begin, control
<1>2. TypeOK'
  BY <1>1, BeginsAlone DEF IInv, TypeOK, Beginning
<1>3. ActorsOK'
  BY BeginsAlone DEF IInv, ActorsOK, Beginning, PauseStep
<1>4. LoopsOK' /\ SlotOK' /\ NewestIsReachable'
  BY <1>1 DEF IInv, LoopsOK, Playing, SlotOK, NewestIsReachable
<1>5. HandOver' /\ Published'
  BY <1>1, BeginsAlone DEF IInv, HandOver, Over, Published, Announced, Beginning
<1>6. PauseKept'
  BY <1>1, BeginsAlone, PausesStay DEF Beginning, Actor, PauseStep
<1>. QED
  BY <1>2, <1>3, <1>4, <1>5, <1>6, BeginKeepsRoom DEF IInv

(* What an actor begins with is an argument. *)
LEMMA Arguments ==
  /\ \A n \in 1 .. QueueLen : Queue(n) \in Argument /\ Queue(n).op = "queue" /\ ~Queue(n).scheduled
  /\ \A b \in BOOLEAN : /\ Noise(b) \in Argument /\ Noise(b).op = "noise" /\ Noise(b).at = 1
                        /\ Noise(b).scheduled = b
  /\ \A u \in Nat : /\ Nothing(u) \in Argument /\ Nothing(u).op = "stop" /\ ~Nothing(u).scheduled
                    /\ Nothing(u).until = u
<1>1. NoArg \in Argument /\ NoArg.scheduled = FALSE
  BY Numbers DEF NoArg, Argument
<1>2. ASSUME NEW n \in 1 .. QueueLen
      PROVE  Queue(n) \in Argument /\ Queue(n).op = "queue" /\ Queue(n).scheduled = FALSE
  <2>1. n \in 0 .. QueueLen
    BY Numbers
  <2>. QED
    BY <1>1, <2>1 DEF Queue, Argument
<1>3. ASSUME NEW b \in BOOLEAN
      PROVE  /\ Noise(b) \in Argument /\ Noise(b).op = "noise" /\ Noise(b).at = 1
             /\ Noise(b).scheduled = b
  <2>1. 1 \in 0 .. QueueLen
    BY Numbers
  <2>2. Noise(b) \in Argument
    BY <1>1, <2>1 DEF Noise, Argument
  <2>3. Noise(b).op = "noise" /\ Noise(b).at = 1
    BY <1>1 DEF Noise, Argument
  <2>4. Noise(b).scheduled = b
    BY <1>1 DEF Noise, Argument
  <2>. QED
    BY <2>2, <2>3, <2>4
<1>4. ASSUME NEW u \in Nat
      PROVE  /\ Nothing(u) \in Argument /\ Nothing(u).op = "stop"
             /\ Nothing(u).scheduled = FALSE /\ Nothing(u).until = u
  BY <1>1 DEF Nothing, Argument
<1>. QED
  BY <1>2, <1>3, <1>4

(* A request for a queue leaves what is hushed, and the latch. *)
LEMMA PlayKeeps ==
  ASSUME IInv, NEW r \in Request, NEW n \in 1 .. QueueLen, Begin(r, "take", Queue(n)),
         UNCHANGED latched
  PROVE  IInv'
<1>1. Beginning(r, "take", Queue(n))
  BY Arguments DEF Beginning, latched, Actor, IInv, TypeOK
<1>2. UNCHANGED <<now, slot, latch, hush>> /\ r # Reconciler
  BY ActorAssumption DEF latched, Begin, control
<1>3. LatchKept'
  BY <1>1, <1>2, BeginsAlone DEF IInv, LatchKept, Installing, Replacing, Actor
<1>. QED
  BY <1>1, <1>3, BeginKeeps

(* Noise a human asks for hushes nothing. *)
LEMMA NoiseStartKeeps ==
  ASSUME IInv, NEW r \in Request, NoiseStart(r) PROVE IInv'
<1>1. Beginning(r, "take", Noise(FALSE))
  BY Arguments DEF Beginning, Actor, NoiseStart
<1>2. UNCHANGED <<now, slot>> /\ latch' = 0 /\ hush' = 0 /\ r # Reconciler /\ now \in Nat
  BY Numbers, ActorAssumption DEF NoiseStart, Begin, control, IInv, TypeOK
<1>3. LatchKept'
  <2>1. ~overlapped' => \A q \in Request : apc'[q] # "latch"
    BY <1>1, BeginsAlone DEF Replacing, Actor
  <2>. QED
    BY <1>2, <2>1 DEF LatchKept
<1>. QED
  BY <1>1, <1>3, BeginKeeps

(* What a stop hushes it has in hand to latch, or latched already. *)
LEMMA StopKeeps ==
  ASSUME IInv, NEW r \in Request, Stop(r) PROVE IInv'
<1>. DEFINE w == ActiveWindow(Schedule, now)
            until == IF slot.kind = "noise" /\ w # 0 THEN EndsAt(Schedule[w], now) ELSE 0
            step == IF until = 0 THEN "take" ELSE "latch"
<1>1. now \in Nat /\ latch \in Nat /\ hush \in Nat /\ r \in Actor /\ r # Reconciler
  BY Numbers, ActorAssumption DEF IInv, TypeOK, Actor
<1>2. /\ until \in Nat /\ hush' \in Nat
      /\ IF slot.kind = "noise" THEN hush' = until ELSE hush' = hush /\ until = 0
  BY <1>1, StopLatches DEF Stop
<1>3. Begin(r, step, Nothing(until)) /\ latch' = latch /\ now' = now /\ slot' = slot
  BY DEF Stop, Begin, control
<1>. HIDE DEF w, until
<1>4. Beginning(r, step, Nothing(until))
  BY <1>1, <1>2, <1>3, Arguments DEF Beginning
<1>5. LatchKept'
  <2>. SUFFICES ASSUME ~overlapped' PROVE LatchKept'
    BY DEF LatchKept
  <2>1. /\ ~overlapped /\ Replacing = {} /\ Replacing' = {r} /\ apc'[r] = step
        /\ arg'[r].until = until
    BY <1>2, <1>4, BeginsAlone, Arguments
  <2>2. \A q \in Request : apc[q] # "latch" /\ apc[q] # "take" /\ (apc'[q] = "latch" => q = r)
    BY <2>1 DEF Replacing, Actor
  <2>3. now < hush' => latch' >= hush' \/ apc'[r] = "latch"
    BY <1>1, <1>2, <1>3, <2>1, <2>2 DEF IInv, LatchKept
  <2>4. apc'[r] = "latch" => arg'[r].until >= hush'
    BY <1>2, <2>1
  <2>5. Reconciler \notin Installing'
    BY <1>1, <2>1 DEF Installing
  <2>. QED
    BY <1>3, <2>1, <2>2, <2>3, <2>4, <2>5 DEF LatchKept
<1>. QED
  BY <1>4, <1>5, BeginKeeps

(* The schedule starts noise only when nothing is hushed. *)
LEMMA ReconcileKeeps ==
  ASSUME IInv, Reconcile PROVE IInv'
<1>1. now \in Nat /\ latch \in Nat /\ hush \in Nat /\ Reconciler \in Actor
  BY Numbers DEF IInv, TypeOK, Actor
<1>2. UNCHANGED <<now, latch, hush, slot>>
  BY DEF Reconcile, Begin, latched, control
<1>3. CASE Begin(Reconciler, "take", Noise(TRUE)) /\ now >= latch
  <2>1. Beginning(Reconciler, "take", Noise(TRUE))
    BY <1>1, <1>2, <1>3, Arguments DEF Beginning
  <2>2. LatchKept'
    <3>. SUFFICES ASSUME ~overlapped' PROVE LatchKept'
      BY DEF LatchKept
    <3>1. ~overlapped /\ Replacing = {} /\ Replacing' = {Reconciler}
      BY <2>1, BeginsAlone
    <3>2. \A q \in Request : apc[q] # "latch" /\ apc[q] # "take" /\ apc'[q] # "latch"
      BY <2>1, <3>1, BeginsAlone, ActorAssumption DEF Replacing, Actor
    <3>3. now >= hush
      BY <1>1, <1>3, <3>1, <3>2 DEF IInv, LatchKept
    <3>. QED
      BY <1>1, <1>2, <3>2, <3>3 DEF LatchKept
  <2>. QED
    BY <2>1, <2>2, BeginKeeps
<1>4. CASE Begin(Reconciler, "take", Nothing(0))
  <2>1. Beginning(Reconciler, "take", Nothing(0))
    BY <1>1, <1>2, <1>4, Arguments DEF Beginning
  <2>2. LatchKept'
    <3>1. arg'[Reconciler].op = "stop"
      BY <2>1, Arguments, BeginsAlone
    <3>. QED
      BY <1>2, <2>1, <3>1, BeginsAlone, ActorAssumption
         DEF IInv, LatchKept, Installing, Replacing, Actor
  <2>. QED
    BY <2>1, <2>2, BeginKeeps
<1>5. \/ Begin(Reconciler, "take", Noise(TRUE)) /\ now >= latch
      \/ Begin(Reconciler, "take", Nothing(0))
  BY DEF Reconcile, Decide
<1>. QED
  BY <1>3, <1>4, <1>5

-----------------------------------------------------------------------------
(* The steps of an actor that replaces the session.                        *)
Stage == {"idle", "latch", "take", "wait", "install", "clear"} \cup PauseStep

LEMMA ProceedsTo ==
  ASSUME IInv, NEW a \in Actor, NEW step \in Stage, Proceeds(a, step)
  PROVE  /\ apc' \in [Actor -> Stage] /\ apc'[a] = step
         /\ \A b \in Actor \ {a} : apc'[b] = apc[b] /\ arg'[b] = arg[b]
         /\ arg' \in [Actor -> Argument]
         /\ IF step = "idle" THEN arg'[a] = NoArg ELSE arg'[a] = arg[a]
<1>1. apc \in [Actor -> Stage] /\ arg \in [Actor -> Argument] /\ NoArg \in Argument
  BY Arguments, Numbers DEF IInv, TypeOK, ActorsOK, Stage, NoArg, Argument
<1>2. apc' = [apc EXCEPT ![a] = step]
  BY DEF Proceeds
<1>3. CASE step = "idle"
  BY <1>1, <1>2, <1>3 DEF Proceeds
<1>4. CASE step # "idle"
  BY <1>1, <1>2, <1>4 DEF Proceeds
<1>. QED
  BY <1>3, <1>4

(* Where stop() leads: to the install, or out. *)
LEMMA AfterStop ==
  ASSUME IInv, NEW a \in Actor, apc[a] \in {"take", "wait"}
  PROVE  /\ After(a) \in {"install", "clear", "idle"}
         /\ After(a) = "install" => arg[a].op \in {"queue", "noise"}
         /\ After(a) = "clear" => a \in Request /\ arg[a].op = "stop"
         /\ After(a) = "idle" => arg[a].op = "stop"
BY DEF IInv, ActorsOK, After

(* Fewer may install, and the generation stays: there is still room. *)
LEMMA RoomStays ==
  ASSUME IInv, gen' = gen, Installing' \subseteq Installing PROVE RoomKept'
<1>1. /\ IsFiniteSet(Installing) /\ gen + Cardinality(Installing) <= MaxSession
      /\ gen \in Nat
  BY DEF IInv, RoomKept, TypeOK
<1>2. /\ IsFiniteSet(Installing') /\ Cardinality(Installing') <= Cardinality(Installing)
      /\ Cardinality(Installing') \in Nat /\ Cardinality(Installing) \in Nat
  BY <1>1, FS_Subset, FS_CardinalityType
<1>. QED
  BY <1>1, <1>2, Numbers DEF RoomKept

LEMMA LatchKeeps == ASSUME IInv, NEW r \in Request, Latch(r) PROVE IInv'
<1>1. /\ apc[r] = "latch" /\ latch' = arg[r].until /\ apc' = [apc EXCEPT ![r] = "take"]
      /\ UNCHANGED <<now, hush, gen, slot, shown, tracks, seam, paused, ses, arg, waits,
                     overlapped, raced>>
      /\ r \in Actor /\ arg[r].op = "stop" /\ arg[r] \in Argument
  BY DEF Latch, control, IInv, ActorsOK, Actor
<1>2. /\ \A b \in Actor \ {r} : apc'[b] = apc[b]
      /\ apc'[r] = "take" /\ apc' \in [Actor -> Stage]
  BY <1>1 DEF IInv, TypeOK, Stage
<1>3. TypeOK'
  <2>1. latch' \in Nat
    BY <1>1 DEF Argument
  <2>. QED
    BY <1>1, <1>2, <2>1 DEF IInv, TypeOK, Stage
<1>4. ActorsOK'
  BY <1>1, <1>2 DEF IInv, ActorsOK, PauseStep
<1>5. Replacing' = Replacing /\ Installing' \subseteq Installing
  BY <1>1, <1>2 DEF Replacing, Installing
<1>6. LoopsOK' /\ SlotOK' /\ NewestIsReachable'
  BY <1>1 DEF IInv, LoopsOK, Playing, SlotOK, NewestIsReachable
<1>7. HandOver' /\ Published'
  BY <1>1, <1>2, <1>5 DEF IInv, HandOver, Over, Published, Announced
<1>8. PauseKept'
  BY <1>1, <1>2, PausesStay DEF Actor, PauseStep
<1>9. LatchKept'
  <2>. SUFFICES ASSUME ~overlapped' PROVE LatchKept'
    BY DEF LatchKept
  <2>1. ~overlapped /\ latch' >= hush
    BY <1>1 DEF IInv, LatchKept
  <2>2. \A q \in Request : apc'[q] = "latch" => apc[q] = "latch"
    BY <1>2 DEF Actor
  <2>. QED
    BY <1>1, <1>2, <1>5, <2>1, <2>2 DEF IInv, LatchKept
<1>. QED
  BY <1>1, <1>3, <1>4, <1>5, <1>6, <1>7, <1>8, <1>9, RoomStays DEF IInv

(* stop() takes the session out of the slot. *)
LEMMA TakeKeeps == ASSUME IInv, NEW a \in Actor, Take(a) PROVE IInv'
<1>. DEFINE step == IF slot.cur = 0 THEN After(a) ELSE "wait"
<1>1. /\ apc[a] = "take" /\ slot' = EmptySlot /\ seam' = 0
      /\ UNCHANGED <<now, latch, hush, gen, shown, tracks, paused, overlapped, raced>>
      /\ waits' = [waits EXCEPT ![a] = slot.cur] /\ Proceeds(a, step)
  BY DEF Take, latched
<1>2. /\ gen \in 0 .. MaxSession /\ slot.cur \in {0, gen} /\ (gen # 0 => gen \in Session)
      /\ ses \in [Session -> SessionRecord] /\ waits \in [Actor -> 0 .. gen]
      /\ \A s \in Session : s > gen <=> ses[s] = NoSession
  BY Numbers DEF IInv, TypeOK, SlotOK, Session
<1>3. /\ ses' \in [Session -> SessionRecord]
      /\ \A s \in Session :
            /\ ses'[s].loop = ses[s].loop /\ ses'[s].kind = ses[s].kind /\ ses'[s].at = ses[s].at
            /\ ses'[s].engine = ses[s].engine /\ ses'[s].still = ses[s].still
            /\ IF s = slot.cur THEN ses'[s] = [ses[s] EXCEPT !.cancelled = TRUE] /\ ses'[s].cancelled
               ELSE ses'[s] = ses[s]
  <2>1. ses' = [s \in Session |-> IF s = slot.cur THEN [ses[s] EXCEPT !.cancelled = TRUE] ELSE ses[s]]
    BY DEF Take
  <2>2. \A r \in SessionRecord : /\ [r EXCEPT !.cancelled = TRUE] \in SessionRecord
                                 /\ [r EXCEPT !.cancelled = TRUE].cancelled
    BY DEF SessionRecord
  <2>3. \A r \in SessionRecord :
           LET c == [r EXCEPT !.cancelled = TRUE]
           IN  /\ c.loop = r.loop /\ c.kind = r.kind /\ c.at = r.at
               /\ c.engine = r.engine /\ c.still = r.still
    BY DEF SessionRecord
  <2>. QED
    BY <1>2, <2>1, <2>2, <2>3
<1>4. step \in {"install", "clear", "idle", "wait"} /\ step \in Stage
  BY <1>1, AfterStop DEF Stage
<1>. HIDE DEF step
<1>5. /\ apc' \in [Actor -> Stage] /\ apc'[a] = step
      /\ \A b \in Actor \ {a} : apc'[b] = apc[b] /\ arg'[b] = arg[b]
      /\ arg' \in [Actor -> Argument]
      /\ IF step = "idle" THEN arg'[a] = NoArg ELSE arg'[a] = arg[a]
  BY <1>1, <1>4, ProceedsTo
<1>6. waits' \in [Actor -> 0 .. gen] /\ waits'[a] = slot.cur
      /\ \A b \in Actor \ {a} : waits'[b] = waits[b]
  BY <1>1, <1>2
<1>7. TypeOK'
  <2>1. \A s \in Session : s > gen <=> ses'[s] = NoSession
    BY <1>2, <1>3 DEF IInv, LoopsOK, NoSession, SessionRecord, Session
  <2>2. slot' \in [cur : 0 .. gen, actions : 0 .. gen, kind : {"none", "queue", "noise"},
                   scheduled : BOOLEAN]
    BY <1>1, <1>2 DEF EmptySlot
  <2>. QED
    BY <1>1, <1>2, <1>3, <1>5, <1>6, <2>1, <2>2 DEF IInv, TypeOK, Stage
<1>8. ActorsOK'
  <2>1. NoArg.op = "none" /\ NoArg.scheduled = FALSE
    BY DEF NoArg
  <2>2. /\ step = "install" => arg[a].op \in {"queue", "noise"}
        /\ step = "clear" => a \in Request /\ arg[a].op = "stop"
        /\ step = "wait" => arg[a].op \in {"queue", "noise", "stop"}
    BY <1>1, AfterStop DEF IInv, ActorsOK, step
  <2>. QED
    BY <1>4, <1>5, <2>1, <2>2 DEF IInv, ActorsOK, PauseStep
<1>9. Replacing' \subseteq Replacing /\ Installing' \subseteq Installing /\ a \in Replacing
  <2>1. NoArg.op = "none"
    BY DEF NoArg
  <2>. QED
    BY <1>1, <1>5, <2>1 DEF Replacing, Installing
<1>10. LoopsOK' /\ SlotOK'
  BY <1>1, <1>2, <1>3 DEF IInv, LoopsOK, Playing, SlotOK, EmptySlot
<1>11. NewestIsReachable'
  BY <1>1, <1>2, <1>3 DEF IInv, NewestIsReachable
<1>12. HandOver'
  <2>. SUFFICES ASSUME ~overlapped PROVE HandOver'
    BY <1>1 DEF HandOver
  <2>1. (\A b, d \in Replacing : b = d) /\ \A b, d \in Replacing' : b = d
    BY <1>9 DEF IInv, HandOver
  <2>2. \A s \in Session : Over(s)' <=> Over(s)
    BY <1>3 DEF Over
  <2>3. \A b \in Actor : apc'[b] \in {"install", "clear", "wait"} => b = a
    BY <1>1, <1>5, <1>9, <2>1 DEF Replacing
  <2>4. CASE slot.cur = 0
    <3>1. \A b \in Actor : apc[b] # "wait"
      BY <1>1, <1>9, <2>1 DEF Replacing
    <3>2. Over(gen)
      BY <1>2, <2>4, <3>1 DEF IInv, HandOver, NewestIsReachable, Over
    <3>3. Over(gen)'
      BY <1>1, <1>2, <2>2, <3>2 DEF Over
    <3>4. \A b \in Actor : apc'[b] # "wait"
      BY <1>1, <1>4, <1>5, <2>3, <2>4, <3>1, AfterStop DEF step
    <3>. QED
      BY <1>1, <1>2, <2>1, <2>2, <3>2, <3>3, <3>4 DEF IInv, HandOver, Session
  <2>5. CASE slot.cur # 0
    <3>1. slot.cur = gen /\ step = "wait"
      BY <1>2, <2>5 DEF step
    <3>2. \A b \in Actor : apc'[b] = "wait" => waits'[b] = gen
      BY <1>5, <1>6, <2>3, <3>1
    <3>3. \A b \in Actor : apc'[b] \notin {"install", "clear"}
      BY <1>5, <2>3, <3>1
    <3>. QED
      BY <1>1, <1>2, <1>5, <1>6, <2>1, <2>2, <3>1, <3>2, <3>3 DEF IInv, HandOver, Session
  <2>. QED
    BY <2>4, <2>5
<1>13. Published'
  BY <1>1, <1>2, <1>3 DEF IInv, Published, Announced, Over
<1>14. PauseKept'
  BY <1>1, <1>3, <1>4, <1>5, PausesStay DEF Actor, PauseStep
<1>15. LatchKept'
  <2>1. \A q \in Request : /\ apc'[q] = "latch" <=> apc[q] = "latch"
                           /\ apc[q] = "latch" => arg'[q] = arg[q]
    BY <1>1, <1>4, <1>5 DEF Actor
  <2>. QED
    BY <1>1, <1>9, <2>1 DEF IInv, LatchKept, EmptySlot
<1>. QED
  BY <1>1, <1>7, <1>8, <1>9, <1>10, <1>11, <1>12, <1>13, <1>14, <1>15, RoomStays DEF IInv

(* The loop of the session it took is over. *)
LEMMA WaitKeeps == ASSUME IInv, NEW a \in Actor, Wait(a) PROVE IInv'
<1>. DEFINE step == After(a)
<1>1. /\ apc[a] = "wait" /\ ses[waits[a]].loop = "closed" /\ Proceeds(a, step)
      /\ waits' = [waits EXCEPT ![a] = 0]
      /\ UNCHANGED <<now, latch, hush, gen, slot, shown, tracks, seam, paused, ses, overlapped, raced>>
  BY DEF Wait, latched, control
<1>2. step \in {"install", "clear", "idle"} /\ step \in Stage
  BY <1>1, AfterStop DEF Stage
<1>3. /\ step = "install" => arg[a].op \in {"queue", "noise"}
      /\ step = "clear" => a \in Request /\ arg[a].op = "stop"
  BY <1>1, AfterStop
<1>. HIDE DEF step
<1>4. /\ apc' \in [Actor -> Stage] /\ apc'[a] = step
      /\ \A b \in Actor \ {a} : apc'[b] = apc[b] /\ arg'[b] = arg[b]
      /\ arg' \in [Actor -> Argument]
      /\ IF step = "idle" THEN arg'[a] = NoArg ELSE arg'[a] = arg[a]
  BY <1>1, <1>2, ProceedsTo
<1>5. waits' \in [Actor -> 0 .. gen] /\ \A b \in Actor \ {a} : waits'[b] = waits[b]
  BY <1>1, Numbers DEF IInv, TypeOK
<1>6. TypeOK'
  BY <1>1, <1>4, <1>5 DEF IInv, TypeOK, Stage
<1>7. NoArg.op = "none" /\ NoArg.scheduled = FALSE
  BY DEF NoArg
<1>8. ActorsOK'
  BY <1>2, <1>3, <1>4, <1>7 DEF IInv, ActorsOK, PauseStep
<1>9. Replacing' \subseteq Replacing /\ Installing' \subseteq Installing /\ a \in Replacing
  BY <1>1, <1>4, <1>7 DEF Replacing, Installing
<1>10. LoopsOK' /\ SlotOK' /\ NewestIsReachable'
  BY <1>1 DEF IInv, LoopsOK, Playing, SlotOK, NewestIsReachable
<1>11. HandOver'
  <2>. SUFFICES ASSUME ~overlapped PROVE HandOver'
    BY <1>1 DEF HandOver
  <2>1. (\A b, d \in Replacing : b = d) /\ \A b, d \in Replacing' : b = d
    BY <1>9 DEF IInv, HandOver
  <2>2. Over(gen) /\ Over(gen)' /\ \A s \in Session : Over(s)' <=> Over(s)
    BY <1>1 DEF IInv, HandOver, Over
  <2>3. \A b \in Actor : apc'[b] # "wait"
    BY <1>1, <1>2, <1>4, <1>9, <2>1 DEF Replacing
  <2>. QED
    BY <1>1, <2>1, <2>2, <2>3 DEF IInv, HandOver
<1>12. Published'
  BY <1>1 DEF IInv, Published, Announced, Over
<1>13. PauseKept'
  BY <1>1, <1>2, <1>4, PausesStay DEF Actor, PauseStep
<1>14. LatchKept'
  <2>1. \A q \in Request : /\ apc'[q] \in {"latch", "take"} <=> apc[q] \in {"latch", "take"}
                           /\ apc'[q] = "latch" <=> apc[q] = "latch"
                           /\ apc[q] = "latch" => arg'[q] = arg[q]
    BY <1>1, <1>2, <1>4 DEF Actor
  <2>. QED
    BY <1>1, <1>9, <2>1 DEF IInv, LatchKept
<1>. QED
  BY <1>1, <1>6, <1>8, <1>9, <1>10, <1>11, <1>12, <1>13, <1>14, RoomStays DEF IInv

(* The session installed is the next one, and Room kept a place for it. *)
LEMMA InstallRoom ==
  ASSUME IInv, NEW a \in Actor, Install(a)
  PROVE  gen + 1 \in Session /\ RoomKept'
<1>1. apc[a] = "install" /\ gen' = gen + 1 /\ Proceeds(a, "idle") /\ gen \in Nat
  BY DEF Install, IInv, TypeOK
<1>2. a \in Installing /\ IsFiniteSet(Installing) /\ gen + Cardinality(Installing) <= MaxSession
  BY <1>1 DEF IInv, RoomKept, ActorsOK, Installing, Replacing
<1>3. /\ apc'[a] = "idle" /\ \A b \in Actor \ {a} : apc'[b] = apc[b] /\ arg'[b] = arg[b]
  BY <1>1, ProceedsTo DEF Stage
<1>4. Installing' = Installing \ {a}
  BY <1>3 DEF Installing, Replacing
<1>5. /\ IsFiniteSet(Installing') /\ Cardinality(Installing') = Cardinality(Installing) - 1
      /\ Cardinality(Installing') \in Nat /\ Cardinality(Installing) \in Nat
  BY <1>2, <1>4, FS_RemoveElement, FS_CardinalityType
<1>. QED
  BY <1>1, <1>2, <1>5, Numbers DEF RoomKept, Session

LEMMA InstallKeeps == ASSUME IInv, NEW a \in Actor, Install(a) PROVE IInv'
<1>. DEFINE n == gen + 1
            queue == arg[a].op = "queue"
<1>1. /\ apc[a] = "install" /\ gen' = n /\ Proceeds(a, "idle")
      /\ slot' = [cur |-> n, actions |-> IF queue THEN n ELSE 0, kind |-> arg[a].op,
                  scheduled |-> IF queue THEN slot.scheduled ELSE arg[a].scheduled]
      /\ IF queue THEN UNCHANGED <<shown, tracks>> ELSE shown' = <<n, 1>> /\ tracks' = 0
      /\ ses' = [ses EXCEPT ![n] = [NoSession EXCEPT !.kind = arg[a].op, !.loop = "begin",
                                                     !.at = arg[a].at]]
      /\ UNCHANGED <<now, latch, hush, seam, waits, overlapped>>
  BY DEF Install, latched
<1>2. ~paused' /\ paused' \in BOOLEAN /\ raced' \in BOOLEAN /\ (~raced' => ~Pausing)
  BY Zenon DEF Install, Pausing
<1>3. /\ gen \in 0 .. MaxSession /\ n \in Session /\ n \in 1 .. MaxSession /\ gen < n
      /\ ses \in [Session -> SessionRecord] /\ (gen # 0 => gen \in Session)
      /\ arg[a] \in Argument /\ arg[a].op \in {"queue", "noise"}
      /\ arg[a].op = "noise" => arg[a].at = 1
      /\ arg[a].at \in 0 .. QueueLen /\ arg[a].scheduled \in BOOLEAN
      /\ \A s \in Session : s > gen <=> ses[s] = NoSession
  <2>1. /\ arg[a] \in Argument /\ arg[a].op \in {"queue", "noise"}
        /\ arg[a].op = "noise" => arg[a].at = 1
        /\ arg[a].at \in 0 .. QueueLen /\ arg[a].scheduled \in BOOLEAN
    BY <1>1 DEF IInv, ActorsOK, Argument
  <2>2. n \in Session
    BY InstallRoom
  <2>. QED
    BY <2>1, <2>2, Numbers DEF IInv, TypeOK, Session
<1>4. /\ apc' \in [Actor -> Stage] /\ apc'[a] = "idle"
      /\ \A b \in Actor \ {a} : apc'[b] = apc[b] /\ arg'[b] = arg[b]
      /\ arg' \in [Actor -> Argument] /\ arg'[a] = NoArg
  BY <1>1, ProceedsTo DEF Stage
<1>. HIDE DEF n, queue
<1>5. /\ ses' \in [Session -> SessionRecord] /\ \A s \in Session \ {n} : ses'[s] = ses[s]
      /\ ses'[n].kind = arg[a].op /\ ses'[n].loop = "begin" /\ ses'[n].at = arg[a].at
      /\ ~ses'[n].cancelled /\ ~ses'[n].still /\ ses'[n].engine = "off"
  <2>. DEFINE new == [NoSession EXCEPT !.kind = arg[a].op, !.loop = "begin", !.at = arg[a].at]
  <2>1. arg[a].at \in 0 .. QueueLen + 1 /\ 0 \in 0 .. FailLimit - 1
    BY <1>3, Numbers
  <2>2. new \in SessionRecord
    BY <1>3, <2>1 DEF NoSession, SessionRecord
  <2>3. /\ new.kind = arg[a].op /\ new.loop = "begin" /\ new.at = arg[a].at
        /\ new.cancelled = FALSE /\ new.still = FALSE /\ new.engine = "off"
    BY DEF NoSession
  <2>. HIDE DEF new
  <2>4. ses' = [ses EXCEPT ![n] = new]
    BY <1>1 DEF new
  <2>. QED
    BY <1>3, <2>2, <2>3, <2>4
<1>6. TypeOK'
  <2>1. slot' \in [cur : 0 .. n, actions : 0 .. n, kind : {"none", "queue", "noise"},
                   scheduled : BOOLEAN]
    <3>1. slot.scheduled \in BOOLEAN
      BY DEF IInv, TypeOK
    <3>2. n \in 0 .. n /\ 0 \in 0 .. n
      BY <1>3
    <3>. QED
      BY <1>1, <1>3, <3>1, <3>2
  <2>2. shown' \in (0 .. n) \X (0 .. QueueLen) /\ tracks' \in 0 .. n /\ seam' \in 0 .. n
        /\ waits' \in [Actor -> 0 .. n]
    BY <1>1, <1>3, Numbers DEF IInv, TypeOK
  <2>3. \A s \in Session : s > n <=> ses'[s] = NoSession
    <3>1. \A s \in Session : s > gen <=> s > n \/ s = n
      BY <1>3 DEF Session, n
    <3>2. ses'[n] # NoSession
      BY <1>5 DEF NoSession
    <3>3. ~(n > n)
      BY <1>3
    <3>. QED
      BY <1>3, <1>5, <3>1, <3>2, <3>3
  <2>. QED
    BY <1>1, <1>2, <1>3, <1>4, <1>5, <2>1, <2>2, <2>3 DEF IInv, TypeOK, Stage
<1>7. ActorsOK'
  <2>1. NoArg.op = "none" /\ NoArg.scheduled = FALSE
    BY DEF NoArg
  <2>. QED
    BY <1>4, <2>1 DEF IInv, ActorsOK, PauseStep
<1>8. Replacing' = Replacing \ {a} /\ Installing' \subseteq Installing /\ a \in Replacing
  BY <1>1, <1>4 DEF Replacing, Installing
<1>9. slot'.cur = n /\ slot'.kind = arg[a].op
      /\ slot'.scheduled = IF queue THEN slot.scheduled ELSE arg[a].scheduled
  BY <1>1
<1>10. LoopsOK'
  <2>1. \A s \in Session : s <= n => s <= gen \/ s = n
    BY <1>3 DEF Session, n
  <2>. QED
    BY <1>1, <1>3, <1>5, <2>1 DEF IInv, LoopsOK, Playing
<1>11. SlotOK' /\ NewestIsReachable'
  BY <1>1, <1>3, <1>5, <1>9 DEF SlotOK, NewestIsReachable, Session
<1>12. HandOver'
  <2>. SUFFICES ASSUME ~overlapped PROVE HandOver'
    BY <1>1 DEF HandOver
  <2>1. Replacing' = {} /\ \A b \in Actor : apc'[b] \notin {"install", "clear", "wait"}
    <3>1. \A b \in Replacing : b = a
      BY <1>8 DEF IInv, HandOver
    <3>. QED
      BY <1>4, <1>8, <3>1 DEF Replacing
  <2>2. Over(gen)
    BY <1>1 DEF IInv, HandOver
  <2>3. \A s \in Session : s < n => Over(s)'
    <3>1. \A s \in Session : s < n => s < gen \/ s = gen
      BY <1>3 DEF Session, n
    <3>. QED
      BY <1>3, <1>5, <2>2, <3>1 DEF IInv, HandOver, Over, Session
  <2>. QED
    BY <1>1, <1>5, <2>1, <2>3 DEF HandOver
<1>13. Published'
  BY <1>1, <1>3, <1>5 DEF Published, Over, Announced, queue
<1>14. PauseKept'
  <2>. SUFFICES ASSUME ~raced' PROVE PauseKept'
    BY DEF PauseKept
  <2>1. \A q \in Request : apc'[q] \notin PauseStep
    BY <1>1, <1>2, <1>4 DEF Pausing, Actor, PauseStep
  <2>2. InSync'
    BY <1>1, <1>2, <1>5 DEF InSync, Playing
  <2>. QED
    BY <2>1, <2>2 DEF PauseKept, OnePause, Carries, PauseStep
<1>15. LatchKept'
  <2>1. \A q \in Request : /\ apc'[q] \in {"latch", "take"} <=> apc[q] \in {"latch", "take"}
                           /\ apc'[q] = "latch" <=> apc[q] = "latch"
                           /\ apc[q] = "latch" => arg'[q] = arg[q]
    BY <1>1, <1>4 DEF Actor
  <2>2. slot'.kind = "noise" /\ slot'.scheduled => Reconciler \in Installing
    BY <1>3, <1>8, <1>9 DEF IInv, ActorsOK, Installing, queue
  <2>3. now \in Nat /\ hush \in Nat
    BY Numbers DEF IInv, TypeOK
  <2>. QED
    BY <1>1, <1>8, <2>1, <2>2, <2>3 DEF IInv, LatchKept
<1>. QED
  BY <1>6, <1>7, <1>10, <1>11, <1>12, <1>13, <1>14, <1>15, InstallRoom DEF IInv

(* A stop's own publication, once the session it stopped is over. *)
LEMMA ClearKeeps == ASSUME IInv, NEW r \in Request, Clear(r) PROVE IInv'
<1>1. /\ apc[r] = "clear" /\ shown' = Idle /\ Proceeds(r, "idle") /\ r \in Actor
      /\ UNCHANGED <<now, latch, hush, gen, slot, tracks, seam, paused, ses, waits, overlapped, raced>>
  BY DEF Clear, latched, Actor
<1>2. /\ apc' \in [Actor -> Stage] /\ apc'[r] = "idle"
      /\ \A b \in Actor \ {r} : apc'[b] = apc[b] /\ arg'[b] = arg[b]
      /\ arg' \in [Actor -> Argument] /\ arg'[r] = NoArg
  BY <1>1, ProceedsTo DEF Stage
<1>3. NoArg.op = "none" /\ NoArg.scheduled = FALSE
  BY DEF NoArg
<1>4. TypeOK'
  BY <1>1, <1>2, Numbers DEF IInv, TypeOK, Stage, Idle
<1>5. ActorsOK'
  BY <1>2, <1>3 DEF IInv, ActorsOK, PauseStep
<1>6. Replacing' \subseteq Replacing /\ Installing' \subseteq Installing
  BY <1>1, <1>2 DEF Replacing, Installing
<1>7. LoopsOK' /\ SlotOK' /\ NewestIsReachable'
  BY <1>1 DEF IInv, LoopsOK, Playing, SlotOK, NewestIsReachable
<1>8. HandOver'
  BY <1>1, <1>2, <1>6 DEF IInv, HandOver, Over
<1>9. Published'
  <2>1. ~overlapped => Over(gen)
    BY <1>1 DEF IInv, HandOver
  <2>. QED
    BY <1>1, <2>1 DEF IInv, Published, Over, Announced
<1>10. \A q \in Request : /\ apc'[q] = "latch" <=> apc[q] = "latch"
                          /\ apc'[q] \in {"latch", "take"} <=> apc[q] \in {"latch", "take"}
                          /\ apc[q] = "latch" => arg'[q] = arg[q]
  BY <1>1, <1>2 DEF Actor
<1>11. PauseKept'
  BY <1>1, <1>2, PausesStay DEF Actor, PauseStep
<1>12. LatchKept'
  BY <1>1, <1>6, <1>10 DEF IInv, LatchKept
<1>. QED
  BY <1>1, <1>4, <1>5, <1>6, <1>7, <1>8, <1>9, <1>11, <1>12, RoomStays DEF IInv

-----------------------------------------------------------------------------
(* Transport and pause: steps that leave where sessions and stops are.     *)
SideStep ==
    /\ UNCHANGED <<now, latch, hush, gen, slot, shown, tracks, seam, waits, overlapped>>
    /\ ses' \in [Session -> SessionRecord]
    /\ \A s \in Session :
          /\ ses'[s].kind = ses[s].kind /\ ses'[s].loop = ses[s].loop /\ ses'[s].at = ses[s].at
          /\ ses'[s].cancelled = ses[s].cancelled /\ ses'[s].engine = ses[s].engine
          /\ ses'[s].still = ses[s].still \/ ses[s].loop = "await"
          /\ s > gen => ses'[s] = ses[s]
    /\ apc' \in [Actor -> Stage] /\ arg' \in [Actor -> Argument]
    /\ \A a \in Actor :
          \/ apc'[a] = apc[a] /\ arg'[a] = arg[a]
          \/ /\ a \in Request
             /\ apc[a] \in {"idle"} \cup PauseStep /\ apc'[a] \in {"idle"} \cup PauseStep
             /\ arg'[a].op \in {"none", "pause", "resume"} /\ ~arg'[a].scheduled
             /\ apc'[a] \in PauseStep => arg'[a].op # "none"
             /\ apc'[a] = "signal" => arg'[a].until \in Session
    /\ paused' \in BOOLEAN /\ raced' \in BOOLEAN

LEMMA SideStepKeeps == ASSUME IInv, SideStep, PauseKept' PROVE IInv'
<1>1. /\ gen \in Nat /\ \A s \in Session : s > gen <=> ses[s] = NoSession
      /\ \A s \in Session : s <= gen => ses[s].loop # "none"
      /\ \A s \in Session : s > gen \/ s <= gen
  BY DEF IInv, TypeOK, LoopsOK, Session
<1>2. TypeOK'
  <2>1. \A s \in Session : s > gen <=> ses'[s] = NoSession
    <3>1. NoSession.loop = "none"
      BY DEF NoSession
    <3>. QED
      BY <1>1, <3>1 DEF SideStep
  <2>. QED
    BY <2>1 DEF IInv, TypeOK, SideStep, Stage
<1>3. ActorsOK'
  BY DEF IInv, ActorsOK, SideStep, PauseStep
<1>4. Replacing' = Replacing /\ Installing' = Installing
  BY DEF SideStep, Replacing, Installing, PauseStep
<1>5. RoomKept'
  BY <1>4 DEF IInv, RoomKept, SideStep
<1>6. LoopsOK'
  BY DEF IInv, LoopsOK, Playing, SideStep
<1>7. gen # 0 => gen \in Session
  BY Numbers DEF IInv, TypeOK, Session
<1>8. SlotOK' /\ NewestIsReachable'
  BY <1>7 DEF IInv, SlotOK, NewestIsReachable, SideStep
<1>9. HandOver'
  <2>1. \A s \in Session : Over(s)' <=> Over(s)
    BY DEF Over, SideStep
  <2>2. Over(gen)' <=> Over(gen)
    BY <1>7, <2>1 DEF Over, SideStep
  <2>3. \A a \in Actor : \A l \in {"install", "clear", "wait"} : apc'[a] = l <=> apc[a] = l
    BY DEF SideStep, PauseStep
  <2>. QED
    BY <1>4, <1>7, <2>1, <2>2, <2>3 DEF IInv, HandOver, SideStep
<1>10. Published'
  BY <1>7 DEF IInv, Published, Over, Announced, SideStep
<1>11. LatchKept'
  <2>1. \A r \in Request : /\ apc'[r] \in {"latch", "take"} <=> apc[r] \in {"latch", "take"}
                           /\ apc'[r] = "latch" <=> apc[r] = "latch"
                           /\ apc[r] = "latch" => arg'[r] = arg[r]
    BY DEF SideStep, Actor, PauseStep
  <2>. QED
    BY <1>4, <2>1 DEF IInv, LatchKept, SideStep
<1>. QED
  BY <1>2, <1>3, <1>5, <1>6, <1>8, <1>9, <1>10, <1>11 DEF IInv

(* While one actor at a time replaces, an engine that plays is the newest  *)
(* session's.                                                              *)
LEMMA OnlyNewestPlays ==
  ASSUME IInv, ~overlapped, NEW s \in Session, Playing(s)
  PROVE  s = gen /\ gen \in Session /\ ses[gen].loop = "await"
<1>1. ses[s].loop = "await" /\ s \in Nat \ {0} /\ gen \in Nat
  BY DEF IInv, LoopsOK, TypeOK, Session
<1>2. ~(s > gen)
  BY <1>1 DEF IInv, TypeOK, NoSession
<1>3. ~(s < gen)
  BY <1>1 DEF IInv, HandOver, Over
<1>. QED
  BY <1>1, <1>2, <1>3

LEMMA SendKeeps ==
  ASSUME IInv, NEW r \in Request, NEW act \in {"next", "prev"}, Send(r, act) PROVE IInv'
<1>. DEFINE n == slot.actions
<1>1. /\ n \in Session /\ n <= gen /\ ses \in [Session -> SessionRecord]
  BY Numbers DEF IInv, TypeOK, Send, Session
<1>2. /\ ses' = [ses EXCEPT ![n].pending = act]
      /\ UNCHANGED <<now, latch, hush, gen, slot, shown, tracks, seam, paused, apc, arg, waits,
                     overlapped, raced>>
  BY DEF Send, latched, control, actor
<1>. HIDE DEF n
<1>3. /\ ses' \in [Session -> SessionRecord] /\ \A s \in Session \ {n} : ses'[s] = ses[s]
      /\ ses'[n].kind = ses[n].kind /\ ses'[n].loop = ses[n].loop /\ ses'[n].at = ses[n].at
      /\ ses'[n].cancelled = ses[n].cancelled /\ ses'[n].engine = ses[n].engine
      /\ ses'[n].still = ses[n].still
  <2>1. \A q \in SessionRecord :
           LET c == [q EXCEPT !.pending = act]
           IN  c \in SessionRecord
    BY DEF SessionRecord
  <2>2. \A q \in SessionRecord :
           LET c == [q EXCEPT !.pending = act]
           IN  /\ c.loop = q.loop /\ c.kind = q.kind /\ c.at = q.at
               /\ c.engine = q.engine /\ c.still = q.still /\ c.cancelled = q.cancelled
    BY DEF SessionRecord
  <2>. QED
    BY <1>1, <1>2, <2>1, <2>2
<1>4. paused \in BOOLEAN /\ raced \in BOOLEAN
  BY Zenon DEF IInv, TypeOK
<1>5. SideStep
  <2>1. apc \in [Actor -> Stage] /\ arg \in [Actor -> Argument]
    BY DEF IInv, TypeOK, ActorsOK, Stage
  <2>2. ~(n > gen)
    BY <1>1 DEF IInv, TypeOK, Session
  <2>. QED
    BY <1>2, <1>3, <1>4, <2>1, <2>2 DEF SideStep
<1>6. PauseKept'
  BY <1>2, <1>3, PausesStay
<1>. QED
  BY <1>5, <1>6, SideStepKeeps

(* What an engine is told, and no other engine. *)
LEMMA StillSet ==
  ASSUME IInv, NEW s \in Session, Playing(s), NEW want \in BOOLEAN,
         ses' = [ses EXCEPT ![s].still = want]
  PROVE  /\ ses' \in [Session -> SessionRecord] /\ \A q \in Session \ {s} : ses'[q] = ses[q]
         /\ ses'[s].kind = ses[s].kind /\ ses'[s].loop = ses[s].loop /\ ses'[s].at = ses[s].at
         /\ ses'[s].cancelled = ses[s].cancelled /\ ses'[s].engine = ses[s].engine
         /\ ses'[s].still = want /\ ses[s].loop = "await" /\ ~(s > gen)
<1>1. /\ ses \in [Session -> SessionRecord] /\ ses[s].loop = "await"
      /\ ~(s > gen)
  BY DEF IInv, TypeOK, LoopsOK, NoSession
<1>2. \A q \in SessionRecord : [q EXCEPT !.still = want] \in SessionRecord
  BY DEF SessionRecord
<1>3. \A q \in SessionRecord :
         LET c == [q EXCEPT !.still = want]
         IN  /\ c.loop = q.loop /\ c.kind = q.kind /\ c.at = q.at
             /\ c.engine = q.engine /\ c.cancelled = q.cancelled /\ c.still = want
  BY DEF SessionRecord
<1>. QED
  BY <1>1, <1>2, <1>3

(* A pause that meets no other is the only one on its way. *)
LEMMA AskKeeps ==
  ASSUME IInv, NEW r \in Request, NEW step \in {"flag", "signal"},
         NEW session \in Nat, NEW track \in 0 .. QueueLen, Asks(r, step, session, track),
         step = "signal" => session \in Session,
         gen # 0, ses[gen].kind = IF step = "flag" THEN "queue" ELSE "noise"
  PROVE  IInv'
<1>1. PICK op \in {"pause", "resume"} :
        arg' = [arg EXCEPT ![r] = [NoArg EXCEPT !.op = op, !.at = track, !.until = session]]
  BY DEF Asks
<1>2. /\ apc[r] = "idle" /\ apc' = [apc EXCEPT ![r] = step]
      /\ UNCHANGED <<now, latch, hush, gen, slot, shown, tracks, seam, paused, ses, waits,
                     overlapped>>
  BY DEF Asks, latched, control
<1>3. raced' = (raced \/ Pausing) /\ raced \in BOOLEAN /\ raced' \in BOOLEAN /\ paused \in BOOLEAN
  BY Zenon DEF Asks, IInv, TypeOK, Pausing
<1>4. /\ apc \in [Actor -> Stage] /\ arg \in [Actor -> Argument] /\ r \in Actor
      /\ ses \in [Session -> SessionRecord]
  BY DEF IInv, TypeOK, ActorsOK, Stage, Actor
<1>5. /\ arg' \in [Actor -> Argument] /\ \A a \in Actor \ {r} : arg'[a] = arg[a]
      /\ arg'[r].op = op /\ arg'[r].scheduled = FALSE /\ arg'[r].until = session
  <2>. DEFINE new == [NoArg EXCEPT !.op = op, !.at = track, !.until = session]
  <2>1. new \in Argument
    BY DEF NoArg, Argument
  <2>2. new.op = op /\ new.scheduled = FALSE /\ new.until = session
    BY DEF NoArg
  <2>. HIDE DEF new
  <2>3. arg' = [arg EXCEPT ![r] = new]
    BY <1>1 DEF new
  <2>. QED
    BY <1>4, <2>1, <2>2, <2>3
<1>6. /\ apc' \in [Actor -> Stage] /\ apc'[r] = step /\ step \in PauseStep
      /\ \A a \in Actor \ {r} : apc'[a] = apc[a]
  BY <1>2, <1>4 DEF Stage, PauseStep
<1>7. SideStep
  BY <1>2, <1>3, <1>4, <1>5, <1>6 DEF SideStep
<1>8. PauseKept'
  <2>. SUFFICES ASSUME ~overlapped, ~raced' PROVE PauseKept'
    BY <1>2 DEF PauseKept
  <2>1. ~raced /\ ~Pausing
    BY <1>3
  <2>2. \A q \in Request : apc[q] \notin PauseStep
    BY <2>1 DEF Pausing
  <2>3. \A q \in Request : apc'[q] \in PauseStep => q = r
    BY <1>6, <2>2 DEF Actor
  <2>4. InSync
    BY <2>1, <2>2 DEF IInv, PauseKept, HalfDone, PauseStep
  <2>5. InSync'
    BY <1>2, <2>4 DEF InSync, Playing
  <2>6. \A q \in Request : Carries(q)'
    BY <1>2, <1>6, <2>3 DEF Carries, PauseStep
  <2>. QED
    BY <2>3, <2>5, <2>6 DEF PauseKept, OnePause
<1>. QED
  BY <1>7, <1>8, SideStepKeeps

LEMMA PauseKeeps == ASSUME IInv, NEW r \in Request, Pause(r) PROVE IInv'
<1>1. Asks(r, "flag", shown[1], shown[2]) /\ slot.kind = "queue"
  BY DEF Pause
<1>2. shown[1] \in Nat /\ shown[2] \in 0 .. QueueLen
  BY DEF IInv, TypeOK
<1>3. gen # 0 /\ ses[gen].kind = "queue"
  BY <1>1 DEF IInv, SlotOK
<1>. QED
  BY <1>1, <1>2, <1>3, AskKeeps

LEMMA PauseNoiseKeeps == ASSUME IInv, NEW r \in Request, PauseNoise(r) PROVE IInv'
<1>1. Asks(r, "signal", seam, 1) /\ slot.kind = "noise"
  BY DEF PauseNoise
<1>2. seam \in Nat /\ 1 \in 0 .. QueueLen /\ seam \in Session
  BY Numbers DEF PauseNoise, IInv, TypeOK, Session
<1>3. gen # 0 /\ ses[gen].kind = "noise"
  BY <1>1 DEF IInv, SlotOK
<1>. QED
  BY <1>1, <1>2, <1>3, AskKeeps

(* A request on its way goes on, by itself. *)
LEMMA PauseGoesOn ==
  ASSUME IInv, NEW r \in Request, apc[r] \in PauseStep,
         NEW step \in {"idle", "ask", "store"}, Proceeds(r, step)
  PROVE  /\ r \in Actor /\ apc' \in [Actor -> Stage] /\ apc'[r] = step
         /\ \A b \in Actor \ {r} : apc'[b] = apc[b] /\ arg'[b] = arg[b]
         /\ arg' \in [Actor -> Argument] /\ ~arg'[r].scheduled
         /\ arg'[r].op \in {"none", "pause", "resume"}
         /\ step \in PauseStep => arg'[r].op # "none" /\ arg'[r] = arg[r]
<1>1. r \in Actor /\ step \in Stage /\ arg[r].op \in {"pause", "resume"} /\ arg[r] \in Argument
  BY DEF Actor, Stage, IInv, ActorsOK, PauseStep
<1>2. arg[r].scheduled = FALSE
  BY <1>1, ActorAssumption DEF IInv, ActorsOK, Argument
<1>3. NoArg.op = "none" /\ NoArg.scheduled = FALSE
  BY DEF NoArg
<1>. QED
  BY <1>1, <1>2, <1>3, ProceedsTo DEF PauseStep

(* Then nothing but it changes, or its session's engine alone. *)
LEMMA PauseSideStep ==
  ASSUME IInv, NEW r \in Request, apc[r] \in PauseStep,
         NEW step \in {"idle", "ask", "store"}, Proceeds(r, step),
         UNCHANGED <<now, latch, hush, gen, slot, shown, tracks, seam, waits, overlapped>>,
         paused' \in BOOLEAN, raced' \in BOOLEAN,
         \/ ses' = ses
         \/ \E s \in Session : Playing(s) /\ ses' = [ses EXCEPT ![s].still = Wants(r)]
  PROVE  SideStep
<1>1. ses \in [Session -> SessionRecord]
  BY DEF IInv, TypeOK
<1>2. CASE ses' = ses
  BY <1>1, <1>2, PauseGoesOn DEF SideStep, PauseStep
<1>3. ASSUME NEW s \in Session, Playing(s), ses' = [ses EXCEPT ![s].still = Wants(r)]
      PROVE  SideStep
  <2>1. Wants(r) \in BOOLEAN
    BY DEF Wants
  <2>2. /\ ses' \in [Session -> SessionRecord] /\ \A q \in Session \ {s} : ses'[q] = ses[q]
        /\ ses'[s].kind = ses[s].kind /\ ses'[s].loop = ses[s].loop /\ ses'[s].at = ses[s].at
        /\ ses'[s].cancelled = ses[s].cancelled /\ ses'[s].engine = ses[s].engine
        /\ ses[s].loop = "await" /\ ~(s > gen)
    BY <1>3, <2>1, StillSet
  <2>. QED
    BY <1>3, <2>2, PauseGoesOn DEF SideStep, PauseStep
<1>. QED
  BY <1>2, <1>3

(* The only pause on its way, and where it is in step with what plays. *)
LEMMA PauseAlone ==
  ASSUME IInv, ~overlapped, ~raced, NEW r \in Request, apc[r] \in PauseStep
  PROVE  /\ gen # 0 /\ gen \in Session /\ Carries(r) /\ (apc[r] \in {"flag", "signal"} => InSync)
         /\ \A q \in Request : apc[q] \in PauseStep => q = r
<1>1. OnePause /\ (gen # 0 /\ ~HalfDone => InSync) /\ Carries(r)
  BY DEF IInv, PauseKept
<1>2. \A q \in Request : apc[q] \in PauseStep => q = r
  BY <1>1 DEF OnePause
<1>3. gen # 0 /\ gen \in Session
  BY <1>1, Numbers DEF Carries, IInv, TypeOK, Session
<1>4. apc[r] \in {"flag", "signal"} => ~HalfDone
  BY <1>2 DEF HalfDone, PauseStep
<1>. QED
  BY <1>1, <1>2, <1>3, <1>4

(* Once it is done, or one step further, the rest follows from these. *)
LEMMA PauseAloneKeeps ==
  ASSUME NEW r \in Request, gen' # 0,
         \A q \in Request \ {r} : apc'[q] \notin PauseStep,
         apc'[r] \notin {"ask", "store"} => InSync',
         Carries(r)'
  PROVE  PauseKept'
<1>1. OnePause'
  BY DEF OnePause
<1>2. ~HalfDone' => apc'[r] \notin {"ask", "store"}
  BY DEF HalfDone
<1>3. \A q \in Request \ {r} : Carries(q)'
  BY DEF Carries, PauseStep
<1>. QED
  BY <1>1, <1>2, <1>3 DEF PauseKept

LEMMA PauseFlagKeeps == ASSUME IInv, NEW r \in Request, PauseFlag(r) PROVE IInv'
<1>1. /\ apc[r] = "flag" /\ Proceeds(r, "ask") /\ paused' = Wants(r) /\ "ask" \in PauseStep
      /\ UNCHANGED <<now, latch, hush, gen, slot, shown, tracks, seam, ses, waits, overlapped,
                     raced>> /\ apc[r] \in PauseStep
  BY DEF PauseFlag, latched, control, PauseStep
<1>2. paused' \in BOOLEAN /\ raced' \in BOOLEAN
  BY <1>1, Zenon DEF Wants, PauseFlag, IInv, TypeOK
<1>3. SideStep
  BY <1>1, <1>2, PauseSideStep
<1>4. PauseKept'
  <2>. SUFFICES ASSUME ~overlapped, ~raced PROVE PauseKept'
    BY <1>1 DEF PauseKept
  <2>1. /\ apc'[r] = "ask" /\ arg'[r] = arg[r]
        /\ \A q \in Request \ {r} : apc'[q] = apc[q]
    BY <1>1, PauseGoesOn DEF Actor
  <2>2. gen # 0 /\ Carries(r) /\ \A q \in Request : apc[q] \in PauseStep => q = r
    BY <1>1, PauseAlone
  <2>3. paused' = Wants(r)'
    BY <1>1, <2>1 DEF Wants
  <2>4. Carries(r)'
    BY <1>1, <2>1, <2>2, <2>3 DEF Carries
  <2>5. \A q \in Request \ {r} : apc'[q] \notin PauseStep
    BY <2>1, <2>2
  <2>6. gen' # 0 /\ apc'[r] \in {"ask", "store"}
    BY <1>1, <2>1, <2>2
  <2>. QED
    BY <2>4, <2>5, <2>6, PauseAloneKeeps
<1>. QED
  BY <1>3, <1>4, SideStepKeeps

(* An answer makes the engine what the flag says, or counts as a race. *)
LEMMA PauseAnsweredKeeps == ASSUME IInv, NEW r \in Request, PauseAnswered(r) PROVE IInv'
<1>. DEFINE hears == {s \in Session : Playing(s) /\ ses[s].kind = "queue" /\ ses[s].at = arg[r].at}
<1>1. /\ apc[r] = "ask" /\ apc[r] \in PauseStep /\ Proceeds(r, "idle")
      /\ UNCHANGED <<now, latch, hush, gen, slot, shown, tracks, seam, waits, overlapped>>
  BY DEF PauseAnswered, latched, control, PauseStep
<1>2. \/ hears = {} /\ paused' = ~Wants(r) /\ ses' = ses
      \/ \E s \in hears : ses' = [ses EXCEPT ![s].still = Wants(r)] /\ paused' = paused
  BY DEF PauseAnswered
<1>3. raced' = (raced \/ hears = {}) /\ raced \in BOOLEAN /\ raced' \in BOOLEAN /\ paused \in BOOLEAN
  BY Zenon DEF PauseAnswered, IInv, TypeOK
<1>4. SideStep
  <2>1. paused' \in BOOLEAN
    BY <1>2, <1>3 DEF Wants
  <2>2. ses' = ses \/ \E s \in Session : Playing(s) /\ ses' = [ses EXCEPT ![s].still = Wants(r)]
    BY <1>2
  <2>. QED
    BY <1>1, <1>3, <2>1, <2>2, PauseSideStep
<1>5. PauseKept'
  <2>. SUFFICES ASSUME ~overlapped, ~raced' PROVE PauseKept'
    BY <1>1 DEF PauseKept
  <2>1. ~raced /\ hears # {}
    BY <1>3
  <2>2. PICK s \in hears : ses' = [ses EXCEPT ![s].still = Wants(r)] /\ paused' = paused
    BY <1>2, <2>1
  <2>3. s \in Session /\ Playing(s)
    OBVIOUS
  <2>4. s = gen /\ gen \in Session /\ gen # 0
    BY <2>3, OnlyNewestPlays DEF Session
  <2>5. Carries(r) /\ \A q \in Request : apc[q] \in PauseStep => q = r
    BY <1>1, <2>1, PauseAlone
  <2>6. paused = Wants(r) /\ Wants(r) \in BOOLEAN
    BY <1>1, <2>3, <2>4, <2>5 DEF Carries, Wants
  <2>. HIDE DEF hears
  <2>7. ses'[gen].still = paused' /\ ses'[gen].loop = "await"
    BY <2>2, <2>3, <2>4, <2>6, StillSet
  <2>8. apc'[r] = "idle" /\ \A q \in Request \ {r} : apc'[q] \notin PauseStep
    BY <1>1, <2>5, PauseGoesOn DEF Actor
  <2>9. InSync'
    BY <1>1, <2>7 DEF InSync
  <2>10. Carries(r)' /\ gen' # 0
    BY <1>1, <2>4, <2>8 DEF Carries, PauseStep
  <2>. QED
    BY <2>8, <2>9, <2>10, PauseAloneKeeps
<1>. QED
  BY <1>4, <1>5, SideStepKeeps

(* A signal reaches the newest session's noise, or nothing. *)
LEMMA PauseSignalKeeps == ASSUME IInv, NEW r \in Request, PauseSignal(r) PROVE IInv'
<1>. DEFINE s == arg[r].until
<1>1. /\ apc[r] = "signal" /\ apc[r] \in PauseStep
      /\ UNCHANGED <<now, latch, hush, gen, slot, shown, tracks, seam, paused, waits, overlapped,
                     raced>>
  BY DEF PauseSignal, latched, control, PauseStep
<1>2. \/ Playing(s) /\ ses' = [ses EXCEPT ![s].still = Wants(r)] /\ Proceeds(r, "store")
      \/ ~Playing(s) /\ At(s, "await") /\ ses' = ses /\ Proceeds(r, "store")
      \/ ses' = ses /\ Proceeds(r, "idle")
  BY DEF PauseSignal
<1>3. paused' \in BOOLEAN /\ raced' \in BOOLEAN /\ Wants(r) \in BOOLEAN
  BY Zenon DEF PauseSignal, Wants, IInv, TypeOK
<1>4. s \in Session
  BY <1>1 DEF IInv, ActorsOK, Actor
<1>5. ASSUME NEW step \in {"idle", "store"}, Proceeds(r, step) PROVE SideStep
  BY <1>1, <1>2, <1>3, <1>4, <1>5, PauseSideStep
<1>6. SideStep
  BY <1>2, <1>5
<1>7. PauseKept'
  <2>. SUFFICES ASSUME ~overlapped, ~raced PROVE PauseKept'
    BY <1>1 DEF PauseKept
  <2>1. /\ gen # 0 /\ gen \in Session /\ Carries(r) /\ InSync
        /\ \A q \in Request : apc[q] \in PauseStep => q = r
    BY <1>1, PauseAlone
  <2>2. ASSUME NEW step \in {"idle", "store"}, Proceeds(r, step)
        PROVE  /\ apc'[r] = step /\ (step = "store" => arg'[r] = arg[r])
               /\ \A q \in Request \ {r} : apc'[q] \notin PauseStep
    BY <1>1, <2>1, <2>2, PauseGoesOn DEF Actor, PauseStep
  <2>3. At(s, "await") => s = gen
    <3>1. gen \in Nat /\ s \in Nat \ {0} /\ NoSession.loop = "none"
      BY <1>4 DEF IInv, TypeOK, Session, NoSession
    <3>2. At(s, "await") => ~(s > gen) /\ ~(s < gen)
      BY <1>4, <3>1 DEF At, IInv, TypeOK, HandOver, Over
    <3>. QED
      BY <3>1, <3>2
  <2>. HIDE DEF s
  <2>4. CASE Playing(s) /\ ses' = [ses EXCEPT ![s].still = Wants(r)] /\ Proceeds(r, "store")
    <3>1. s = gen /\ ses'[s].still = Wants(r) /\ ses'[s].loop = "await" /\ ses'[s].kind = ses[s].kind
      BY <1>3, <1>4, <2>4, OnlyNewestPlays, StillSet
    <3>2. Wants(r)' = Wants(r)
      BY <2>2, <2>4 DEF Wants
    <3>3. Carries(r)' /\ gen' # 0
      BY <1>1, <2>1, <2>2, <2>4, <3>1, <3>2 DEF Carries, PauseStep
    <3>. QED
      BY <2>2, <2>4, <3>3, PauseAloneKeeps
  <2>5. CASE ~Playing(s) /\ At(s, "await") /\ ses' = ses /\ Proceeds(r, "store")
    <3>1. Carries(r)' /\ gen' # 0
      BY <1>1, <2>1, <2>2, <2>3, <2>5 DEF Carries, PauseStep, At, Playing
    <3>. QED
      BY <2>2, <2>5, <3>1, PauseAloneKeeps
  <2>6. CASE ses' = ses /\ Proceeds(r, "idle")
    <3>1. InSync' /\ Carries(r)' /\ gen' # 0
      BY <1>1, <2>1, <2>2, <2>6 DEF InSync, Playing, Carries, PauseStep
    <3>. QED
      BY <2>2, <2>6, <3>1, PauseAloneKeeps
  <2>. QED
    BY <1>2, <2>4, <2>5, <2>6
<1>. QED
  BY <1>6, <1>7, SideStepKeeps

(* The flag follows. *)
LEMMA PauseStoredKeeps == ASSUME IInv, NEW r \in Request, PauseStored(r) PROVE IInv'
<1>1. /\ apc[r] = "store" /\ apc[r] \in PauseStep /\ Proceeds(r, "idle") /\ paused' = Wants(r)
      /\ UNCHANGED <<now, latch, hush, gen, slot, shown, tracks, seam, ses, waits, overlapped,
                     raced>>
  BY DEF PauseStored, latched, control, PauseStep
<1>2. paused' \in BOOLEAN /\ raced' \in BOOLEAN
  BY <1>1, Zenon DEF Wants, PauseStored, IInv, TypeOK
<1>3. SideStep
  BY <1>1, <1>2, PauseSideStep
<1>4. PauseKept'
  <2>. SUFFICES ASSUME ~overlapped, ~raced PROVE PauseKept'
    BY <1>1 DEF PauseKept
  <2>1. apc'[r] = "idle" /\ \A q \in Request \ {r} : apc'[q] = apc[q]
    BY <1>1, PauseGoesOn DEF Actor
  <2>2. gen # 0 /\ Carries(r) /\ \A q \in Request : apc[q] \in PauseStep => q = r
    BY <1>1, PauseAlone
  <2>3. InSync'
    BY <1>1, <2>2 DEF InSync, Carries, Playing
  <2>4. Carries(r)' /\ gen' # 0
    BY <1>1, <2>1, <2>2 DEF Carries, PauseStep
  <2>5. \A q \in Request \ {r} : apc'[q] \notin PauseStep
    BY <2>1, <2>2
  <2>. QED
    BY <2>3, <2>4, <2>5, PauseAloneKeeps
<1>. QED
  BY <1>3, <1>4, SideStepKeeps

-----------------------------------------------------------------------------
LEMMA TickKeeps == ASSUME IInv, Tick PROVE IInv'
<1>1. /\ UNCHANGED <<latch, hush, gen, slot, shown, tracks, seam, paused, ses, apc, arg, waits,
                     overlapped, raced>>
      /\ now \in Nat /\ now' = now + 1 /\ now' \in 0 .. MaxTime /\ hush \in Nat
  BY Numbers DEF Tick, latched, control, actor, IInv, TypeOK
<1>2. TypeOK' /\ ActorsOK'
  BY <1>1 DEF IInv, TypeOK, ActorsOK
<1>3. Replacing' = Replacing /\ Installing' = Installing
  BY <1>1 DEF Replacing, Installing
<1>4. RoomKept' /\ LoopsOK' /\ SlotOK' /\ NewestIsReachable'
  BY <1>1, <1>3 DEF IInv, RoomKept, LoopsOK, Playing, SlotOK, NewestIsReachable
<1>5. HandOver' /\ Published' /\ PauseKept'
  BY <1>1, <1>3, PausesStay DEF IInv, HandOver, Over, Published, Announced
<1>6. LatchKept'
  <2>1. now' < hush => now < hush
    BY <1>1
  <2>2. now >= hush => now' >= hush
    BY <1>1
  <2>. QED
    BY <1>1, <1>3, <2>1, <2>2 DEF IInv, LatchKept
<1>. QED
  BY <1>2, <1>4, <1>5, <1>6 DEF IInv

LEMMA StutterKeeps == ASSUME IInv, UNCHANGED vars PROVE IInv'
<1>1. UNCHANGED <<now, latch, hush, gen, slot, shown, tracks, seam, paused, ses, apc, arg, waits,
                  overlapped, raced>>
  BY DEF vars, latched, control, actor
<1>2. TypeOK' /\ ActorsOK'
  BY <1>1 DEF IInv, TypeOK, ActorsOK
<1>3. Replacing' = Replacing /\ Installing' = Installing
  BY <1>1 DEF Replacing, Installing
<1>4. RoomKept' /\ LoopsOK' /\ SlotOK' /\ NewestIsReachable'
  BY <1>1, <1>3 DEF IInv, RoomKept, LoopsOK, Playing, SlotOK, NewestIsReachable
<1>5. HandOver' /\ Published' /\ PauseKept' /\ LatchKept'
  BY <1>1, <1>3, PausesStay DEF IInv, HandOver, Over, Published, Announced, LatchKept
<1>. QED
  BY <1>2, <1>4, <1>5 DEF IInv

(* Every step keeps the invariant: one case for each action. *)
LEMMA NextIInv == IInv /\ [Next]_vars => IInv'
<1>. SUFFICES ASSUME IInv, [Next]_vars PROVE IInv'
  OBVIOUS
<1>1. CASE \E r \in Request : \/ Play(r) \/ NoiseStart(r) \/ Stop(r) \/ Latch(r) \/ Clear(r)
                              \/ \E n \in 1 .. QueueLen : Jump(r, n)
  <2>1. 1 \in 1 .. QueueLen
    BY Numbers
  <2>. QED
    BY <1>1, <2>1, PlayKeeps, NoiseStartKeeps, StopKeeps, LatchKeeps, ClearKeeps DEF Play, Jump
<1>2. CASE \E r \in Request : \/ \E act \in {"next", "prev"} : Send(r, act)
                              \/ Pause(r) \/ PauseFlag(r) \/ PauseAnswered(r)
                              \/ PauseNoise(r) \/ PauseSignal(r) \/ PauseStored(r)
  BY <1>2, SendKeeps, PauseKeeps, PauseFlagKeeps, PauseAnsweredKeeps, PauseNoiseKeeps,
     PauseSignalKeeps, PauseStoredKeeps
<1>3. CASE Reconcile
  BY <1>3, ReconcileKeeps
<1>4. CASE \E a \in Actor : Take(a) \/ Wait(a) \/ Install(a)
  BY <1>4, TakeKeeps, WaitKeeps, InstallKeeps
<1>5. CASE \E s \in Session : LoopStep(s)
  BY <1>5, LoopKeeps
<1>6. CASE Tick
  BY <1>6, TickKeeps
<1>7. CASE UNCHANGED vars
  BY <1>7, StutterKeeps
<1>. QED
  BY <1>1, <1>2, <1>3, <1>4, <1>5, <1>6, <1>7 DEF Next, LoopStep

-----------------------------------------------------------------------------
(* In every behaviour the invariant holds: sessions are handed over one at *)
(* a time, and what is shown, paused and latched follows them.             *)
THEOREM Invariance == Spec => []IInv
<1>. QED
  BY InitIInv, NextIInv, PTL DEF Spec

(* Every variable of the player keeps its type, for any number of requests *)
(* and any schedule: control.go hands sessions out in order.               *)
THEOREM TypeCorrect == Spec => []TypeOK
<1>1. IInv => TypeOK
  BY DEF IInv
<1>. QED
  BY <1>1, Invariance, PTL

(* A loop that ends late never clears its successor (retire, control.go): *)
(* the newest session is where the next stop finds it.                     *)
THEOREM NewestInReach == Spec => []NewestIsReachable
<1>1. IInv => NewestIsReachable
  BY DEF IInv
<1>. QED
  BY <1>1, Invariance, PTL

(* However many sessions there have been, at most one engine plays while   *)
(* no two actors replace the session at once: what start() promises        *)
(* (control.go) holds then.                                                *)
THEOREM OneEngine == Spec => []OneEngineWhenSerial
<1>1. IInv => OneEngineWhenSerial
  <2>. SUFFICES ASSUME IInv, ~overlapped PROVE NeverTwoEngines
    BY DEF OneEngineWhenSerial
  <2>. DEFINE playing == {s \in Session : Playing(s)}
  <2>1. playing \subseteq {gen}
    BY OnlyNewestPlays
  <2>2. IsFiniteSet({gen}) /\ Cardinality({gen}) = 1
    BY FS_Singleton
  <2>3. IsFiniteSet(playing) /\ Cardinality(playing) <= Cardinality({gen})
    BY <2>1, <2>2, FS_Subset
  <2>. QED
    BY <2>2, <2>3 DEF NeverTwoEngines
<1>. QED
  BY <1>1, Invariance, PTL

(* Noise that a human stopped stays off until the end of the window        *)
(* (stopByHuman, reconcileNoise), for every schedule of windows.           *)
THEOREM StoppedStaysOff == Spec => []LatchHolds
<1>1. IInv => LatchHolds
  <2>. SUFFICES ASSUME IInv, ~overlapped, Replacing = {},
                       slot.kind = "noise" /\ slot.scheduled /\ now < hush
                PROVE  FALSE
    BY DEF LatchHolds
  <2>. QED
    BY DEF IInv, LatchKept, Replacing, Actor
<1>. QED
  BY <1>1, Invariance, PTL

(* The remote shows what the engines do, between two requests, for any     *)
(* number of requests and sessions and any length of queue (setState and   *)
(* handlePause of control.go, playQueue of main.go).                       *)
THEOREM RemoteIsTrue == Spec => []RemoteTellsTruth
<1>1. IInv => RemoteTellsTruth
  <2>. SUFFICES ASSUME IInv, ~overlapped, Replacing = {} PROVE RemoteTellsTruth
    BY DEF RemoteTellsTruth
  <2>1. gen \in Nat /\ (gen # 0 => gen \in Session)
    BY Numbers DEF IInv, TypeOK, Session
  <2>2. \A a \in Actor : apc[a] # "wait"
    BY DEF Replacing
  <2>3. ASSUME slot.kind = "none"
        PROVE  shown = Idle /\ tracks = 0 /\ \A s \in Session : ~Playing(s)
    <3>1. slot.cur = 0
      BY <2>3 DEF IInv, SlotOK
    <3>2. Over(gen)
      BY <2>2, <3>1 DEF IInv, NewestIsReachable, HandOver, Over
    <3>3. \A s \in Session : ~Playing(s)
      BY <2>1, <3>2, OnlyNewestPlays DEF Over, Session
    <3>. QED
      BY <3>2, <3>3 DEF IInv, Published
  <2>4. ASSUME slot.kind # "none", At(gen, "await") PROVE shown = <<gen, ses[gen].at>>
    BY <2>4 DEF At, Session, IInv, Published, Announced
  <2>5. ASSUME ~raced, ~Pausing, NEW s \in Session, Playing(s) PROVE ses[s].still = paused
    <3>1. s = gen /\ gen # 0
      BY <2>5, OnlyNewestPlays DEF Session
    <3>2. ~HalfDone
      BY <2>5 DEF HalfDone, Pausing, PauseStep
    <3>. QED
      BY <2>5, <3>1, <3>2 DEF IInv, PauseKept, InSync
  <2>. QED
    BY <2>3, <2>4, <2>5 DEF RemoteTellsTruth
<1>. QED
  BY <1>1, Invariance, PTL
=============================================================================
