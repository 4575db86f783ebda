--------------------------- MODULE ContinueWatching ---------------------------
(***************************************************************************)
(* The home page's Continue Watching row (web/handlers_core.go): for every *)
(* show or film somebody touched, a card that plays on.  For a show SQL    *)
(* finds the season (tvContinueWatchingQuery) and Go the episode in it     *)
(* (continueTarget), each with its own copy of what counts as watched;     *)
(* players report, and people mark, at any moment.                         *)
(***************************************************************************)
EXTENDS Integers, FiniteSetsExt

CONSTANTS
    Files, SeasonOf, NumberOf,   \* files of a show, or of a film; several may be of one episode
    RowOf,                       \* the order in which the files of one number are listed
    Reports,                     \* <<position, completed>> a player can report
    MaxActs                      \* bound on reports and marks

VARIABLES
    kind,    \* "tv" or "movie"
    rows,    \* progress: [pos, done, at], pos in percent, at = 0 without a row
    clock,   \* in seconds, what updated_at tells apart
    acts

vars == <<kind, rows, clock, acts>>

NoFile == "none"
NoSeason == -1

-----------------------------------------------------------------------------
(* Continue Watching in Go.                                                *)
effectivelyWatched(r) == r.done \/ r.pos >= 95
activeResume(r) == r.pos > 0 /\ r.pos < IF r.done THEN 90 ELSE 95

(* A season is listed by its files' first episode numbers, and two of the  *)
(* same number as the query and the sort leave them.                       *)
seasonEpisodeFiles(s) == {f \in Files : SeasonOf[f] = s}
Ahead(f, g) == NumberOf[f] < NumberOf[g] \/ (NumberOf[f] = NumberOf[g] /\ RowOf[f] < RowOf[g])
FirstOf(S) == IF S = {} THEN NoFile ELSE CHOOSE f \in S : \A g \in S : g = f \/ Ahead(f, g)
Newest(S) == {f \in S : rows[f].at # 0 /\ \A g \in S : rows[g].at <= rows[f].at}

continueTarget(s) ==
    LET newest == FirstOf(Newest(seasonEpisodeFiles(s)))
    IN  IF newest # NoFile /\ activeResume(rows[newest]) THEN newest
        ELSE FirstOf({f \in seasonEpisodeFiles(s) : ~effectivelyWatched(rows[f])})

(* ... and in SQL.                                                         *)
ActiveInQuery(r) == r.pos > 0 /\ ~(r.pos >= IF r.done THEN 90 ELSE 95)

(* Mutated form: an episode at its end whose completion was never reported *)
(* is unwatched to the query.                                              *)
WatchedWhenCompleted(r) == r.done

WatchedInQuery(r) == r.done \/ r.pos >= 95

(* The season of the card, for the newest row the query happens to take.   *)
tvContinueWatchingQuery(newest) ==
    IF ActiveInQuery(rows[newest]) THEN SeasonOf[newest]
    ELSE LET open == {SeasonOf[f] : f \in {g \in Files : /\ SeasonOf[g] >= SeasonOf[newest]
                                                         /\ ~WatchedInQuery(rows[g])}}
         IN  IF open = {} THEN NoSeason ELSE Min(open)

(* loadMovieContinueWatching: the newest copy, unless it is finished.      *)
loadMovieContinueWatching ==
    {f \in Newest(Files) : /\ ~rows[f].done \/ rows[f].pos > 0
                           /\ rows[f].pos < IF rows[f].done THEN 90 ELSE 95}

(* What the player of an episode goes on with.                             *)
findAdjacentEpisode(f) ==
    FirstOf({g \in seasonEpisodeFiles(SeasonOf[f]) : Ahead(f, g)})
nextSeasonFirstEpisode(f) ==
    LET later == {SeasonOf[g] : g \in Files} \ (0 .. SeasonOf[f])
    IN  IF later = {} THEN NoFile ELSE FirstOf(seasonEpisodeFiles(Min(later)))
UpNext(f) ==
    IF findAdjacentEpisode(f) # NoFile THEN findAdjacentEpisode(f) ELSE nextSeasonFirstEpisode(f)

-----------------------------------------------------------------------------
Init ==
    /\ kind \in {"tv", "movie"} /\ clock = 1 /\ acts = 0
    /\ rows = [f \in Files |-> [pos |-> 0, done |-> FALSE, at |-> 0]]

Touch(new) ==
    /\ acts < MaxActs /\ acts' = acts + 1
    /\ clock' \in {clock, clock + 1}
    /\ rows' = [f \in Files |-> IF f \in DOMAIN new THEN [new[f] EXCEPT !.at = clock'] ELSE rows[f]]
    /\ UNCHANGED kind

(* A report earns the watched flag and never revokes it.                   *)
Reported(f, report) ==
    Touch([g \in {f} |-> [rows[g] EXCEPT !.pos = report[1], !.done = @ \/ report[2]]])
tvPlaybackProgress(f, report) == kind = "tv" /\ Reported(f, report)
moviePlaybackProgress(f, report) == kind = "movie" /\ Reported(f, report)

(* Marking, either way, clears the position. *)
markWatched(S, watched) == Touch([f \in S |-> [rows[f] EXCEPT !.pos = 0, !.done = watched]])
tvMarkWatched(S, watched) ==
    /\ kind = "tv" /\ \/ \E f \in Files : S = {f}
                      \/ \E f \in Files : S = seasonEpisodeFiles(SeasonOf[f])
    /\ markWatched(S, watched)
movieMarkWatched(watched) == kind = "movie" /\ markWatched(Files, watched)

Next ==
    \/ \E f \in Files, report \in Reports : tvPlaybackProgress(f, report) \/ moviePlaybackProgress(f, report)
    \/ \E S \in SUBSET Files, watched \in BOOLEAN : tvMarkWatched(S, watched)
    \/ \E watched \in BOOLEAN : movieMarkWatched(watched)

Spec == Init /\ [][Next]_vars
-----------------------------------------------------------------------------
TypeOK ==
    /\ kind \in {"tv", "movie"} /\ acts \in 0 .. MaxActs /\ clock \in 1 .. MaxActs + 1
    /\ \A f \in Files : /\ rows[f].pos \in 0 .. 100 /\ rows[f].done \in BOOLEAN
                        /\ rows[f].at \in 0 .. clock

(* The order of the files in the show. *)
Before(f, g) == SeasonOf[f] < SeasonOf[g] \/ (SeasonOf[f] = SeasonOf[g] /\ Ahead(f, g))
Told(S) == \A f, g \in S : (f # g /\ rows[f].at # 0) => rows[f].at # rows[g].at

(* A card plays: the season the query finds has a file to continue with,   *)
(* the one that was left in the middle when that was the last thing        *)
(* touched; no file is left from that season on when there is no card; and *)
(* for somebody who watches every file in order, second copies too, the    *)
(* card is what the player would go on with.  Updates of one season within *)
(* the same second are not told apart.  A film's card is its newest copy,  *)
(* not finished, and there is none for a film marked watched.              *)
CardPlays ==
    /\ (kind = "tv" /\ \A f \in Files : Told(seasonEpisodeFiles(SeasonOf[f]))) =>
          \A last \in Newest(Files) :
             LET season == tvContinueWatchingQuery(last)
                 target == IF season = NoSeason THEN NoFile ELSE continueTarget(season)
             IN  /\ season # NoSeason => target # NoFile
                 /\ activeResume(rows[last]) => target = last
                 /\ target = NoFile =>
                       \A f \in Files : SeasonOf[f] >= SeasonOf[last] => effectivelyWatched(rows[f])
                 /\ (/\ \A f \in Files : Before(f, last) \/ f = last => effectivelyWatched(rows[f])
                     /\ \A f \in Files : Before(last, f) => rows[f].at = 0
                     /\ ~activeResume(rows[last])) => target = UpNext(last)
    /\ (kind = "movie" /\ Told(Files)) =>
          \A last \in Newest(Files) :
             loadMovieContinueWatching = {last} <=> (activeResume(rows[last]) \/ ~effectivelyWatched(rows[last]))
    /\ (kind = "movie" /\ \A f \in Files : rows[f].done /\ rows[f].pos = 0) =>
          loadMovieContinueWatching = {}
=============================================================================
