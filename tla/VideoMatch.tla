------------------------------ MODULE VideoMatch ------------------------------
(***************************************************************************)
(* TMDB matching of TV episodes and films: the match job                   *)
(* (internal/tmdb/matcher.go, movie.go), the metadata fetches pages ask    *)
(* for (web/handlers_person.go) and what people decide on the review pages *)
(* meanwhile (handlers_tv.go, handlers_movie.go).  One worker runs one job *)
(* at a time; people do not wait for it, and one of them uploads a picture *)
(* while another takes one away.  One picture stands for the poster,       *)
(* backdrop and season art of a title, and one person for its cast.        *)
(***************************************************************************)
EXTENDS Naturals, FiniteSets

CONSTANTS
    Files, TitleOf, EraOf,   \* [Files -> what its name was parsed to]
    Dated,                   \* files placed by air date, not by season
    Ids, Star,               \* titles of TMDB, and an actor who plays in all of them
    MaxActs                  \* bound on what people do

VARIABLES
    kind,      \* of the library: "tv" or "movie"
    row,       \* [status, id] of each file
    art,       \* [path, manual] of each title and of the person, NoArt without a row
    files,     \* pictures on disk: [picture -> "new" within the grace period, "old"]
    pc,        \* of the worker: "idle", "match", "gate", "download", "record", "cast", "store",
               \* "sweep"
    todo,      \* the match job's groups not looked up yet
    held,      \* what the worker is at: [files, id, what, keyed], no files for a fetch
    listed,    \* pictures rows named when the sweep read the database
    queued,    \* <<id, what, keyed>> of the fetches in the queue, what: "all", "backdrop", "cast"
    keys,      \* metaFetch: <<id, what>> of the fetches taken to be under way
    acts,
    upload,    \* the upload under way: [at, id, old, alone], at: "asked", "named", "read", "stored"
    taking,    \* the clear or unmatch under way: [at, id, old], at: "read", "deleted", "unmatched"
    word,      \* history: what a person decided of a file, None if nothing stands
    crossed    \* history: ids whose art a person changed while it was downloaded, or two at once

worker == <<pc, todo, held, listed>>
fetches == <<queued, keys>>
hands == <<upload, taking>>
history == <<word, crossed>>
vars == <<kind, row, art, files, worker, fetches, acts, hands, history>>

None == "none"
Open == [status |-> "unmatched", id |-> None]
NoPicture == <<None>>
NoArt == [path |-> NoPicture, manual |-> FALSE]
NoUpload == [at |-> None, id |-> None, old |-> NoPicture, alone |-> TRUE]
NoTaking == [at |-> None, id |-> None, old |-> NoPicture]
Free == [files |-> {}, id |-> None, what |-> "all", keyed |-> FALSE]
Tmdb(i) == <<"tmdb", i>>
Manual(i) == <<"manual", i>>
Write(p) == [f \in DOMAIN files \cup {p} |-> IF f = p THEN "new" ELSE files[f]]
Without(p) == [f \in DOMAIN files \ {p} |-> files[f]]

(* The movie sweep knows the films' pictures only, in a directory of theirs. *)
Named == {art[i].path : i \in IF kind = "tv" THEN Ids \cup {Star} ELSE Ids}

Init ==
    /\ kind \in {"tv", "movie"} /\ row = [f \in Files |-> Open]
    /\ art = [i \in Ids \cup {Star} |-> NoArt] /\ files = [p \in {} |-> "old"]
    /\ pc = "idle" /\ todo = {} /\ held = Free /\ listed = {}
    /\ queued = {} /\ keys = {} /\ acts = 0 /\ upload = NoUpload /\ taking = NoTaking
    /\ word = [f \in Files |-> None] /\ crossed = {}

-----------------------------------------------------------------------------
(* RunTVMatch, RunMovieMatch: files are looked up by title and year.       *)
Twin(f) == {g \in Files : TitleOf[g] = TitleOf[f] /\ EraOf[g] = EraOf[f]}

(* Mutated form: what was skipped is a candidate again. *)
CandidatesUnlessMatched == {f \in Files : row[f].status # "matched"}

Candidates == {f \in Files : row[f].status = "unmatched"}

BeginMatch ==
    /\ pc = "idle" /\ pc' = "match"
    /\ todo' = {Twin(f) \cap Candidates : f \in Candidates}
    /\ UNCHANGED <<kind, row, art, files, held, listed, fetches, acts, hands, history>>

(* A search that fails or finds nothing good enough leaves the group.      *)
Search(g, found) ==
    /\ pc = "match" /\ todo' = todo \ {g}
    /\ IF found = None THEN UNCHANGED <<pc, held>>
       ELSE pc' = "gate" /\ held' = [Free EXCEPT !.files = g, !.id = found]
    /\ UNCHANGED <<kind, row, art, files, listed, fetches, acts, hands, history>>

(* The fetches: all of a title, a show's backdrop, the cast of a title or a *)
(* person's own page.                                                      *)
Begin(i, what, keyed, stage) ==
    /\ pc = "idle" /\ <<i, what, keyed>> \in queued /\ queued' = queued \ {<<i, what, keyed>>}
    /\ pc' = stage /\ held' = [Free EXCEPT !.id = i, !.what = what, !.keyed = keyed]
    /\ UNCHANGED <<kind, row, art, files, todo, listed, keys, acts, hands, history>>
BeginShow(i) == kind = "tv" /\ Begin(i, "all", FALSE, "gate")
BeginFilm(i) == kind = "movie" /\ Begin(i, "all", TRUE, "gate")
BeginBackdrop(i) == Begin(i, "backdrop", TRUE, "gate")
BeginCast(i) == Begin(i, "cast", TRUE, "cast")
BeginPerson == Begin(Star, "cast", TRUE, "cast")

(* Mutated form: a film's picture is fetched whoever put the last one. *)
GatedNever(i) == FALSE

(* downloadMovieArt: a manual picture is not fetched; TV has none. *)
Gated(i) == art[i].manual

ThenCast == IF held.what = "backdrop" THEN "store" ELSE "cast"
GateShow ==
    /\ kind = "tv" /\ pc = "gate" /\ pc' = "download"
    /\ UNCHANGED <<kind, row, art, files, todo, held, listed, fetches, acts, hands, history>>
GateFilm ==
    /\ kind = "movie" /\ pc = "gate" /\ pc' = IF Gated(held.id) THEN "cast" ELSE "download"
    /\ UNCHANGED <<kind, row, art, files, todo, held, listed, fetches, acts, hands, history>>
Download(ok) ==
    /\ pc = "download" /\ pc' = IF ok THEN "record" ELSE ThenCast
    /\ files' = IF ok THEN Write(Tmdb(held.id)) ELSE files
    /\ UNCHANGED <<kind, row, art, todo, held, listed, fetches, acts, hands, history>>
Record ==
    /\ pc = "record" /\ pc' = ThenCast
    /\ art' = [art EXCEPT ![held.id].path = Tmdb(held.id)]
    /\ UNCHANGED <<kind, row, files, todo, held, listed, fetches, acts, hands, history>>

(* FetchTVCast, FetchMovieCast: a person without a portrait gets one,      *)
(* which nobody else touches.                                              *)
Cast(ok) ==
    /\ pc = "cast" /\ pc' = "store"
    /\ IF ok /\ art[Star] = NoArt
       THEN files' = Write(Tmdb(Star)) /\ art' = [art EXCEPT ![Star].path = Tmdb(Star)]
       ELSE UNCHANGED <<art, files>>
    /\ UNCHANGED <<kind, row, todo, held, listed, fetches, acts, hands, history>>

(* A fetch ends and frees its key, whether it succeeded or not.  A match   *)
(* writes the rows it listed, by id alone; an episode placed by its air    *)
(* date only when the date is found.                                       *)
Ended ==
    /\ pc' = "idle" /\ held' = Free
    /\ keys' = IF held.keyed THEN keys \ {<<held.id, held.what>>} ELSE keys
Matched(S) ==
    /\ pc = "store" /\ held.files # {} /\ pc' = "match" /\ held' = Free
    /\ row' = [f \in Files |-> IF f \in S THEN [status |-> "matched", id |-> held.id] ELSE row[f]]
    /\ UNCHANGED <<kind, art, files, todo, listed, fetches, acts, hands, history>>
StoreShow ==
    kind = "tv" /\ \E found \in SUBSET (held.files \cap Dated) : Matched(found \cup (held.files \ Dated))
StoreFilm == kind = "movie" /\ Matched(held.files)
EndFetch ==
    /\ pc = "store" /\ held.files = {} /\ Ended
    /\ UNCHANGED <<kind, row, art, files, todo, listed, queued, acts, hands, history>>
FetchFails ==
    /\ pc = "gate" \/ (pc = "cast" /\ held.what = "cast")
    /\ IF held.files = {} THEN Ended
       ELSE pc' = "match" /\ held' = Free /\ UNCHANGED keys
    /\ UNCHANGED <<kind, row, art, files, todo, listed, queued, acts, hands, history>>

SweepList ==
    /\ pc = "match" /\ todo = {} /\ pc' = "sweep" /\ listed' = Named
    /\ UNCHANGED <<kind, row, art, files, todo, held, fetches, acts, hands, history>>
SweepFile(p) ==
    /\ pc = "sweep" /\ p \notin listed /\ files[p] = "old" /\ files' = Without(p)
    /\ kind = "movie" => p # Tmdb(Star)
    /\ UNCHANGED <<kind, row, art, worker, fetches, acts, hands, history>>
EndMatch ==
    /\ pc = "sweep" /\ pc' = "idle" /\ listed' = {}
    /\ UNCHANGED <<kind, row, art, files, todo, held, fetches, acts, hands, history>>

(* The running job is cancelled at one of its requests. *)
CancelJob ==
    /\ pc \in {"match", "gate", "download", "cast"} /\ todo' = {} /\ listed' = {} /\ Ended
    /\ UNCHANGED <<kind, row, art, files, queued, acts, hands, history>>

-----------------------------------------------------------------------------
(* People, and the pages they open. *)
Begun == acts < MaxActs /\ acts' = acts + 1 /\ UNCHANGED <<kind, worker>>
Act == Begun /\ UNCHANGED hands
Exposed(f) == pc # "idle" /\ f \in held.files \cup UNION todo
Crossing(i) == held.id = i /\ pc \in {"download", "record"}

(* The review page lists episodes by title, films by title and year.       *)
GroupOfShow(f) == {g \in Files : kind = "tv" /\ TitleOf[g] = TitleOf[f]}
GroupOfFilm(f) == {g \in Twin(f) : kind = "movie"}
Decide(S, as, what) ==
    /\ S # {}
    /\ row' = [f \in Files |-> IF f \in S THEN as ELSE row[f]]
    /\ word' = [f \in Files |-> IF f \in S THEN (IF Exposed(f) THEN None ELSE what) ELSE word[f]]

(* enqueueMetaFetch, enqueueMovieMetaFetch: at most one per key, and none  *)
(* when the queue is full or no API key is set.                            *)
Enqueue(i, what) ==
    \/ UNCHANGED fetches
    \/ /\ <<i, what>> \notin keys /\ keys' = keys \cup {<<i, what>>}
       /\ queued' = queued \cup {<<i, what, TRUE>>}

(* An approved show is fetched without a key.                              *)
ApproveShow(f, i) ==
    /\ Decide(GroupOfShow(f) \cap Candidates, [status |-> "matched", id |-> i], i)
    /\ queued' \in {queued, queued \cup {<<i, "all", FALSE>>}} /\ UNCHANGED keys
    /\ Act /\ UNCHANGED <<art, files, crossed>>
ApproveFilm(f, i) ==
    /\ Decide(GroupOfFilm(f) \cap Candidates, [status |-> "matched", id |-> i], i)
    /\ Enqueue(i, "all") /\ Act /\ UNCHANGED <<art, files, crossed>>
Skipped(S) ==
    /\ Decide(S \cap Candidates, [status |-> "skipped", id |-> None], "skipped")
    /\ Act /\ UNCHANGED <<art, files, fetches, crossed>>
SkipShow(f) == Skipped(GroupOfShow(f))
SkipFilm(f) == Skipped(GroupOfFilm(f))
Rematch(f) ==
    /\ Decide(GroupOfShow(f) \ Candidates, Open, None)
    /\ Act /\ UNCHANGED <<art, files, fetches, crossed>>

(* Each of these handlers is several statements, and two of them may run   *)
(* at once.  What is done to the art of a title:                           *)
Reach(i, new) ==
    /\ art' = [art EXCEPT ![i] = new]
    /\ crossed' = IF Crossing(i) THEN crossed \cup {i} ELSE crossed
Handled == UNCHANGED <<kind, row, worker, acts, word>>

(* movieArtUpload: the check, the file under its one name of the title,    *)
(* the path the row names, the row, and the file it named before.          *)
Upload(i) ==
    /\ kind = "movie" /\ upload = NoUpload
    /\ \E f \in Files : row[f] = [status |-> "matched", id |-> i]
    /\ upload' = [at |-> "asked", id |-> i, old |-> NoPicture, alone |-> taking.id # i]
    /\ Begun /\ UNCHANGED <<row, art, files, fetches, taking, history>>
UploadFile ==
    /\ upload.at = "asked" /\ upload' = [upload EXCEPT !.at = "named"]
    /\ files' = Write(Manual(upload.id))
    /\ Handled /\ UNCHANGED <<art, fetches, taking, crossed>>
UploadRead ==
    /\ upload.at = "named"
    /\ upload' = [at |-> "read", id |-> upload.id, old |-> art[upload.id].path, alone |-> upload.alone]
    /\ Handled /\ UNCHANGED <<art, files, fetches, taking, crossed>>

(* Mutated form: the old file is removed though it is the new one's name. *)
SupersedesAlways(old, i) == old # NoPicture

Supersedes(old, i) == old \notin {NoPicture, Manual(i)}
UploadRow ==
    LET i == upload.id IN
    /\ upload.at = "read"
    /\ upload' = IF Supersedes(upload.old, i) THEN [upload EXCEPT !.at = "stored"] ELSE NoUpload
    /\ art' = [art EXCEPT ![i] = [path |-> Manual(i), manual |-> TRUE]]
    /\ crossed' = IF Crossing(i) \/ ~upload.alone THEN crossed \cup {i} ELSE crossed \ {i}
    /\ Handled /\ UNCHANGED <<files, fetches, taking>>
UploadRemove ==
    /\ upload.at = "stored" /\ upload' = NoUpload /\ files' = Without(upload.old)
    /\ Handled /\ UNCHANGED <<art, fetches, taking, crossed>>

(* What an upload that is under way has to do with.                        *)
Take(i, at, old) ==
    /\ taking = NoTaking /\ taking' = [at |-> at, id |-> i, old |-> old]
    /\ upload' = [upload EXCEPT !.alone = @ /\ upload.id # i]
    /\ crossed' = IF upload.id = i THEN crossed \cup {i} ELSE crossed

(* movieUnmatch: its files are open again, then its pictures are nobody's. *)
Unmatch(i) ==
    /\ kind = "movie"
    /\ Decide({f \in Files : row[f] = [status |-> "matched", id |-> i]}, Open, None)
    /\ Take(i, "unmatched", NoPicture)
    /\ Begun /\ UNCHANGED <<art, files, fetches>>
UnmatchArt ==
    /\ taking.at = "unmatched" /\ taking' = NoTaking
    /\ Reach(taking.id, NoArt)
    /\ Handled /\ UNCHANGED <<files, fetches, upload>>

(* movieArtClear: the path of a manual row, the row, the file, and TMDB's  *)
(* picture is asked for again.                                             *)
ClearArt(i) ==
    /\ kind = "movie" /\ Take(i, "read", IF art[i].manual THEN art[i].path ELSE NoPicture)
    /\ Begun /\ UNCHANGED <<row, art, files, fetches, word>>
ClearRow ==
    /\ taking.at = "read" /\ taking' = [taking EXCEPT !.at = "deleted"]
    /\ Reach(taking.id, IF art[taking.id].manual THEN NoArt ELSE art[taking.id])
    /\ Handled /\ UNCHANGED <<files, fetches, upload>>
ClearFile ==
    /\ taking.at = "deleted" /\ taking' = NoTaking
    /\ files' = Without(taking.old) /\ Enqueue(taking.id, "all")
    /\ Handled /\ UNCHANGED <<art, upload, crossed>>

(* A rename or a statement of one fails, and it stops there.               *)
HandlerFails ==
    /\ \/ upload.at \in {"asked", "read"} /\ upload' = NoUpload /\ UNCHANGED taking
       \/ taking.at \in {"read", "unmatched"} /\ taking' = NoTaking /\ UNCHANGED upload
    /\ Handled /\ UNCHANGED <<art, files, fetches, crossed>>

(* A page finds metadata missing; somebody cancels a fetch that waits, and *)
(* the worker drops it unrun.                                              *)
Seen == Act /\ UNCHANGED <<row, art, files, history>>
ViewShow(i) == kind = "tv" /\ \E what \in {"cast", "backdrop"} : Enqueue(i, what) /\ Seen
ViewFilm(i) == kind = "movie" /\ Enqueue(i, "cast") /\ Seen
ViewPerson == Enqueue(Star, "cast") /\ Seen
CancelQueued(fetch) ==
    /\ queued' = queued \ {fetch}
    /\ Act /\ UNCHANGED <<row, art, files, keys, history>>

Restart ==
    /\ acts < MaxActs /\ acts' = acts + 1
    /\ pc' = "idle" /\ todo' = {} /\ held' = Free /\ listed' = {} /\ queued' = {} /\ keys' = {}
    /\ upload' = NoUpload /\ taking' = NoTaking /\ UNCHANGED <<kind, row, art, files, history>>

(* The grace period passes, ten minutes, which no handler takes. *)
Age ==
    /\ pc = "idle" /\ upload = NoUpload /\ files' = [p \in DOMAIN files |-> "old"]
    /\ UNCHANGED <<kind, row, art, worker, fetches, acts, hands, history>>

Next ==
    \/ BeginMatch \/ GateShow \/ GateFilm \/ Record \/ StoreShow \/ StoreFilm \/ EndFetch
    \/ FetchFails \/ SweepList \/ EndMatch \/ CancelJob
    \/ \E g \in todo, found \in Ids \cup {None} : Search(g, found)
    \/ \E ok \in BOOLEAN : Download(ok) \/ Cast(ok)
    \/ \E p \in DOMAIN files : SweepFile(p)
    \/ \E f \in Files : \/ SkipShow(f) \/ SkipFilm(f) \/ Rematch(f)
                        \/ \E i \in Ids : ApproveShow(f, i) \/ ApproveFilm(f, i)
    \/ \E i \in Ids : \/ Unmatch(i) \/ Upload(i) \/ ClearArt(i) \/ ViewShow(i) \/ ViewFilm(i)
                      \/ BeginShow(i) \/ BeginFilm(i) \/ BeginBackdrop(i) \/ BeginCast(i)
    \/ \E fetch \in queued : CancelQueued(fetch)
    \/ UploadFile \/ UploadRead \/ UploadRow \/ UploadRemove \/ UnmatchArt \/ ClearRow \/ ClearFile
    \/ HandlerFails \/ ViewPerson \/ BeginPerson \/ Restart \/ Age

Spec == Init /\ [][Next]_vars
-----------------------------------------------------------------------------
TypeOK ==
    /\ kind \in {"tv", "movie"} /\ acts \in 0 .. MaxActs
    /\ \A f \in Files : /\ row[f].status \in {"unmatched", "matched", "skipped"}
                         /\ row[f].id \in Ids \cup {None}
                         /\ row[f].status = "matched" <=> row[f].id # None
    /\ \A i \in Ids : art[i].manual => kind = "movie"
    /\ held.files \subseteq Files /\ (held.id = None <=> pc \in {"idle", "match", "sweep"})
    /\ keys \subseteq (Ids \cup {Star}) \X {"all", "backdrop", "cast"}
    /\ queued \subseteq (Ids \cup {Star}) \X {"all", "backdrop", "cast"} \X BOOLEAN
    /\ upload.at # None => upload.id \in Ids /\ upload.at \in {"asked", "named", "read", "stored"}
    /\ taking.at # None => taking.id \in Ids /\ taking.at \in {"read", "deleted", "unmatched"}

(* What a person decides stands: a title approved or skipped stays so      *)
(* through every later match job, until a person takes it back; a job that *)
(* had already listed the file may overwrite it.  An uploaded picture      *)
(* stays the film's, and a picture a row names, a portrait included, is on *)
(* disk, unless the picture was changed in the middle of a download, or an *)
(* upload of it overlapped a clear or an unmatch, and none came after it   *)
(* alone.                                                                  *)
DecisionsStand ==
    /\ \A f \in Files : word[f] # None =>
          row[f] = IF word[f] = "skipped" THEN [status |-> "skipped", id |-> None]
                   ELSE [status |-> "matched", id |-> word[f]]
    /\ \A i \in (Ids \cup {Star}) \ crossed :
          /\ art[i].manual => art[i].path = Manual(i)
          /\ art[i].path \in DOMAIN files \cup {NoPicture}

(* "A manual upload owns this art — never overwrite it on (re)match."      *)
(* (internal/tmdb/movie.go:318)                                            *)
ManualArtStands == \A i \in Ids : art[i].manual => art[i].path = Manual(i)

(* A page that finds metadata missing "fires at most one job per entity    *)
(* while it's queued/running" (handlers_person.go:50), and can fire one    *)
(* when none is.                                                           *)
KeyHeldByJob ==
    \A k \in keys : <<k[1], k[2], TRUE>> \in queued \/ (held.keyed /\ <<held.id, held.what>> = k)
=============================================================================
