------------------------------ MODULE MusicMatch ------------------------------
(***************************************************************************)
(* A music_match job (internal/match/pipeline.go) over the albums and      *)
(* artists of a library, and what people do to them meanwhile              *)
(* (web/handlers_music.go, handlers_music_artist.go): every answer of a    *)
(* provider arrives after a wait, and is stored by an UPDATE that may or   *)
(* may not look at the row again.  Covers are files under thumbs/music     *)
(* that art_path names; the job ends by sweeping the files nothing names   *)
(* (internal/thumbgc).                                                     *)
(***************************************************************************)
EXTENDS Integers, FiniteSets

CONSTANTS
    Albums, Artists,
    Groups,    \* release groups, also the artists' identities
    MaxActs    \* bound on what people do

VARIABLES
    album,     \* [status, rg, art, tried, artTried]
    artist,    \* [mbid, bio, art, tried]
    files,     \* [cover -> "new" within the grace period, "old"]
    phase, todo, force,
    held,      \* the row as the job read it, and what it found for it
    listed,    \* covers that were named when the sweep read the database
    acts,
    chosen,    \* history: albums whose cover a person uploaded
    rejected,  \* history: albums a person rejected for good
    identity,  \* history: [artist -> the mbid a person chose]
    bare       \* history: covers named without being written, from the tags

job == <<phase, todo, force, held, listed>>
history == <<chosen, rejected, identity, bare>>
vars == <<album, artist, files, job, acts, history>>

None == "none"
Tries == {"never", "recent", "stale"}    \* a *_checked_at stamp against its TTL
NoCover == <<None>>
NoHold == [of |-> None, rg |-> None, hadBio |-> FALSE, hadArt |-> FALSE, cover |-> NoCover]
Embedded(a) == <<"embedded", a>>
Manual(a) == <<"manual", a>>
Fetched(g) == <<"caa", g>>
Named == {album[a].art : a \in Albums} \cup {artist[b].art : b \in Artists}
Written(c) == files' = [f \in DOMAIN files \cup {c} |-> IF f = c THEN "new" ELSE files[f]]

Init ==
    /\ album \in [Albums -> {[status |-> "", rg |-> None, art |-> NoCover, tried |-> "never",
                              artTried |-> "never"]}]
    /\ artist = [b \in Artists |-> [mbid |-> None, bio |-> None, art |-> NoCover, tried |-> "never"]]
    /\ files = [c \in {Embedded(a) : a \in Albums} |-> "old"]
    /\ phase = "idle" /\ todo = {} /\ force = FALSE /\ held = NoHold /\ listed = {}
    /\ acts = 0 /\ chosen = {} /\ rejected = {} /\ identity = [b \in Artists |-> None] /\ bare = {}

-----------------------------------------------------------------------------
(* RunMusicMatch: each phase reads its candidates when it begins, and an   *)
(* automatic run leaves out what it tried within the TTL.                  *)
Due(stamp) == force \/ stamp # "recent"
Resting == held = NoHold
Begin(p, S) == phase' = p /\ todo' = S /\ held' = NoHold
BeginJob(f) ==
    /\ phase = "idle" /\ force' = f
    /\ Begin("enrich", {b \in Artists : f \/ artist[b].tried # "recent"})
    /\ UNCHANGED <<album, artist, files, listed, acts, history>>
(* Mutated form: what was rejected is a candidate again. *)
CandidatesUnlessMatched == {a \in Albums : album[a].status # "matched" /\ Due(album[a].tried)}

Candidates == {a \in Albums : album[a].status \in {"", "unmatched"} /\ Due(album[a].tried)}

BeginMatch ==
    /\ phase = "enrich" /\ Resting /\ todo = {} /\ Begin("match", Candidates)
    /\ UNCHANGED <<album, artist, files, force, listed, acts, history>>
BeginRefetch ==
    /\ phase = "match" /\ Resting /\ todo = {}
    /\ Begin("refetch", {a \in Albums : /\ album[a].status = "matched" /\ album[a].art = NoCover
                                         /\ album[a].rg # None /\ album[a].artTried # "recent"})
    /\ UNCHANGED <<album, artist, files, force, listed, acts, history>>

Take(x) == Resting /\ x \in todo /\ todo' = todo \ {x} /\ UNCHANGED <<phase, force, listed>>
Continue == ~Resting /\ UNCHANGED <<phase, todo, force, listed>>

(* enrichArtists: an incomplete artist is stamped, looked up by name if it *)
(* has no identity, then bio and image are fetched for that identity.      *)
EnrichBegin(b) ==
    /\ phase = "enrich" /\ Take(b)
    /\ LET had == [of |-> b, rg |-> artist[b].mbid, hadBio |-> artist[b].bio # None,
                   hadArt |-> artist[b].art # NoCover, cover |-> NoCover]
           complete == had.rg # None /\ had.hadBio /\ had.hadArt
       IN /\ held' = IF complete THEN NoHold ELSE had
          /\ artist' = IF complete THEN artist ELSE [artist EXCEPT ![b].tried = "recent"]
    /\ UNCHANGED <<album, files, acts, history>>
EnrichSearched(found) ==
    /\ phase = "enrich" /\ Continue /\ held.rg = None
    /\ held' = IF found = None THEN NoHold ELSE [held EXCEPT !.rg = found]
    /\ artist' = IF found = None THEN artist ELSE [artist EXCEPT ![held.of].mbid = found]
    /\ UNCHANGED <<album, files, acts, history>>
EnrichFetched(bio, image) ==
    /\ phase = "enrich" /\ Continue /\ held.rg # None
    /\ held' = NoHold
    /\ artist' = [artist EXCEPT
          ![held.of].bio = IF ~held.hadBio /\ bio THEN held.rg ELSE @,
          ![held.of].art = IF ~held.hadArt /\ image THEN Fetched(held.rg) ELSE @]
    /\ IF image /\ ~(held.hadBio /\ held.hadArt) THEN Written(Fetched(held.rg)) ELSE UNCHANGED files
    /\ UNCHANGED <<album, acts, history>>

(* matchAlbum: stamped, searched, and stored by id alone.                  *)
MatchBegin(a) ==
    /\ phase = "match" /\ Take(a)
    /\ album' = [album EXCEPT ![a].tried = "recent"]
    /\ held' = [NoHold EXCEPT !.of = a]
    /\ UNCHANGED <<artist, files, acts, history>>
MatchFound(g) ==
    /\ phase = "match" /\ Continue /\ held.rg = None
    /\ album' = IF g = None THEN [album EXCEPT ![held.of].status = "unmatched"]
                ELSE [album EXCEPT ![held.of].status = "matched", ![held.of].rg = g]
    /\ held' = IF g = None THEN NoHold ELSE [held EXCEPT !.rg = g]
    /\ UNCHANGED <<artist, files, acts, history>>
RefetchBegin(a) ==
    /\ phase = "refetch" /\ Take(a)
    /\ held' = [NoHold EXCEPT !.of = a, !.rg = album[a].rg]
    /\ UNCHANGED <<album, artist, files, acts, history>>

(* Mutated form: the cover that was fetched is stored whatever is there. *)
CoveredAlways(al, a, c) == [al EXCEPT ![a].art = c]

(* The writers of art_path that no person asked for only fill an empty one. *)
Covered(al, a, c) == IF al[a].art = NoCover THEN [al EXCEPT ![a].art = c] ELSE al

(* fetchAlbumArt: a cover of the matched group, or of a sibling, is a file *)
(* before the row names it.  The second pass looks at the row again.       *)
CoverWritten(g) ==
    /\ phase \in {"match", "refetch"} /\ Continue /\ held.rg # None /\ held.cover = NoCover
    /\ Written(Fetched(g)) /\ held' = [held EXCEPT !.cover = Fetched(g)]
    /\ UNCHANGED <<album, artist, acts, history>>
StillMatched == album[held.of].status = "matched" /\ album[held.of].rg = held.rg
CoverDone(found) ==
    /\ phase \in {"match", "refetch"} /\ Continue /\ held.rg # None
    /\ found <=> held.cover # NoCover
    /\ LET filled == IF found THEN Covered(album, held.of, held.cover) ELSE album
       IN album' = IF phase = "match" THEN filled
                   ELSE IF StillMatched THEN [filled EXCEPT ![held.of].artTried = "recent"]
                   ELSE album
    /\ held' = NoHold
    /\ UNCHANGED <<artist, files, acts, history>>

(* thumbgc.Sweep: what the database names, then each file that it did not  *)
(* and that nobody wrote within the grace period.                          *)
SweepList ==
    /\ phase = "refetch" /\ Resting /\ todo = {}
    /\ listed' = Named /\ Begin("sweep", {}) /\ UNCHANGED <<album, artist, files, force, acts, history>>

(* Mutated form: no grace for a file that was just written. *)
SweptNow(c) == c \notin listed

Swept(c) == c \notin listed /\ files[c] = "old"

SweepFile(c) ==
    /\ phase = "sweep" /\ Swept(c)
    /\ files' = [f \in DOMAIN files \ {c} |-> files[f]]
    /\ UNCHANGED <<album, artist, job, acts, history>>
EndJob ==
    /\ phase = "sweep" /\ Begin("idle", {}) /\ listed' = {}
    /\ UNCHANGED <<album, artist, files, force, acts, history>>
CancelJob ==
    /\ phase # "idle" /\ Begin("idle", {}) /\ listed' = {}
    /\ UNCHANGED <<album, artist, files, force, acts, history>>

-----------------------------------------------------------------------------
Act == acts < MaxActs /\ acts' = acts + 1 /\ UNCHANGED job

(* musicAlbumArtUpload: the file, then, unless the update fails, the row.  *)
UploadFile(a) == Act /\ Written(Manual(a)) /\ UNCHANGED <<album, artist, history>>
UploadRow(a) ==
    /\ Manual(a) \in DOMAIN files /\ files[Manual(a)] = "new"
    /\ album[a].art # Manual(a)
    /\ album' = [album EXCEPT ![a].art = Manual(a)] /\ chosen' = chosen \cup {a}
    /\ Act /\ UNCHANGED <<artist, files, rejected, identity, bare>>
ClearArt(a) ==
    /\ album' = [album EXCEPT ![a].art = NoCover, ![a].artTried = "never"]
    /\ chosen' = chosen \ {a} /\ Act /\ UNCHANGED <<artist, files, rejected, identity, bare>>
Unmatch(a) ==
    /\ album' = [album EXCEPT ![a] = [status |-> "", rg |-> None, art |-> NoCover,
                                      tried |-> "never", artTried |-> "never"]]
    /\ chosen' = chosen \ {a} /\ rejected' = rejected \ {a}
    /\ Act /\ UNCHANGED <<artist, files, identity, bare>>

(* The review page: albums the job left unmatched are approved as they are *)
(* (musicMatchApprove, musicMatchApproveAll), any album is rejected or     *)
(* offered again.  A job that had listed the album does not look.          *)
Exposed(a) == phase = "match" /\ (a \in todo \/ held.of = a)
Approve(S) ==
    /\ album' = [a \in Albums |-> IF a \in S /\ album[a].status = "unmatched"
                                   THEN [album[a] EXCEPT !.status = "matched"] ELSE album[a]]
    /\ Act /\ UNCHANGED <<artist, files, history>>
Reject(a) ==
    /\ album' = [album EXCEPT ![a].status = "skipped", ![a].rg = None]
    /\ rejected' = IF Exposed(a) THEN rejected \ {a} ELSE rejected \cup {a}
    /\ Act /\ UNCHANGED <<artist, files, chosen, identity, bare>>
Rematch(a) ==
    /\ album' = [album EXCEPT ![a].status = "", ![a].rg = None]
    /\ rejected' = rejected \ {a}
    /\ Act /\ UNCHANGED <<artist, files, chosen, identity, bare>>

(* musicAlbumReassign, with the cover RefetchAlbumArt finds if any.        *)
Reassign(a, g, cover) ==
    /\ album' = [album EXCEPT ![a].status = "matched", ![a].rg = g,
                              ![a].art = IF cover THEN Fetched(g) ELSE NoCover, ![a].artTried = "recent"]
    /\ IF cover THEN Written(Fetched(g)) ELSE UNCHANGED files
    /\ chosen' = chosen \ {a} /\ rejected' = rejected \ {a}
    /\ Act /\ UNCHANGED <<artist, identity, bare>>

(* Tags with an embedded cover are read again, off the queue: a file that  *)
(* is there is named as it is (saveEmbeddedArt).                           *)
ReadTags(a) ==
    /\ album[a].art = NoCover
    /\ album' = Covered(album, a, Embedded(a))
    /\ IF Embedded(a) \in DOMAIN files
       THEN bare' = bare \cup {Embedded(a)} /\ UNCHANGED files
       ELSE Written(Embedded(a)) /\ UNCHANGED bare
    /\ Act /\ UNCHANGED <<artist, chosen, rejected, identity>>

(* musicArtistDisambiguate: the identity, then what it finds for it.       *)
Disambiguate(b, g, bio, image) ==
    /\ artist' = [artist EXCEPT ![b] = [mbid |-> g, bio |-> IF bio THEN g ELSE None,
                      art |-> IF image THEN Fetched(g) ELSE NoCover, tried |-> "never"]]
    /\ IF image THEN Written(Fetched(g)) ELSE UNCHANGED files
    /\ identity' = [identity EXCEPT ![b] = g] /\ Act /\ UNCHANGED <<album, chosen, rejected, bare>>

(* Time passes the grace period and the TTLs. *)
Age ==
    /\ phase = "idle"
    /\ files' = [c \in DOMAIN files |-> "old"]
    /\ album' = [a \in Albums |-> [album[a] EXCEPT !.tried = IF @ = "never" THEN @ ELSE "stale",
                                   !.artTried = IF @ = "never" THEN @ ELSE "stale"]]
    /\ artist' = [b \in Artists |-> [artist[b] EXCEPT !.tried = IF @ = "never" THEN @ ELSE "stale"]]
    /\ UNCHANGED <<job, acts, history>>

Next ==
    \/ \E f \in BOOLEAN : BeginJob(f) \/ CoverDone(f)
    \/ BeginMatch \/ BeginRefetch \/ SweepList \/ EndJob \/ CancelJob \/ Age
    \/ \E b \in Artists : EnrichBegin(b)
    \/ \E g \in Groups \cup {None} : EnrichSearched(g) \/ MatchFound(g)
    \/ \E bio, image \in BOOLEAN : EnrichFetched(bio, image)
    \/ \E a \in Albums : MatchBegin(a) \/ RefetchBegin(a) \/ UploadFile(a) \/ UploadRow(a)
                          \/ ClearArt(a) \/ Unmatch(a) \/ ReadTags(a) \/ Reject(a) \/ Rematch(a)
    \/ \E S \in {Albums} \cup {{a} : a \in Albums} : Approve(S)
    \/ \E a \in Albums, g \in Groups, cover \in BOOLEAN : Reassign(a, g, cover)
    \/ \E g \in Groups : CoverWritten(g)
    \/ \E c \in DOMAIN files : SweepFile(c)
    \/ \E b \in Artists, g \in Groups, bio, image \in BOOLEAN : Disambiguate(b, g, bio, image)

Spec == Init /\ [][Next]_vars
-----------------------------------------------------------------------------
TypeOK ==
    /\ phase \in {"idle", "enrich", "match", "refetch", "sweep"}
    /\ todo \subseteq Albums \cup Artists
    /\ \A a \in Albums : /\ album[a].status \in {"", "matched", "unmatched", "skipped"}
                          /\ album[a].rg \in Groups \cup {None}
                          /\ {album[a].tried, album[a].artTried} \subseteq Tries
                          /\ album[a].status = "skipped" => album[a].rg = None
    /\ \A b \in Artists : artist[b].mbid \in Groups \cup {None} /\ artist[b].tried \in Tries

(* What a person uploaded as a cover stays the cover through every job and *)
(* rescan, even those under way, until a person acts on the album; and no  *)
(* sweep takes a file an album or artist names, except one the tags named  *)
(* again without writing it.  An album rejected while no job had listed it *)
(* stays rejected until a person acts on it.                               *)
ChoicesStand ==
    /\ \A a \in chosen : album[a].art = Manual(a)
    /\ \A a \in rejected : album[a].status = "skipped"
    /\ Named \ ({NoCover} \cup bare) \subseteq DOMAIN files

(* "no file is ever deleted that is needed" for those too                  *)
(* (internal/thumbgc/thumbgc.go:33 "so a needed image is never deleted").  *)
NeededNeverDeleted == Named \ {NoCover} \subseteq DOMAIN files

(* A person's choice of an artist's identity is not undone by a job that   *)
(* looked the artist up before.                                            *)
IdentityStands == \A b \in Artists : identity[b] # None => artist[b].mbid = identity[b]
=============================================================================
