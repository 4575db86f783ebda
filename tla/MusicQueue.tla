----------------------------- MODULE MusicQueue ------------------------------
(***************************************************************************)
(* From what a person asks of hesplay to the queue that plays: the verb    *)
(* and name are resolved against the server's search (cmd/hesplay), the    *)
(* query is turned into a queue by the server (web/handlers_music.go and   *)
(* handlers_music_mix.go), which draws a mix track by track, and hesplay   *)
(* starts it somewhere.  A name is what the search rows say of it.         *)
(***************************************************************************)
EXTENDS Integers, Sequences, FiniteSetsExt, SequencesExt, Orders

CONSTANTS
    Tracks,     \* the catalog in order: [artist, album, song, pop]
    Playlist,   \* the tracks of the one playlist, whose id is 1
    Similar,    \* [artist -> score] of the seeds' cached similar artists
    PerArtist, IncludeAll, MixTarget, MixCap, MixSeedCap,
    Wishes      \* what people ask: by id, or by a name some rows of the search match

VARIABLES
    ask,     \* [verb, by, id, rows, numeric, shuffle, from]
    pc,      \* "asked", "resolved", "drawing", "queued", "refused"
    query,   \* [source, id, shuffle], as sent to the server
    pool,    \* a mix: the tracks left to draw from
    queue, from

vars == <<ask, pc, query, pool, queue, from>>

Id == DOMAIN Tracks
Artist == {Tracks[i].artist : i \in Id}
Album == {Tracks[i].album : i \in Id}
SongOf(i) == <<Tracks[i].artist, Tracks[i].song>>   \* trackSongKey
NoQuery == [source |-> "none", id |-> 0, shuffle |-> FALSE]
Sources == {"popular", "all", "album", "artist", "mix", "song", "playlist"}

-----------------------------------------------------------------------------
(* pickSearchRow: the first exact match a caller can use, else the first   *)
(* it can use.  0 is none.                                                 *)
Usable(rows, any) == {k \in DOMAIN rows : any \/ rows[k].fits}
Pick(rows, any) ==
    LET usable == Usable(rows, any)
        exact == {k \in usable : rows[k].exact}
    IN IF exact # {} THEN Min(exact) ELSE IF usable # {} THEN Min(usable) ELSE 0

(* resolveSearch, resolveSong: 0 is an error. *)
Found(rows, any, numeric) ==
    LET k == Pick(rows, any)
    IN IF k = 0 THEN numeric ELSE IF rows[k].fits THEN rows[k].id ELSE 0

(* resolvePlaylist: exact, else the only one that contains it, else an id. *)
FoundPlaylist(rows, numeric) ==
    LET exact == {k \in DOMAIN rows : rows[k].exact}
        fits == {k \in DOMAIN rows : rows[k].fits}
    IN IF exact # {} THEN rows[Min(exact)].id
       ELSE IF Cardinality(fits) = 1 THEN rows[Min(fits)].id ELSE numeric

(* resolveAndStart, resolveQueueQuery: an id is addressed directly. *)
Resolved(a) ==
    CASE a.verb \in {"popular", "all"} -> 0
      [] a.verb \notin {"popular", "all"} /\ a.by = "id" -> a.id
      [] a.verb \in {"album", "artist", "mix"} /\ a.by = "name" -> Found(a.rows, FALSE, a.numeric)
      [] a.verb = "song" /\ a.by = "name" -> Found(a.rows, TRUE, a.numeric)
      [] a.verb = "playlist" /\ a.by = "name" -> FoundPlaylist(a.rows, a.numeric)
      [] OTHER -> 0

(* Mutated form: an album is asked for as a source the server shuffles. *)
SourceOfSwept(verb) == CASE verb = "song" -> "track" [] verb = "album" -> "artist" [] OTHER -> verb

(* queueParams. *)
SourceOf(verb) == CASE verb = "song" -> "track" [] OTHER -> verb

Refuse == pc' = "refused" /\ UNCHANGED <<ask, query, pool, queue, from>>
Resolve ==
    /\ pc = "asked"
    /\ IF ask.verb \in Sources /\ (ask.verb \in {"popular", "all"} \/ Resolved(ask) > 0)
       THEN /\ query' = [source |-> SourceOf(ask.verb), id |-> Resolved(ask),
                         shuffle |-> ask.shuffle]
            /\ pc' = "resolved" /\ UNCHANGED <<ask, pool, queue, from>>
       ELSE IF ask.verb = "radio"    \* the web player's mix from a track
       THEN /\ query' = [source |-> "radio", id |-> ask.id, shuffle |-> FALSE]
            /\ pc' = "resolved" /\ UNCHANGED <<ask, pool, queue, from>>
       ELSE Refuse

-----------------------------------------------------------------------------
(* The most popular tracks of one artist: all of a small one's, else the   *)
(* first PerArtist of those anybody listens to.                            *)
Of(artist) == {i \in Id : Tracks[i].artist = artist}
Ranked(i) ==
    Cardinality({j \in Of(Tracks[i].artist) :
        Tracks[j].pop > Tracks[i].pop \/ (Tracks[j].pop = Tracks[i].pop /\ j <= i)})
Popular(i) ==
    \/ Cardinality(Of(Tracks[i].artist)) <= IncludeAll
    \/ Tracks[i].pop > 0 /\ Ranked(i) <= PerArtist

Exists(q) ==
    CASE q.source = "artist" -> q.id \in Artist
      [] q.source = "album" -> q.id \in Album
      [] q.source = "playlist" -> q.id = 1
      [] q.source = "track" -> q.id \in Id
      [] OTHER -> TRUE

(* The rows of a query, in the order of the catalog. *)
Rows(q) ==
    IF q.source = "playlist" THEN Playlist
    ELSE InOrder({i \in Id : CASE q.source = "artist" -> Tracks[i].artist = q.id
                               [] q.source = "album" -> Tracks[i].album = q.id
                               [] q.source = "track" -> i = q.id
                               [] q.source = "popular" -> Popular(i)
                               [] OTHER -> TRUE})

(* Mutated form: recordings are told apart by their title alone. *)
FirstsByTitle(s) ==
    {k \in DOMAIN s : \A m \in 1 .. k - 1 : Tracks[s[m]].song # Tracks[s[k]].song}

(* dedupeByTitle: the first recording of each song. *)
Firsts(s) == {k \in DOMAIN s : \A m \in 1 .. k - 1 : SongOf(s[m]) # SongOf(s[k])}
Deduped(s) ==
    LET first == InOrder(Firsts(s)) IN [n \in 1 .. Cardinality(Firsts(s)) |-> s[first[n]]]

Sweeps == {"artist", "all", "popular"}
Answer(q) == queue' = q /\ pc' = IF q = <<>> THEN "refused" ELSE "queued"

(* buildPlayerQueue: a shuffled sweep keeps one recording of each song. *)
Build ==
    /\ pc = "resolved" /\ query.source \notin {"mix", "radio"}
    /\ IF ~Exists(query) THEN Refuse
       ELSE /\ IF query.shuffle /\ query.source \in Sweeps
               THEN \E p \in SetToSeqs(ToSet(Rows(query))) : Answer(Deduped(p))
               ELSE Answer(Rows(query))
            /\ UNCHANGED <<ask, query, pool, from>>

(* Mutated form: the seed does not stand for its song. *)
PoolForgetsSeed(rows, seed) == ToSet(Deduped(InOrder(rows \ {seed})))

(* drawMix: one recording of each song, and none of the seed's. *)
PoolOf(rows, seed) ==
    ToSet(Deduped(InOrder({i \in rows : seed = 0 \/ SongOf(i) # SongOf(seed)})))

(* buildMixQueue: the pool of the seed and of its similar artists; a seed  *)
(* track opens the mix if it is among them.                                *)
SeedArtist == IF query.source = "radio" THEN Tracks[query.id].artist ELSE query.id
BeginMix ==
    /\ pc = "resolved" /\ query.source \in {"mix", "radio"}
    /\ IF query.source = "mix" /\ query.id \notin Artist THEN Refuse
       ELSE LET artists == {SeedArtist} \cup DOMAIN Similar
                rows == {i \in Id : Tracks[i].artist \in artists /\ Popular(i)}
                seed == IF query.source = "radio" /\ query.id \in rows
                        THEN query.id ELSE 0
            IN /\ pool' = PoolOf(rows, seed) /\ pc' = "drawing"
               /\ queue' = IF seed = 0 THEN <<>> ELSE <<seed>>
               /\ UNCHANGED <<ask, query, from>>

Taken(artist) == Cardinality({k \in DOMAIN queue : Tracks[queue[k]].artist = artist})
Drawable ==
    {i \in pool : Taken(Tracks[i].artist) <
                  (IF Tracks[i].artist = SeedArtist THEN MixSeedCap ELSE MixCap)}
Draw ==
    /\ pc = "drawing"
    /\ IF Len(queue) < MixTarget /\ Drawable # {}
       THEN \E i \in Drawable :
               /\ queue' = Append(queue, i) /\ pool' = pool \ {i}
               /\ UNCHANGED <<ask, pc, query, from>>
       ELSE Answer(queue) /\ UNCHANGED <<ask, query, pool, from>>

(* resolveAndStart, playQueue: the player shuffles whatever it was given,  *)
(* an album and a playlist too.                                            *)
Shuffled ==
    IF ask.shuffle
    THEN \E p \in SetToSeqs(DOMAIN queue) : queue' = [k \in DOMAIN queue |-> queue[p[k]]]
    ELSE UNCHANGED queue

(* Mutated form: startAt indexes into the shuffled order. *)
StartAnywhere ==
    /\ pc = "queued" /\ from = 0 /\ Shuffled
    /\ from' = IF ask.from \in 2 .. Len(queue) THEN ask.from ELSE 1
    /\ UNCHANGED <<ask, pc, query, pool>>

(* startAt counts from 1 and is meaningless in a shuffled order. *)
Start ==
    /\ pc = "queued" /\ from = 0 /\ Shuffled
    /\ from' = IF ~ask.shuffle /\ ask.from \in 2 .. Len(queue) THEN ask.from ELSE 1
    /\ UNCHANGED <<ask, pc, query, pool>>

Next == Resolve \/ Build \/ BeginMix \/ Draw \/ Start

-----------------------------------------------------------------------------
Init ==
    /\ ask \in Wishes
    /\ ask.verb = "playlist" => \A k \in DOMAIN ask.rows : ask.rows[k].exact => ask.rows[k].fits
    /\ pc = "asked" /\ query = NoQuery /\ pool = {} /\ queue = <<>> /\ from = 0

Spec == Init /\ [][Next]_vars
-----------------------------------------------------------------------------
TypeOK ==
    /\ pc \in {"asked", "resolved", "drawing", "queued", "refused"}
    /\ query.source \in Sources \cup {"none", "track", "radio"} /\ query.id \in Nat
    /\ pool \subseteq Id /\ queue \in Seq(Id) /\ from \in Nat

OncePerSong == \A j, k \in DOMAIN queue : SongOf(queue[j]) = SongOf(queue[k]) => j = k

(* How often a track is in a list. *)
Times(list, i) == Cardinality({k \in DOMAIN list : list[k] = i})

(* The verb keeps its meaning across the two programs and two shuffles: an *)
(* album, a song and a playlist play whole, every entry as often as it was *)
(* put there, and whatever is not to be shuffled plays in its order, and   *)
(* only that is started in the middle; a shuffled sweep plays every song   *)
(* asked for in one recording; a mix plays no song twice, gives no artist  *)
(* more than the cap, and ends early only when nobody below the cap has a  *)
(* track left.                                                             *)
QueueHoldsWhatWasAsked ==
    pc = "queued" =>
        /\ ask.verb = "album" =>
              /\ ask.by = "id" => Tracks[queue[1]].album = ask.id
              /\ \A i \in Id : Times(queue, i) =
                    IF Tracks[i].album = Tracks[queue[1]].album THEN 1 ELSE 0
        /\ ask.verb = "song" => Len(queue) = 1 /\ (ask.by = "id" => queue[1] = ask.id)
        /\ ask.verb = "playlist" => \A i \in Id : Times(queue, i) = Times(Playlist, i)
        /\ ~ask.shuffle =>
              /\ ask.verb = "playlist" => queue = Playlist
              /\ ask.verb \in {"album", "all", "artist", "popular"} =>
                    \A j, k \in DOMAIN queue : j < k => queue[j] < queue[k]
        /\ ask.shuffle /\ ask.verb \in {"all", "artist", "popular"} => OncePerSong
        /\ ask.verb = "all" => {SongOf(queue[k]) : k \in DOMAIN queue} = {SongOf(i) : i \in Id}
        /\ ask.verb = "artist" /\ ask.by = "id" =>
              {SongOf(queue[k]) : k \in DOMAIN queue} = {SongOf(i) : i \in Of(ask.id)}
        /\ ask.verb \in {"mix", "radio"} =>
              /\ OncePerSong /\ Len(queue) <= MixTarget
              /\ Len(queue) = MixTarget \/ Drawable = {}
              /\ \A a \in Artist : Taken(a) <= IF a = SeedArtist THEN MixSeedCap ELSE MixCap
        /\ from > 1 => from <= Len(queue) /\ ~ask.shuffle

(* "The seed track, when given, always opens the mix"                      *)
(* (handlers_music_mix.go:116).                                            *)
SeedOpensMix == pc = "queued" /\ ask.verb = "radio" => queue[1] = ask.id
=============================================================================
