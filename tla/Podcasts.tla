------------------------------- MODULE Podcasts -------------------------------
(***************************************************************************)
(* Podcast subscriptions (web/handlers_podcasts.go, internal/podcast): a   *)
(* person subscribes while the feed is fetched, refreshes run in the       *)
(* background, one per podcast, and what a listener heard hangs off the    *)
(* row of the episode (web/handlers_stream_podcast.go).  Statements are    *)
(* atomic; a fetch takes as long as it likes.                              *)
(***************************************************************************)
EXTENDS Naturals, FiniteSets

CONSTANTS
    Feeds,
    Upstreams, \* what the feeds hold at a time: functions from Feeds to sets of guids
    Works,     \* subscriptions and refreshes under way at a time
    Cap,       \* podcastEpisodeCap
    MaxIds     \* bound on rows ever inserted

VARIABLES
    upstream,  \* the usable items each feed has now
    pods,      \* [id -> [feed, err]]
    eps,       \* [id -> [pod, guid]]
    progress,  \* [episode id -> completed]
    given,     \* [pods, eps]: the last ids AUTOINCREMENT gave
    work,      \* [at, feed, pod, key, items] of each work; key: its metaFetch key
    heard      \* history: <<podcast, guid>> heard to the end

vars == <<upstream, pods, eps, progress, given, work, heard>>

NoPod == 0
Idle == [at |-> "idle", feed |-> "none", pod |-> NoPod, key |-> NoPod, items |-> {}]
Largest(S) == IF S = {} THEN 0 ELSE CHOOSE n \in S : \A k \in S : k <= n
Least(a, b) == IF a < b THEN a ELSE b

Init ==
    /\ upstream \in Upstreams
    /\ pods = [i \in {} |-> NoPod] /\ eps = [i \in {} |-> NoPod] /\ progress = [i \in {} |-> FALSE]
    /\ given = [pods |-> 0, eps |-> 0]
    /\ work = [w \in Works |-> Idle] /\ heard = {}

Publish ==
    /\ upstream' \in Upstreams \ {upstream}
    /\ UNCHANGED <<pods, eps, progress, given, work, heard>>

-----------------------------------------------------------------------------
(* podcastSubscribe, podcastRefresh: the fetch begins.                     *)
Begin(w, f, p) ==
    /\ work[w] = Idle
    /\ work' = [work EXCEPT ![w] = [at |-> "fetch", feed |-> f, pod |-> p, key |-> p, items |-> {}]]
    /\ UNCHANGED <<upstream, pods, eps, progress, given, heard>>
Subscribe(w, f) == Begin(w, f, NoPod)
Refresh(w, p) ==
    p \in DOMAIN pods /\ (\A v \in Works : work[v].key # p) /\ Begin(w, pods[p].feed, p)

Done(w) == work' = [work EXCEPT ![w] = Idle]

(* FetchFeed; a subscription to a feed without episodes is refused.        *)
Fetched(w) ==
    /\ work[w].at = "fetch"
    /\ LET f == work[w].feed  new == work[w].pod = NoPod
       IN IF new /\ upstream[f] = {} THEN Done(w)
          ELSE work' = [work EXCEPT ![w].at = IF new THEN "upsert" ELSE "store", ![w].items = upstream[f]]
    /\ UNCHANGED <<upstream, pods, eps, progress, given, heard>>
FetchFails(w) ==
    /\ work[w].at = "fetch" /\ Done(w)
    /\ LET p == work[w].pod
       IN pods' = [q \in DOMAIN pods |-> IF q = p THEN [pods[q] EXCEPT !.err = TRUE] ELSE pods[q]]
    /\ UNCHANGED <<upstream, eps, progress, given, heard>>

(* Mutated form: an id is free again when its row is deleted. *)
NextReused(rows, last) == Largest(DOMAIN rows) + 1

(* AUTOINCREMENT (db/migrate.go). *)
NextId(rows, last) == last + 1

(* subscribeFeed: the podcast's row, found again by its feed. *)
Upsert(w) ==
    /\ work[w].at = "upsert"
    /\ LET f == work[w].feed
           had == {i \in DOMAIN pods : pods[i].feed = f}
           p == IF had = {} THEN NextId(pods, given.pods) ELSE CHOOSE i \in had : TRUE
       IN /\ p <= MaxIds
          /\ pods' = [i \in DOMAIN pods \cup {p} |->
                         IF i = p THEN [feed |-> f, err |-> FALSE] ELSE pods[i]]
          /\ given' = [given EXCEPT !.pods = IF had = {} THEN p ELSE @]
          /\ work' = [work EXCEPT ![w].at = "store", ![w].pod = p]
    /\ UNCHANGED <<upstream, eps, progress, heard>>

(* Mutated form: an episode that is there is written as a new row. *)
KnownNever(p, g) == {}

(* The row ON CONFLICT(podcast_id, guid) updates. *)
Known(p, g) == {i \in DOMAIN eps : eps[i] = [pod |-> p, guid |-> g]}

(* storeEpisodes: one transaction, the newest Cap items; the foreign key   *)
(* fails it when the podcast is gone.                                      *)
Insert(p, S) ==
    LET replaced == UNION {{i \in DOMAIN eps : eps[i] = [pod |-> p, guid |-> g]} \ Known(p, g) : g \in S}
        new == {g \in S : Known(p, g) = {}}
        at == given.eps
        ids == (at + 1) .. (at + Cardinality(new))
    IN \E place \in [ids -> new] :
          /\ {place[i] : i \in ids} = new /\ at + Cardinality(new) <= MaxIds
          /\ eps' = [i \in (DOMAIN eps \ replaced) \cup ids |->
                        IF i \in ids THEN [pod |-> p, guid |-> place[i]] ELSE eps[i]]
          /\ progress' = [i \in DOMAIN progress \ replaced |-> progress[i]]
          /\ given' = [given EXCEPT !.eps = at + Cardinality(new)]
Store(w) ==
    /\ work[w].at = "store"
    /\ IF work[w].pod \notin DOMAIN pods THEN UNCHANGED <<pods, eps, progress, given>>
       ELSE /\ \E S \in SUBSET work[w].items :
                  Cardinality(S) = Least(Cap, Cardinality(work[w].items)) /\ Insert(work[w].pod, S)
            /\ pods' = [pods EXCEPT ![work[w].pod].err = FALSE]
    /\ Done(w) /\ UNCHANGED <<upstream, heard>>

(* A statement fails, or the process ends, which ends them all.            *)
StoreFails(w) ==
    /\ work[w].at \in {"upsert", "store"} /\ Done(w)
    /\ UNCHANGED <<upstream, pods, eps, progress, given, heard>>
Restart ==
    /\ work' = [w \in Works |-> Idle]
    /\ UNCHANGED <<upstream, pods, eps, progress, given, heard>>

-----------------------------------------------------------------------------
(* podcastUnsubscribe: episodes and progress go with the row.              *)
Unsubscribe(p) ==
    /\ p \in DOMAIN pods /\ pods' = [i \in DOMAIN pods \ {p} |-> pods[i]]
    /\ eps' = [i \in {j \in DOMAIN eps : eps[j].pod # p} |-> eps[i]]
    /\ progress' = [i \in DOMAIN progress \cap DOMAIN eps' |-> progress[i]]
    /\ heard' = {h \in heard : h[1] # p}
    /\ UNCHANGED <<upstream, given, work>>

(* Mutated form: the tick is what the player says now. *)
TickAsReported(had, done) == done

(* podcastPlaybackProgress: completed only grows. *)
Tick(had, done) == had \/ done

Report(e, done) ==
    /\ e \in DOMAIN eps
    /\ LET had == e \in DOMAIN progress /\ progress[e]
       IN progress' = [i \in DOMAIN progress \cup {e} |-> IF i = e THEN Tick(had, done) ELSE progress[i]]
    /\ heard' = IF done THEN heard \cup {<<eps[e].pod, eps[e].guid>>} ELSE heard
    /\ UNCHANGED <<upstream, pods, eps, given, work>>

Next ==
    \/ Publish \/ Restart
    \/ \E w \in Works, f \in Feeds : Subscribe(w, f)
    \/ \E w \in Works : Fetched(w) \/ FetchFails(w) \/ Upsert(w) \/ Store(w) \/ StoreFails(w)
    \/ \E p \in DOMAIN pods : Unsubscribe(p) \/ \E w \in Works : Refresh(w, p)
    \/ \E e \in DOMAIN eps, done \in BOOLEAN : Report(e, done)

Spec == Init /\ [][Next]_vars
-----------------------------------------------------------------------------
TypeOK ==
    /\ DOMAIN pods \subseteq 1 .. given.pods /\ DOMAIN eps \subseteq 1 .. given.eps
    /\ DOMAIN progress \subseteq DOMAIN eps /\ given.pods <= MaxIds /\ given.eps <= MaxIds
    /\ \A i, j \in DOMAIN pods : pods[i].feed = pods[j].feed => i = j
    /\ \A i, j \in DOMAIN eps : eps[i] = eps[j] => i = j

(* An episode belongs to the podcast whose feed named it, even when it was *)
(* stored by a fetch that outlived an unsubscription; and what was heard   *)
(* to the end stays ticked, through every refresh, repeated subscription   *)
(* and later report, until the podcast is dropped.                         *)
HeardStaysHeard ==
    /\ \A i \in DOMAIN eps : eps[i].pod \in DOMAIN pods /\ 
          \E up \in Upstreams : eps[i].guid \in up[pods[eps[i].pod].feed]
    /\ \A h \in heard : \E i \in DOMAIN progress :
          eps[i] = [pod |-> h[1], guid |-> h[2]] /\ progress[i]
=============================================================================
