----------------------------- MODULE BrowseIndex -----------------------------
(***************************************************************************)
(* The artist index of hesplay's remote (cmd/hesplay/browse.go): one       *)
(* cache, rebuilt by the request that finds nothing to serve, or behind    *)
(* the requests that are served a stale one, while the remote may be       *)
(* pointed at another server (handleServer).                               *)
(***************************************************************************)
EXTENDS Naturals, FiniteSets

CONSTANTS Server, Asker   \* servers, and requests that arrive one at a time each

VARIABLES
    upstream,    \* the server the remote points at
    cache,       \* [base, full]: whose artists, and whether there are any
    stale,       \* the index is past its TTL, or was never built
    refreshing,  \* the flag of the rebuild behind the requests
    rebuild,     \* that rebuild: "none", "reading", "done", with its server
    ask,         \* each request: [pc, base, got]
    moved        \* history: repointed while a build or a request was under way

vars == <<upstream, cache, stale, refreshing, rebuild, ask, moved>>

Nobody == "nobody"
Fresh == [pc |-> "idle", base |-> Nobody, got |-> Nobody]

Init ==
    /\ upstream \in Server /\ cache = [base |-> Nobody, full |-> FALSE] /\ stale = TRUE
    /\ refreshing = FALSE /\ rebuild = [pc |-> "none", base |-> Nobody]
    /\ ask = [a \in Asker |-> Fresh] /\ moved = FALSE

Ask(a) ==
    /\ ask[a].pc = "idle"
    /\ ask' = [ask EXCEPT ![a] = [Fresh EXCEPT !.pc = "ensure", !.base = upstream]]
    /\ UNCHANGED <<upstream, cache, stale, refreshing, rebuild, moved>>

(* Mutated form: any index will do. *)
HaveAny(base) == cache.full

(* There is something to serve for this server. *)
Have(base) == cache.full /\ cache.base = base

(* ensure: serve, serve and rebuild behind the request, or build first. *)
Ensure(a, force) ==
    LET base == ask[a].base
        behind == Have(base) /\ (stale \/ force) /\ ~refreshing
    IN /\ ask[a].pc = "ensure"
       /\ ask' = [ask EXCEPT ![a].pc = IF Have(base) THEN "answer" ELSE "build"]
       /\ IF behind THEN refreshing' = TRUE /\ rebuild' = [pc |-> "reading", base |-> base]
          ELSE UNCHANGED <<refreshing, rebuild>>
       /\ UNCHANGED <<upstream, cache, stale, moved>>

(* build reads the whole catalog, which may hold no artist; a failure      *)
(* leaves the cache alone.                                                 *)
Built(base) ==
    \E full \in BOOLEAN : cache' = [base |-> base, full |-> full] /\ stale' = FALSE
Failed == UNCHANGED <<cache, stale>>

Build(a) ==
    /\ ask[a].pc = "build"
    /\ \/ Built(ask[a].base) /\ ask' = [ask EXCEPT ![a].pc = "answer"]
       \/ Failed /\ ask' = [ask EXCEPT ![a].pc = "error"]
    /\ UNCHANGED <<upstream, refreshing, rebuild, moved>>

Rebuild ==
    /\ rebuild.pc = "reading" /\ (Built(rebuild.base) \/ Failed)
    /\ rebuild' = [rebuild EXCEPT !.pc = "done"]
    /\ UNCHANGED <<upstream, refreshing, ask, moved>>

(* Mutated form: the flag is lowered after a success only. *)
RebuiltOnlyFull ==
    /\ rebuild.pc = "done" /\ rebuild' = [pc |-> "none", base |-> Nobody]
    /\ refreshing' = (refreshing /\ stale)
    /\ UNCHANGED <<upstream, cache, stale, ask, moved>>

Rebuilt ==
    /\ rebuild.pc = "done" /\ rebuild' = [pc |-> "none", base |-> Nobody]
    /\ refreshing' = FALSE
    /\ UNCHANGED <<upstream, cache, stale, ask, moved>>

(* snapshot or byLetter: what is in the cache by now. *)
Answer(a) ==
    /\ ask[a].pc = "answer"
    /\ ask' = [ask EXCEPT ![a].pc = "answered", ![a].got = cache.base]
    /\ UNCHANGED <<upstream, cache, stale, refreshing, rebuild, moved>>

Leave(a) ==
    /\ ask[a].pc \in {"answered", "error"} /\ ask' = [ask EXCEPT ![a] = Fresh]
    /\ UNCHANGED <<upstream, cache, stale, refreshing, rebuild, moved>>

(* handleServer: the new server answered the probe. *)
Repoint ==
    /\ \E s \in Server \ {upstream} : upstream' = s
    /\ moved' = (moved \/ rebuild.pc # "none" \/ \E a \in Asker : ask[a].pc # "idle")
    /\ UNCHANGED <<cache, stale, refreshing, rebuild, ask>>

Expire ==
    /\ cache.base # Nobody /\ stale' = TRUE
    /\ UNCHANGED <<upstream, cache, refreshing, rebuild, ask, moved>>

Next ==
    \/ \E a \in Asker :
          \/ Ask(a) \/ Build(a) \/ Answer(a) \/ Leave(a)
          \/ \E force \in BOOLEAN : Ensure(a, force)
    \/ Rebuild \/ Rebuilt \/ Repoint \/ Expire

Spec == Init /\ [][Next]_vars
-----------------------------------------------------------------------------
TypeOK ==
    /\ upstream \in Server /\ stale \in BOOLEAN /\ refreshing \in BOOLEAN
    /\ cache \in [base : Server \cup {Nobody}, full : BOOLEAN]
    /\ rebuild \in [pc : {"none", "reading", "done"}, base : Server \cup {Nobody}]
    /\ ask \in [Asker -> [pc : {"idle", "ensure", "build", "answer", "answered", "error"},
                          base : Server \cup {Nobody}, got : Server \cup {Nobody}]]
    /\ moved \in BOOLEAN

(* A request is answered with the artists of the server it asked, never    *)
(* with the previous box's (browse.go:101), and a rebuild that failed does *)
(* not bar the next one: the flag is up only while one is under way.       *)
AnsweredFromAskedServer ==
    /\ ~moved => \A a \in Asker : ask[a].pc = "answered" => ask[a].got = ask[a].base
    /\ refreshing <=> rebuild.pc # "none"

(* The promise without the exception: it holds whatever moves meanwhile.   *)
NeverAnotherServer == \A a \in Asker : ask[a].pc = "answered" => ask[a].got = ask[a].base
=============================================================================
