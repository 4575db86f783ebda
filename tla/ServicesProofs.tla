--------------------------- MODULE ServicesProofs ---------------------------
(***************************************************************************)
(* Proofs about the machine's own services, which share nothing with one   *)
(* another: launches, the artist index, the display mode and the processes *)
(* of a noise session, for any number of processes, servers and requests;  *)
(* and about what somebody watches or hears: the card of a show, the       *)
(* stream of a film, the queue of hesplay and the effect chains of noise,  *)
(* for any show, source, request, catalog and preset.  Each theorem is     *)
(* about the behaviours of Services in which one component runs.           *)
(***************************************************************************)
EXTENDS Services, FiniteSetTheorems, SequenceTheorems, WellFoundedInduction, TLAPS

(* A step of a behaviour of one component is one of that component.        *)
LEMMA LaunchTurn ==
  ASSUME [Next]_vars, part' = "launch" PROVE part = "launch" /\ [Launch!Next]_(Launch!vars)
<1>1. CASE Next
  BY <1>1 DEF Next, Turn
<1>2. CASE UNCHANGED vars
  BY <1>2 DEF vars, sharedVars, launchVars, Launch!vars
<1>. QED
  BY <1>1, <1>2
LEMMA BrowseTurn ==
  ASSUME [Next]_vars, part' = "browse" PROVE part = "browse" /\ [Browse!Next]_(Browse!vars)
<1>1. CASE Next
  BY <1>1 DEF Next, Turn
<1>2. CASE UNCHANGED vars
  BY <1>2 DEF vars, sharedVars, browseVars, Browse!vars
<1>. QED
  BY <1>1, <1>2
LEMMA DisplayTurn ==
  ASSUME [Next]_vars, part' = "display" PROVE part = "display" /\ [Display!Next]_(Display!vars)
<1>1. CASE Next
  BY <1>1 DEF Next, Turn
<1>2. CASE UNCHANGED vars
  BY <1>2 DEF vars, sharedVars, displayVars, Display!vars
<1>. QED
  BY <1>1, <1>2
LEMMA PipelineTurn ==
  ASSUME [Next]_vars, part' = "pipeline" PROVE part = "pipeline" /\ [Pipeline!Next]_(Pipeline!vars)
<1>1. CASE Next
  BY <1>1 DEF Next, Turn
<1>2. CASE UNCHANGED vars
  BY <1>2 DEF vars, sharedVars, pipelineVars, Pipeline!vars
<1>. QED
  BY <1>1, <1>2

-----------------------------------------------------------------------------
(* Launches.  With a lock its holder is the only owner, so what it bound   *)
(* and announced stays; and an instance that a launch could have found is, *)
(* as long as it serves, the one that the socket leads to.                 *)
LaunchStage == Launch!Alive \cup {"new", "gone"}
LaunchTypes ==
    /\ at \in [Procs -> LaunchStage] /\ app \subseteq Procs /\ victims \subseteq Procs
    /\ target \in [Procs -> Procs \cup {Launch!None}] /\ healthy \in [Procs -> SUBSET Procs]
    /\ {lock, sock, url} \subseteq Procs \cup {Launch!None}
HolderOwns == \A p \in Procs : at[p] \in Launch!Owner <=> lock = p
Reachable ==
    \A p \in Procs : /\ at[p] \in {"listen", "serve"} => sock \in {p, Launch!None}
                     /\ at[p] = "serve" => url = p
FoundBySocket ==
    \A p \in Procs : \A q \in healthy[p] :
        at[q] \in {"serve", "down", "gone"} /\ (at[q] = "serve" => sock = q)
NoneInTheWay == \A p \in app : \A q \in healthy[p] : at[p] = "replace" => at[q] # "serve"
LaunchInv ==
    /\ LaunchTypes
    /\ Locks => HolderOwns /\ Reachable /\ FoundBySocket /\ NoneInTheWay /\ victims = {}

LEMMA LaunchInit == ASSUME Launch!None \notin Procs, Launch!Init PROVE LaunchInv
BY DEF LaunchInv, LaunchTypes, LaunchStage, HolderOwns, Reachable, FoundBySocket, NoneInTheWay,
       Launch!Init, Launch!Alive, Launch!Early, Launch!Owner

(* One process moves from stage to stage. *)
LEMMA LaunchMoves ==
  ASSUME LaunchTypes, NEW p \in Procs, NEW s \in LaunchStage, Launch!To(p, s)
  PROVE  /\ at' \in [Procs -> LaunchStage] /\ at'[p] = s
         /\ \A q \in Procs \ {p} : at'[q] = at[q]
BY DEF LaunchTypes, Launch!To

(* A step that binds, announces and locks nothing, and does not begin to   *)
(* own or serve, keeps the invariant if nobody serves in its way.          *)
LEMMA LaunchStep ==
  ASSUME LaunchInv, NEW p \in Procs, NEW s \in LaunchStage, Launch!To(p, s),
         at[p] \in Launch!Owner <=> s \in Launch!Owner,
         s \in {"listen", "serve"} => at[p] = s, at[p] \in {"serve", "down", "gone"} => s \in {"down", "gone"},
         s = "replace" /\ p \in app /\ Locks => \A q \in healthy[p] : at[q] # "serve",
         UNCHANGED <<app, lock, sock, url, healthy>>,
         target' \in [Procs -> Procs \cup {Launch!None}],
         victims' \subseteq Procs, Locks => victims' = {}
  PROVE  LaunchInv'
<1>1. /\ at' \in [Procs -> LaunchStage] /\ at'[p] = s
      /\ \A q \in Procs \ {p} : at'[q] = at[q]
  BY LaunchMoves DEF LaunchInv
<1>2. LaunchTypes'
  BY <1>1 DEF LaunchInv, LaunchTypes
<1>3. ASSUME Locks PROVE HolderOwns' /\ Reachable'
  BY <1>1, <1>3 DEF LaunchInv, HolderOwns, Reachable
<1>4. ASSUME Locks PROVE FoundBySocket' /\ NoneInTheWay'
  BY <1>1, <1>4 DEF LaunchInv, LaunchTypes, FoundBySocket, NoneInTheWay
<1>. QED
  BY <1>2, <1>3, <1>4 DEF LaunchInv

LEMMA LaunchNext ==
  ASSUME Launch!None \notin Procs, LaunchInv, [Launch!Next]_(Launch!vars) PROVE LaunchInv'
<1>. USE DEF LaunchStage, Launch!Alive, Launch!Early, Launch!Owner
<1>1. ASSUME NEW p \in Procs, Launch!Launch(p) PROVE LaunchInv'
  <2>1. /\ at[p] = "new" /\ Launch!To(p, "probe") /\ healthy' = [healthy EXCEPT ![p] = Launch!Announced]
        /\ UNCHANGED <<app, replace, target, lock, sock, url, victims>>
    BY <1>1 DEF Launch!Launch
  <2>2. /\ at' \in [Procs -> LaunchStage] /\ at'[p] = "probe"
        /\ \A q \in Procs \ {p} : at'[q] = at[q]
    BY <2>1, LaunchMoves DEF LaunchInv
  <2>3. /\ healthy' \in [Procs -> SUBSET Procs] /\ healthy'[p] = Launch!Announced
        /\ \A q \in Procs \ {p} : healthy'[q] = healthy[q]
        /\ \A q \in Launch!Announced : q \in Procs /\ at[q] = "serve" /\ sock = q
    BY <2>1 DEF LaunchInv, LaunchTypes, Launch!Announced
  <2>4. LaunchTypes'
    BY <2>1, <2>2, <2>3 DEF LaunchInv, LaunchTypes
  <2>5. ASSUME Locks PROVE HolderOwns' /\ Reachable'
    BY <2>1, <2>2, <2>5 DEF LaunchInv, HolderOwns, Reachable
  <2>6. ASSUME Locks PROVE FoundBySocket' /\ NoneInTheWay'
    BY <2>1, <2>2, <2>3, <2>6 DEF LaunchInv, LaunchTypes, FoundBySocket, NoneInTheWay
  <2>. QED
    BY <2>1, <2>4, <2>5, <2>6 DEF LaunchInv
<1>2. ASSUME NEW p \in Procs, NEW b \in BOOLEAN, Launch!Probe(p, b) PROVE LaunchInv'
  <2>1. url \in Procs \cup {Launch!None}
    BY DEF LaunchInv, LaunchTypes
  <2>2. /\ at[p] = "probe" /\ UNCHANGED <<app, lock, sock, url, healthy, victims>>
        /\ target' \in [Procs -> Procs \cup {Launch!None}]
        /\ \E s \in {"attach", "replace", "gone", "oracle"} :
              Launch!To(p, s) /\ (s = "replace" => p \notin app)
    BY <1>2, <2>1 DEF Launch!Probe, Launch!Answers, Launch!Decide, LaunchInv, LaunchTypes
  <2>. QED
    BY <2>2, LaunchStep DEF LaunchInv, LaunchTypes
<1>3. ASSUME NEW p \in Procs, Launch!Oracle(p) PROVE LaunchInv'
  <2>1. /\ at[p] = "oracle" /\ Launch!Decide(p, Launch!BySocket)
        /\ UNCHANGED <<app, lock, sock, url, healthy, victims>>
        /\ Launch!BySocket \in Procs \cup {Launch!None}
    BY <1>3 DEF Launch!Oracle, Launch!BySocket, LaunchInv, LaunchTypes
  <2>2. ASSUME Locks, Launch!BySocket = Launch!None, NEW q \in healthy[p] PROVE at[q] # "serve"
    <3>. SUFFICES ASSUME at[q] = "serve" PROVE FALSE
      OBVIOUS
    <3>1. q \in Procs /\ sock = q /\ url = q
      BY <2>2 DEF LaunchInv, LaunchTypes, FoundBySocket, Reachable
    <3>. QED
      BY <2>2, <3>1 DEF Launch!BySocket, Launch!SocketAlive
  <2>3. PICK s \in {"attach", "replace", "gone", "lock"} :
           Launch!To(p, s) /\ (s = "replace" /\ p \in app => Launch!BySocket = Launch!None)
    BY <2>1 DEF Launch!Decide
  <2>4. target' \in [Procs -> Procs \cup {Launch!None}]
    BY <2>1 DEF Launch!Decide, LaunchInv, LaunchTypes
  <2>. QED
    BY <2>1, <2>2, <2>3, <2>4, LaunchStep DEF LaunchInv, LaunchTypes
<1>4. ASSUME NEW p \in Procs, Launch!Attach(p) \/ Launch!Waited(p) \/ Launch!ShutDown(p) PROVE LaunchInv'
  <2>1. /\ \/ at[p] = "attach" /\ Launch!To(p, "gone")
           \/ at[p] = "wait" /\ Launch!To(p, "lock")
           \/ at[p] = "serve" /\ Launch!To(p, "down")
        /\ UNCHANGED <<app, target, lock, sock, url, healthy, victims>>
    BY <1>4 DEF Launch!Attach, Launch!Waited, Launch!ShutDown
  <2>. QED
    BY <2>1, LaunchStep DEF LaunchInv, LaunchTypes
<1>5. ASSUME NEW p \in Procs, Launch!Replace(p) PROVE LaunchInv'
  <2>1. /\ at[p] = "replace" /\ Launch!To(p, "wait")
        /\ UNCHANGED <<app, target, lock, sock, url, healthy>>
        /\ victims' = IF p \in app THEN victims \cup {q \in healthy[p] : at[q] = "serve"} ELSE victims
    BY <1>5 DEF Launch!Replace
  <2>2. victims' \subseteq Procs /\ (Locks => victims' = {})
    BY <2>1 DEF LaunchInv, LaunchTypes, NoneInTheWay
  <2>. QED
    BY <2>1, <2>2, LaunchStep DEF LaunchInv, LaunchTypes
<1>6. ASSUME NEW p \in Procs, Launch!Lock(p) PROVE LaunchInv'
  <2>1. /\ at[p] = "lock" /\ Launch!To(p, IF Launch!Refused(p) THEN "gone" ELSE "db")
        /\ lock' = IF ~Locks \/ Launch!Refused(p) THEN lock ELSE p
        /\ UNCHANGED <<app, target, sock, url, healthy, victims>>
    BY <1>6 DEF Launch!Lock
  <2>2. /\ at' \in [Procs -> LaunchStage] /\ at'[p] = (IF Launch!Refused(p) THEN "gone" ELSE "db")
        /\ \A q \in Procs \ {p} : at'[q] = at[q]
    BY <2>1, LaunchMoves DEF LaunchInv
  <2>3. LaunchTypes'
    BY <2>1, <2>2 DEF LaunchInv, LaunchTypes
  <2>4. ASSUME Locks PROVE HolderOwns'
    BY <2>1, <2>2, <2>4 DEF LaunchInv, LaunchTypes, HolderOwns, Launch!Refused
  <2>5. ASSUME Locks PROVE Reachable' /\ FoundBySocket' /\ NoneInTheWay'
    BY <2>1, <2>2, <2>5 DEF LaunchInv, LaunchTypes, Reachable, FoundBySocket, NoneInTheWay
  <2>. QED
    BY <2>1, <2>3, <2>4, <2>5 DEF LaunchInv
<1>7. ASSUME NEW p \in Procs, Launch!AskSocket(p) PROVE LaunchInv'
  <2>1. /\ at[p] = "db" /\ Launch!To(p, IF Launch!SocketAlive THEN "listen" ELSE "bind")
        /\ UNCHANGED <<app, target, lock, sock, url, healthy, victims>>
    BY <1>7 DEF Launch!AskSocket
  <2>2. CASE Launch!SocketAlive
    <3>1. ~Locks
      BY <2>1, <2>2 DEF Launch!SocketAlive, LaunchInv, LaunchTypes, HolderOwns
    <3>2. at' \in [Procs -> LaunchStage]
      BY <2>1, <2>2, LaunchMoves DEF LaunchInv
    <3>. QED
      BY <2>1, <3>1, <3>2 DEF LaunchInv, LaunchTypes
  <2>3. CASE ~Launch!SocketAlive
    BY <2>1, <2>3, LaunchStep DEF LaunchInv, LaunchTypes
  <2>. QED
    BY <2>2, <2>3
<1>8. ASSUME NEW p \in Procs, NEW ok \in BOOLEAN, Launch!Bind(p, ok) PROVE LaunchInv'
  <2>1. /\ at[p] = "bind" /\ Launch!To(p, "listen") /\ sock' = IF ok THEN p ELSE Launch!None
        /\ UNCHANGED <<app, target, lock, url, healthy, victims>>
    BY <1>8 DEF Launch!Bind
  <2>2. /\ at' \in [Procs -> LaunchStage] /\ at'[p] = "listen"
        /\ \A q \in Procs \ {p} : at'[q] = at[q]
    BY <2>1, LaunchMoves DEF LaunchInv
  <2>3. LaunchTypes'
    BY <2>1, <2>2 DEF LaunchInv, LaunchTypes
  <2>4. ASSUME Locks PROVE HolderOwns' /\ \A q \in Procs : at[q] # "serve" /\ at[q] # "listen"
    BY <2>1, <2>2, <2>4 DEF LaunchInv, HolderOwns
  <2>5. ASSUME Locks PROVE Reachable' /\ FoundBySocket' /\ NoneInTheWay'
    BY <2>1, <2>2, <2>4, <2>5 DEF LaunchInv, LaunchTypes, Reachable, FoundBySocket, NoneInTheWay
  <2>. QED
    BY <2>1, <2>3, <2>4, <2>5 DEF LaunchInv
<1>9. ASSUME NEW p \in Procs, Launch!Announce(p) PROVE LaunchInv'
  <2>1. /\ at[p] = "listen" /\ Launch!To(p, "serve") /\ url' = p
        /\ UNCHANGED <<app, target, lock, sock, healthy, victims>>
    BY <1>9 DEF Launch!Announce
  <2>2. /\ at' \in [Procs -> LaunchStage] /\ at'[p] = "serve"
        /\ \A q \in Procs \ {p} : at'[q] = at[q]
    BY <2>1, LaunchMoves DEF LaunchInv
  <2>3. LaunchTypes'
    BY <2>1, <2>2 DEF LaunchInv, LaunchTypes
  <2>4. ASSUME Locks PROVE HolderOwns' /\ \A q \in Procs : at[q] # "serve"
    BY <2>1, <2>2, <2>4 DEF LaunchInv, HolderOwns
  <2>5. ASSUME Locks PROVE Reachable' /\ FoundBySocket' /\ NoneInTheWay'
    BY <2>1, <2>2, <2>4, <2>5 DEF LaunchInv, LaunchTypes, Reachable, FoundBySocket, NoneInTheWay
  <2>. QED
    BY <2>1, <2>3, <2>4, <2>5 DEF LaunchInv
<1>10. ASSUME NEW p \in Procs, Launch!Exit(p) \/ Launch!Die(p) PROVE LaunchInv'
  <2>1. /\ at[p] \in Launch!Alive /\ Launch!To(p, "gone") /\ lock' = Launch!Unlocked(p)
        /\ url' = url \/ (url' = Launch!None /\ at[p] = "down")
        /\ UNCHANGED <<app, target, sock, healthy, victims>>
    BY <1>10 DEF Launch!Exit, Launch!Die
  <2>2. /\ at' \in [Procs -> LaunchStage] /\ at'[p] = "gone"
        /\ \A q \in Procs \ {p} : at'[q] = at[q]
    BY <2>1, LaunchMoves DEF LaunchInv
  <2>3. LaunchTypes'
    BY <2>1, <2>2 DEF LaunchInv, LaunchTypes, Launch!Unlocked
  <2>4. ASSUME Locks PROVE HolderOwns' /\ (at[p] = "down" => \A q \in Procs : at[q] # "serve")
    BY <2>1, <2>2, <2>4 DEF LaunchInv, HolderOwns, Launch!Unlocked
  <2>5. ASSUME Locks PROVE Reachable' /\ FoundBySocket' /\ NoneInTheWay'
    BY <2>1, <2>2, <2>4, <2>5 DEF LaunchInv, LaunchTypes, Reachable, FoundBySocket, NoneInTheWay
  <2>. QED
    BY <2>1, <2>3, <2>4, <2>5 DEF LaunchInv
<1>11. CASE UNCHANGED Launch!vars
  BY <1>11 DEF Launch!vars, LaunchInv, LaunchTypes, HolderOwns, Reachable, FoundBySocket, NoneInTheWay
<1>. QED
  BY <1>1, <1>2, <1>3, <1>4, <1>5, <1>6, <1>7, <1>8, <1>9, <1>10, <1>11 DEF Launch!Next

(* The instance's Cardinality is the library's. *)
LEMMA SizeOfOwners == \A S : Launch!Cardinality(S) = Cardinality(S)
BY DEF Launch!Cardinality, Cardinality

(* At most one instance has the database, it is found by whoever looks for *)
(* it, and no launch from the desktop terminates it (main.go, attach.go,   *)
(* management_linux.go): for any number of launches, deaths and switches.  *)
THEOREM LaunchesOnce ==
  ASSUME Launch!None \notin Procs PROVE Spec => []OneInstance
<1>1. LaunchInv => Launch!OneInstance
  <2>. SUFFICES ASSUME LaunchInv, Locks PROVE Launch!OneInstance
    BY DEF Launch!OneInstance
  <2>1. {p \in Procs : at[p] \in Launch!Owner} \subseteq {lock}
    BY DEF LaunchInv, HolderOwns
  <2>2. Cardinality({p \in Procs : at[p] \in Launch!Owner}) <= Cardinality({lock})
    BY <2>1, FS_Subset, FS_Singleton
  <2>3. Cardinality({lock}) = 1
    BY FS_Singleton
  <2>4. Cardinality({p \in Procs : at[p] \in Launch!Owner}) <= 1
    BY <2>2, <2>3
  <2>5. \A p \in Procs : at[p] = "serve" => url = p /\ sock \in {p, Launch!None}
    BY DEF LaunchInv, Reachable
  <2>6. victims = {}
    BY DEF LaunchInv
  <2>. QED
    BY <2>4, <2>5, <2>6, SizeOfOwners DEF Launch!OneInstance
<1>2. LaunchInv /\ [Launch!Next]_(Launch!vars) => LaunchInv'
  BY LaunchNext
<1>3. Launch!Init => LaunchInv
  BY LaunchInit
<1>. DEFINE Inv == part = "launch" => LaunchInv
<1>4. Init => Inv
  BY <1>3 DEF Init, Begun
<1>5. Inv /\ [Next]_vars => Inv'
  <2>1. ASSUME [Next]_vars, part' = "launch" PROVE part = "launch" /\ [Launch!Next]_(Launch!vars)
    BY <2>1, LaunchTurn
  <2>. QED
    BY <2>1, <1>2
<1>6. Inv => OneInstance
  BY <1>1 DEF OneInstance
<1>. QED
  BY <1>4, <1>5, <1>6, PTL DEF Spec

-----------------------------------------------------------------------------
(* The artist index.  Until the remote is repointed under a build or a     *)
(* request, whatever is under way is for the server that is asked now, and *)
(* what is about to be served came from it.                                *)
AllForUpstream ==
    /\ rebuild.pc # "none" => rebuild.base = upstream
    /\ \A a \in Asker : /\ ask[a].pc # "idle" => ask[a].base = upstream
                        /\ ask[a].pc = "answer" => cache.base = upstream
                        /\ ask[a].pc = "answered" => ask[a].got = upstream
BrowseInv ==
    /\ Browse!TypeOK
    /\ refreshing <=> rebuild.pc # "none"
    /\ ~moved => AllForUpstream

LEMMA BrowseInit == Browse!Init => BrowseInv
<1>. SUFFICES ASSUME Browse!Init PROVE BrowseInv
  OBVIOUS
<1>1. Browse!TypeOK /\ AllForUpstream
  BY DEF Browse!Init, Browse!TypeOK, Browse!Fresh, Browse!Nobody, AllForUpstream
<1>2. refreshing <=> rebuild.pc # "none"
  BY DEF Browse!Init
<1>. QED
  BY <1>1, <1>2 DEF BrowseInv

(* A step of a request changes its record only. *)
LEMMA BrowseAsk ==
  ASSUME BrowseInv, NEW a \in Asker,
         Browse!Ask(a) \/ Browse!Answer(a) \/ Browse!Leave(a)
  PROVE  BrowseInv'
<1>1. UNCHANGED <<upstream, cache, stale, refreshing, rebuild, moved>>
  BY DEF Browse!Ask, Browse!Answer, Browse!Leave
<1>2. /\ ask \in [Asker -> [pc : {"idle", "ensure", "build", "answer", "answered", "error"},
                          base : Server \cup {Browse!Nobody}, got : Server \cup {Browse!Nobody}]]
      /\ upstream \in Server /\ cache.base \in Server \cup {Browse!Nobody}
  BY DEF BrowseInv, Browse!TypeOK
<1>3. CASE Browse!Ask(a)
  <2>. DEFINE new == [Browse!Fresh EXCEPT !.pc = "ensure", !.base = upstream]
  <2>1. /\ new \in [pc : {"idle", "ensure", "build", "answer", "answered", "error"},
                   base : Server \cup {Browse!Nobody}, got : Server \cup {Browse!Nobody}]
        /\ new.pc = "ensure" /\ new.base = upstream
    BY <1>2 DEF Browse!Fresh
  <2>2. ask' = [ask EXCEPT ![a] = new]
    BY <1>3 DEF Browse!Ask
  <2>. HIDE DEF new
  <2>. QED
    BY <1>1, <1>2, <2>1, <2>2 DEF BrowseInv, Browse!TypeOK, AllForUpstream
<1>4. CASE Browse!Answer(a)
  <2>1. ask[a].pc = "answer" /\ ask' = [ask EXCEPT ![a].pc = "answered", ![a].got = cache.base]
    BY <1>4 DEF Browse!Answer
  <2>. QED
    BY <1>1, <1>2, <2>1 DEF BrowseInv, Browse!TypeOK, AllForUpstream
<1>5. CASE Browse!Leave(a)
  <2>1. ask' = [ask EXCEPT ![a] = Browse!Fresh]
    BY <1>5 DEF Browse!Leave
  <2>. QED
    BY <1>1, <1>2, <2>1 DEF Browse!Fresh, BrowseInv, Browse!TypeOK, AllForUpstream
<1>. QED
  BY <1>3, <1>4, <1>5

(* A build for a server leaves that server's artists, or the cache as it was. *)
LEMMA BrowseBuild ==
  ASSUME BrowseInv, NEW base \in Server \cup {Browse!Nobody},
         Browse!Built(base) \/ Browse!Failed
  PROVE  /\ cache' \in [base : Server \cup {Browse!Nobody}, full : BOOLEAN] /\ stale' \in BOOLEAN
         /\ cache'.base \in {base, cache.base}
<1>1. CASE Browse!Built(base)
  <2>1. PICK full \in BOOLEAN : cache' = [base |-> base, full |-> full] /\ stale' = FALSE
    BY <1>1 DEF Browse!Built
  <2>. QED
    BY <2>1
<1>2. CASE Browse!Failed
  <2>1. stale \in BOOLEAN /\ stale' = stale
    BY <1>2, Zenon DEF Browse!Failed, BrowseInv, Browse!TypeOK
  <2>. QED
    BY <1>2, <2>1 DEF Browse!Failed, BrowseInv, Browse!TypeOK
<1>. QED
  BY <1>1, <1>2, Zenon

LEMMA BrowseNext == BrowseInv /\ [Browse!Next]_(Browse!vars) => BrowseInv'
<1>. SUFFICES ASSUME BrowseInv, [Browse!Next]_(Browse!vars) PROVE BrowseInv'
  OBVIOUS
<1>1. ASSUME NEW a \in Asker, NEW anyway \in BOOLEAN, Browse!Ensure(a, anyway) PROVE BrowseInv'
  <2>1. /\ ask[a].pc = "ensure" /\ UNCHANGED <<upstream, cache, stale, moved>>
        /\ ask' = [ask EXCEPT ![a].pc = IF Browse!Have(ask[a].base) THEN "answer" ELSE "build"]
        /\ Browse!Have(ask[a].base) => cache.base = ask[a].base
    BY <1>1 DEF Browse!Ensure, Browse!Have
  <2>2. \/ refreshing' = TRUE /\ rebuild' = [pc |-> "reading", base |-> ask[a].base]
        \/ UNCHANGED <<refreshing, rebuild>>
    BY <1>1 DEF Browse!Ensure
  <2>3. Browse!TypeOK'
    <3>1. refreshing \in BOOLEAN /\ stale' \in BOOLEAN /\ moved' \in BOOLEAN
      BY <2>1, Zenon DEF BrowseInv, Browse!TypeOK
    <3>2. refreshing' \in BOOLEAN
      BY <2>2, <3>1
    <3>3. rebuild' \in [pc : {"none", "reading", "done"}, base : Server \cup {Browse!Nobody}]
      BY <2>2 DEF BrowseInv, Browse!TypeOK
    <3>. QED
      BY <2>1, <3>1, <3>2, <3>3 DEF BrowseInv, Browse!TypeOK
  <2>4. refreshing' <=> rebuild'.pc # "none"
    BY <2>2 DEF BrowseInv
  <2>5. ASSUME ~moved PROVE AllForUpstream'
    BY <2>1, <2>2, <2>5 DEF BrowseInv, Browse!TypeOK, AllForUpstream
  <2>. QED
    BY <2>1, <2>3, <2>4, <2>5 DEF BrowseInv
<1>2. ASSUME NEW a \in Asker, Browse!Build(a) PROVE BrowseInv'
  <2>1. /\ ask[a].pc = "build" /\ UNCHANGED <<upstream, refreshing, rebuild, moved>>
        /\ \/ Browse!Built(ask[a].base) /\ ask' = [ask EXCEPT ![a].pc = "answer"]
           \/ Browse!Failed /\ ask' = [ask EXCEPT ![a].pc = "error"]
        /\ ask[a].base \in Server \cup {Browse!Nobody}
    BY <1>2 DEF Browse!Build, BrowseInv, Browse!TypeOK
  <2>2. /\ cache' \in [base : Server \cup {Browse!Nobody}, full : BOOLEAN] /\ stale' \in BOOLEAN
        /\ cache'.base \in {ask[a].base, cache.base}
    BY <2>1, BrowseBuild
  <2>3. Browse!Built(ask[a].base) => cache'.base = ask[a].base
    BY DEF Browse!Built
  <2>4. Browse!TypeOK'
    BY <2>1, <2>2 DEF BrowseInv, Browse!TypeOK
  <2>5. ASSUME ~moved PROVE AllForUpstream'
    BY <2>1, <2>2, <2>3, <2>5 DEF BrowseInv, Browse!TypeOK, AllForUpstream
  <2>. QED
    BY <2>1, <2>4, <2>5 DEF BrowseInv
<1>3. CASE Browse!Rebuild
  <2>1. /\ rebuild.pc = "reading" /\ UNCHANGED <<upstream, refreshing, ask, moved>>
        /\ rebuild' = [rebuild EXCEPT !.pc = "done"]
        /\ Browse!Built(rebuild.base) \/ Browse!Failed
        /\ rebuild.base \in Server \cup {Browse!Nobody}
    BY <1>3 DEF Browse!Rebuild, BrowseInv, Browse!TypeOK
  <2>2. /\ cache' \in [base : Server \cup {Browse!Nobody}, full : BOOLEAN] /\ stale' \in BOOLEAN
        /\ cache'.base \in {rebuild.base, cache.base}
    BY <2>1, BrowseBuild
  <2>3. rebuild'.pc = "done" /\ rebuild'.base = rebuild.base
    BY <2>1 DEF BrowseInv, Browse!TypeOK
  <2>4. Browse!TypeOK'
    BY <2>1, <2>2 DEF BrowseInv, Browse!TypeOK
  <2>5. ASSUME ~moved PROVE AllForUpstream'
    BY <2>1, <2>2, <2>3, <2>5 DEF BrowseInv, Browse!TypeOK, AllForUpstream
  <2>. QED
    BY <2>1, <2>3, <2>4, <2>5 DEF BrowseInv
<1>4. CASE Browse!Rebuilt
  BY <1>4 DEF Browse!Rebuilt, BrowseInv, Browse!TypeOK, AllForUpstream
<1>5. CASE Browse!Repoint
  <2>1. /\ upstream' \in Server /\ UNCHANGED <<cache, stale, refreshing, rebuild, ask>>
        /\ moved' \in BOOLEAN
        /\ ~moved' => ~moved /\ rebuild.pc = "none" /\ \A a \in Asker : ask[a].pc = "idle"
    BY <1>5 DEF Browse!Repoint, BrowseInv, Browse!TypeOK
  <2>. QED
    BY <2>1 DEF BrowseInv, Browse!TypeOK, AllForUpstream
<1>6. CASE Browse!Expire
  BY <1>6 DEF Browse!Expire, BrowseInv, Browse!TypeOK, AllForUpstream
<1>7. CASE UNCHANGED Browse!vars
  BY <1>7 DEF Browse!vars, BrowseInv, Browse!TypeOK, AllForUpstream
<1>. QED
  BY <1>1, <1>2, <1>3, <1>4, <1>5, <1>6, <1>7, BrowseAsk DEF Browse!Next

(* A request is answered from the server it asked unless the remote is     *)
(* repointed under it, and the flag of the rebuild is up only while one is *)
(* under way (browse.go), for any number of requests and servers.          *)
THEOREM AskedServerAnswers == Spec => []AnsweredFromAskedServer
<1>1. BrowseInv => Browse!AnsweredFromAskedServer
  BY DEF BrowseInv, AllForUpstream, Browse!AnsweredFromAskedServer
<1>. DEFINE Inv == part = "browse" => BrowseInv
<1>2. Init => Inv
  BY BrowseInit DEF Init, Begun
<1>3. Inv /\ [Next]_vars => Inv'
  <2>1. ASSUME [Next]_vars, part' = "browse" PROVE part = "browse" /\ [Browse!Next]_(Browse!vars)
    BY <2>1, BrowseTurn
  <2>. QED
    BY <2>1, BrowseNext
<1>4. Inv => AnsweredFromAskedServer
  BY <1>1 DEF AnsweredFromAskedServer
<1>. QED
  BY <1>2, <1>3, <1>4, PTL DEF Spec

-----------------------------------------------------------------------------
(* The display mode.  As long as no request crossed another step, at most  *)
(* one of them sets the mode and its change holds the slot; a change that  *)
(* waits to be kept remembers the mode to go back to; and what is being    *)
(* put back is that mode.                                                  *)
AnyMode == Modes \cup {Display!None}
Setting == \E r \in Asks : ask[r].at = "set"
AskRecord == [at : {"new", "read", "set", "arm", "done"}, mode : AnyMode, prev : AnyMode]
DisplayTypes ==
    /\ offered \subseteq Modes /\ screen \in AnyMode /\ expected \in AnyMode
    /\ saved \in AnyMode /\ boot \in AnyMode
    /\ \/ pending \in [applied : Modes, prev : Modes, timer : Asks \cup {Display!None}]
       \/ pending = Display!Nothing
    /\ ask \in [Asks -> AskRecord]
    /\ timers \subseteq Asks /\ undo \subseteq Modes
    /\ \A r \in Asks : ask[r].at # "new" => ask[r].mode \in Modes /\ ask[r].prev \in Modes
    /\ \A r \in timers : ask[r].at # "new"
Provisional ==
    /\ pending # Display!Nothing => pending.prev = expected /\ undo = {}
    /\ \A r \in Asks : ask[r].at = "set" => pending.applied = ask[r].mode /\ screen = expected
    /\ pending # Display!Nothing /\ ~Setting => screen = pending.applied
    /\ \A r \in Asks : ask[r].at = "read" /\ (pending = Display!Nothing \/ Setting)
                          => ask[r].prev = expected
OneSets == \A r, s \in Asks : ask[r].at = "set" /\ ask[s].at = "set" => r = s
Undone ==
    /\ undo \subseteq {expected}
    /\ undo # {} => ~Display!Under
    /\ pending = Display!Nothing /\ undo = {} => screen = expected
DisplayInv == DisplayTypes /\ (~crossed => Provisional /\ OneSets /\ Undone)

LEMMA DisplayInit ==
  ASSUME Screens \subseteq SUBSET Modes, Display!Init PROVE DisplayInv
<1>1. DisplayTypes
  BY DEF Display!Init, DisplayTypes, AnyMode, AskRecord, Display!Fresh, Display!Nothing
<1>2. Provisional /\ OneSets /\ Undone
  BY DEF Display!Init, Provisional, OneSets, Undone, Setting, Display!Under, Display!Fresh,
         Display!Nothing
<1>. QED
  BY <1>1, <1>2 DEF DisplayInv

(* One request moves on. *)
LEMMA DisplayMoves ==
  ASSUME DisplayTypes, NEW r \in Asks, NEW at_ \in {"read", "set", "arm", "done"},
         Display!Move(r, at_), ask[r].at # "new"
  PROVE  /\ ask' \in [Asks -> AskRecord] /\ ask'[r].at = at_
         /\ ask'[r].mode = ask[r].mode /\ ask'[r].prev = ask[r].prev
         /\ \A s \in Asks \ {r} : ask'[s] = ask[s]
         /\ \A s \in Asks : ask'[s].at # "new" => ask'[s].mode \in Modes /\ ask'[s].prev \in Modes
         /\ \A s \in Asks : ask[s].at # "new" => ask'[s].at # "new"
<1>1. ask \in [Asks -> AskRecord]
  BY DEF DisplayTypes
<1>. DEFINE new == [ask[r] EXCEPT !.at = at_]
<1>2. ask' = [ask EXCEPT ![r] = new]
  BY DEF Display!Move
<1>3. new \in AskRecord /\ new.at = at_ /\ new.mode = ask[r].mode /\ new.prev = ask[r].prev
  BY <1>1 DEF AskRecord
<1>. HIDE DEF new
<1>. QED
  BY <1>1, <1>2, <1>3 DEF DisplayTypes

LEMMA DisplayNext ==
  ASSUME Display!None \notin Modes, Screens \subseteq SUBSET Modes,
         DisplayInv, [Display!Next]_(Display!vars)
  PROVE  DisplayInv'
<1>1. ASSUME NEW r \in Asks, NEW m \in Modes, Display!Ask(r, m) PROVE DisplayInv'
  <2>. DEFINE new == [at |-> "read", mode |-> m, prev |-> screen]
  <2>1. /\ ask[r].at = "new" /\ screen # Display!None /\ ask' = [ask EXCEPT ![r] = new]
        /\ UNCHANGED <<offered, screen, saved, pending, timers, undo, boot, expected>>
        /\ ~crossed' => ~crossed /\ undo = {}
    BY <1>1 DEF Display!Ask
  <2>2. screen \in Modes /\ new \in AskRecord /\ new.at = "read" /\ new.mode = m /\ new.prev = screen
    BY <2>1 DEF DisplayInv, DisplayTypes, AskRecord, AnyMode
  <2>. HIDE DEF new
  <2>3. /\ ask' \in [Asks -> AskRecord] /\ ask'[r] = new
        /\ \A s \in Asks \ {r} : ask'[s] = ask[s]
    BY <2>1, <2>2 DEF DisplayInv, DisplayTypes
  <2>4. DisplayTypes'
    BY <2>1, <2>2, <2>3 DEF DisplayInv, DisplayTypes, AnyMode, AskRecord
  <2>5. Setting' <=> Setting
    BY <2>1, <2>2, <2>3 DEF Setting
  <2>6. ASSUME ~crossed' PROVE Provisional' /\ OneSets' /\ Undone'
    <3>1. Provisional /\ OneSets /\ Undone /\ undo = {}
      BY <2>1, <2>6 DEF DisplayInv
    <3>2. pending = Display!Nothing \/ Setting => screen = expected
      BY <3>1 DEF Provisional, Undone, Setting
    <3>3. Provisional'
      BY <2>1, <2>2, <2>3, <2>5, <3>1, <3>2 DEF Provisional
    <3>4. OneSets' /\ Undone'
      BY <2>1, <2>2, <2>3, <3>1 DEF OneSets, Undone
    <3>. QED
      BY <3>3, <3>4
  <2>. QED
    BY <2>4, <2>6 DEF DisplayInv
<1>2. ASSUME NEW r \in Asks, Display!Claim(r) PROVE DisplayInv'
  <2>1. /\ ask[r].at = "read"
        /\ UNCHANGED <<offered, screen, saved, timers, undo, boot, expected, crossed>>
    BY <1>2 DEF Display!Claim
  <2>2. ask[r].mode \in Modes /\ ask[r].prev \in Modes
    BY <2>1 DEF DisplayInv, DisplayTypes
  <2>3. CASE pending = Display!Nothing
    <3>. DEFINE new == [applied |-> ask[r].mode, prev |-> ask[r].prev, timer |-> Display!None]
    <3>1. Display!Move(r, "set") /\ pending' = new
      BY <1>2, <2>3 DEF Display!Claim, Display!Free
    <3>2. /\ new \in [applied : Modes, prev : Modes, timer : Asks \cup {Display!None}]
          /\ new.applied = ask[r].mode /\ new.prev = ask[r].prev /\ new # Display!Nothing
      BY <2>2 DEF Display!Nothing
    <3>. HIDE DEF new
    <3>3. /\ ask' \in [Asks -> AskRecord] /\ ask'[r].at = "set"
          /\ ask'[r].mode = ask[r].mode /\ ask'[r].prev = ask[r].prev
          /\ \A s \in Asks \ {r} : ask'[s] = ask[s]
          /\ \A s \in Asks : ask'[s].at # "new" => ask'[s].mode \in Modes /\ ask'[s].prev \in Modes
          /\ \A s \in Asks : ask[s].at # "new" => ask'[s].at # "new"
      BY <2>1, <3>1, DisplayMoves DEF DisplayInv
    <3>4. DisplayTypes'
      BY <2>1, <3>1, <3>2, <3>3 DEF DisplayInv, DisplayTypes
    <3>5. ASSUME ~crossed' PROVE Provisional' /\ OneSets' /\ Undone'
      <4>1. Provisional /\ OneSets /\ Undone
        BY <2>1, <3>5 DEF DisplayInv
      <4>2. undo = {} /\ screen = expected /\ ask[r].prev = expected
        BY <2>1, <2>3, <4>1 DEF Provisional, Undone, Display!Under
      <4>3. \A s \in Asks : ask[s].at # "set"
        BY <2>3, <4>1 DEF Provisional, DisplayInv, DisplayTypes, Display!Nothing
      <4>4. Setting' /\ \A s \in Asks : ask'[s].at = "set" => s = r
        BY <3>3, <4>3 DEF Setting
      <4>5. Provisional'
        BY <2>1, <2>3, <3>1, <3>2, <3>3, <4>1, <4>2, <4>4 DEF Provisional
      <4>6. OneSets' /\ Undone'
        BY <2>1, <3>1, <3>2, <4>1, <4>2, <4>4 DEF OneSets, Undone
      <4>. QED
        BY <4>5, <4>6
    <3>. QED
      BY <3>4, <3>5 DEF DisplayInv
  <2>4. CASE pending # Display!Nothing
    <3>1. Display!Move(r, "done") /\ pending' = pending
      BY <1>2, <2>4 DEF Display!Claim, Display!Free
    <3>2. /\ ask' \in [Asks -> AskRecord] /\ ask'[r].at = "done"
          /\ \A s \in Asks \ {r} : ask'[s] = ask[s]
          /\ \A s \in Asks : ask'[s].at # "new" => ask'[s].mode \in Modes /\ ask'[s].prev \in Modes
          /\ \A s \in Asks : ask[s].at # "new" => ask'[s].at # "new"
      BY <2>1, <3>1, DisplayMoves DEF DisplayInv
    <3>3. DisplayTypes'
      BY <2>1, <3>1, <3>2 DEF DisplayInv, DisplayTypes
    <3>4. Setting' <=> Setting
      BY <2>1, <3>2 DEF Setting
    <3>5. ASSUME ~crossed' PROVE Provisional' /\ OneSets' /\ Undone'
      BY <2>1, <2>4, <3>1, <3>2, <3>4, <3>5 DEF DisplayInv, Provisional, OneSets, Undone, Display!Under
    <3>. QED
      BY <3>3, <3>5 DEF DisplayInv
  <2>. QED
    BY <2>3, <2>4
<1>3. ASSUME NEW r \in Asks, NEW ok \in BOOLEAN, Display!SetMode(r, ok) PROVE DisplayInv'
  <2>1. /\ ask[r].at = "set"
        /\ UNCHANGED <<offered, saved, timers, undo, boot, expected, crossed>>
    BY <1>3 DEF Display!SetMode
  <2>2. CASE ok
    <3>1. Display!Move(r, "arm") /\ pending' = pending /\ ask[r].mode \in offered /\ screen' = ask[r].mode
      BY <1>3, <2>2 DEF Display!SetMode
    <3>2. /\ ask' \in [Asks -> AskRecord] /\ ask'[r].at = "arm"
          /\ \A s \in Asks \ {r} : ask'[s] = ask[s]
          /\ \A s \in Asks : ask'[s].at # "new" => ask'[s].mode \in Modes /\ ask'[s].prev \in Modes
          /\ \A s \in Asks : ask[s].at # "new" => ask'[s].at # "new"
      BY <2>1, <3>1, DisplayMoves DEF DisplayInv
    <3>3. DisplayTypes'
      BY <2>1, <3>1, <3>2 DEF DisplayInv, DisplayTypes, AnyMode
    <3>4. ASSUME ~crossed' PROVE Provisional' /\ OneSets' /\ Undone'
      <4>1. Provisional /\ OneSets /\ Undone /\ pending.applied = ask[r].mode /\ ask[r].mode \in Modes
        BY <2>1, <3>4 DEF DisplayInv, DisplayTypes, Provisional
      <4>2. pending # Display!Nothing /\ ~Setting'
        BY <2>1, <3>2, <4>1 DEF OneSets, Setting, Display!Nothing
      <4>3. Provisional'
        BY <2>1, <3>1, <3>2, <4>1, <4>2 DEF Provisional, Setting
      <4>4. OneSets' /\ Undone'
        BY <2>1, <3>1, <3>2, <4>1, <4>2 DEF OneSets, Undone, Display!Under
      <4>. QED
        BY <4>3, <4>4
    <3>. QED
      BY <3>3, <3>4 DEF DisplayInv
  <2>3. CASE ~ok
    <3>1. /\ Display!Move(r, "done") /\ screen' = screen
          /\ pending' = IF pending.applied = ask[r].mode THEN Display!Nothing ELSE pending
      BY <1>3, <2>3 DEF Display!SetMode
    <3>2. /\ ask' \in [Asks -> AskRecord] /\ ask'[r].at = "done"
          /\ \A s \in Asks \ {r} : ask'[s] = ask[s]
          /\ \A s \in Asks : ask'[s].at # "new" => ask'[s].mode \in Modes /\ ask'[s].prev \in Modes
          /\ \A s \in Asks : ask[s].at # "new" => ask'[s].at # "new"
      BY <2>1, <3>1, DisplayMoves DEF DisplayInv
    <3>3. DisplayTypes'
      BY <2>1, <3>1, <3>2 DEF DisplayInv, DisplayTypes
    <3>4. ASSUME ~crossed' PROVE Provisional' /\ OneSets' /\ Undone'
      <4>1. /\ Provisional /\ OneSets /\ Undone /\ pending.applied = ask[r].mode
            /\ screen = expected /\ Setting
        BY <2>1, <3>4 DEF DisplayInv, Provisional, Setting
      <4>2. pending' = Display!Nothing /\ \A s \in Asks : ask'[s].at # "set"
        BY <2>1, <3>1, <3>2, <4>1 DEF OneSets
      <4>3. Provisional'
        BY <2>1, <3>2, <4>1, <4>2 DEF Provisional
      <4>4. OneSets' /\ Undone'
        BY <2>1, <3>1, <3>2, <4>1, <4>2 DEF OneSets, Undone, Display!Under
      <4>. QED
        BY <4>3, <4>4
    <3>. QED
      BY <3>3, <3>4 DEF DisplayInv
  <2>. QED
    BY <2>2, <2>3
<1>4. ASSUME NEW r \in Asks, Display!Arm(r) PROVE DisplayInv'
  <2>1. /\ ask[r].at = "arm" /\ Display!Move(r, "done")
        /\ UNCHANGED <<offered, screen, saved, undo, boot, expected, crossed>>
        /\ \/ /\ pending.applied = ask[r].mode /\ pending' = [pending EXCEPT !.timer = r]
              /\ timers' = timers \cup {r}
           \/ UNCHANGED <<pending, timers>>
    BY <1>4 DEF Display!Arm
  <2>2. /\ ask' \in [Asks -> AskRecord] /\ ask'[r].at = "done"
        /\ \A s \in Asks \ {r} : ask'[s] = ask[s]
        /\ \A s \in Asks : ask'[s].at # "new" => ask'[s].mode \in Modes /\ ask'[s].prev \in Modes
        /\ \A s \in Asks : ask[s].at # "new" => ask'[s].at # "new"
    BY <2>1, DisplayMoves DEF DisplayInv
  <2>3. ask[r].mode \in Modes
    BY <2>1 DEF DisplayInv, DisplayTypes
  <2>4. /\ \/ pending' \in [applied : Modes, prev : Modes, timer : Asks \cup {Display!None}]
           \/ pending' = Display!Nothing
        /\ pending'.applied = pending.applied /\ pending'.prev = pending.prev
        /\ pending' = Display!Nothing <=> pending = Display!Nothing
    <3>1. CASE pending = Display!Nothing
      BY <2>1, <2>3, <3>1 DEF Display!Nothing
    <3>2. CASE pending \in [applied : Modes, prev : Modes, timer : Asks \cup {Display!None}]
      BY <2>1, <3>2 DEF Display!Nothing
    <3>. QED
      BY <3>1, <3>2 DEF DisplayInv, DisplayTypes
  <2>5. timers' \subseteq timers \cup {r}
    BY <2>1
  <2>6. DisplayTypes'
    BY <2>1, <2>2, <2>4, <2>5 DEF DisplayInv, DisplayTypes
  <2>7. Setting' <=> Setting
    BY <2>1, <2>2 DEF Setting
  <2>8. ASSUME ~crossed' PROVE Provisional' /\ OneSets' /\ Undone'
    BY <2>1, <2>2, <2>4, <2>7, <2>8 DEF DisplayInv, Provisional, OneSets, Undone, Display!Under
  <2>. QED
    BY <2>6, <2>8 DEF DisplayInv
<1>5. ASSUME NEW m \in Modes, Display!Keep(m) PROVE DisplayInv'
  <2>1. /\ pending.applied = m /\ pending' = Display!Nothing /\ timers' \subseteq timers
        /\ saved' \in {saved, m} /\ expected' = m
        /\ UNCHANGED <<offered, screen, ask, undo, boot>>
        /\ ~crossed' => ~crossed /\ ~Display!Under
    BY <1>5 DEF Display!Keep
  <2>2. pending # Display!Nothing
    BY <2>1 DEF Display!Nothing
  <2>3. DisplayTypes'
    BY <2>1 DEF DisplayInv, DisplayTypes, AnyMode
  <2>4. ASSUME ~crossed' PROVE Provisional' /\ OneSets' /\ Undone'
    BY <2>1, <2>2, <2>4 DEF DisplayInv, Provisional, OneSets, Undone, Setting, Display!Under
  <2>. QED
    BY <2>3, <2>4 DEF DisplayInv
<1>6. ASSUME NEW m \in Modes, Display!Revert(m), timers' \subseteq timers,
             UNCHANGED <<offered, screen, saved, ask, boot, expected>>
      PROVE  DisplayInv'
  <2>1. CASE pending.applied = m
    <3>1. pending' = Display!Nothing /\ undo' = undo \cup {pending.prev}
      BY <1>6, <2>1, Zenon DEF Display!Revert
    <3>2. ~crossed' => ~crossed /\ ~Display!Under
      BY <1>6, <2>1, Zenon DEF Display!Revert
    <3>3. pending # Display!Nothing
      BY <2>1 DEF Display!Nothing
    <3>4. DisplayTypes'
      BY <1>6, <3>1, <3>3 DEF DisplayInv, DisplayTypes
    <3>5. ASSUME ~crossed' PROVE Provisional' /\ OneSets' /\ Undone'
      BY <1>6, <3>1, <3>2, <3>3, <3>5 DEF DisplayInv, Provisional, OneSets, Undone, Setting, Display!Under
    <3>. QED
      BY <3>4, <3>5 DEF DisplayInv
  <2>2. CASE pending.applied # m
    <3>1. UNCHANGED <<pending, undo, crossed>>
      BY <1>6, <2>2 DEF Display!Revert
    <3>. QED
      BY <1>6, <3>1 DEF DisplayInv, DisplayTypes, Provisional, OneSets, Undone, Setting, Display!Under
  <2>. QED
    BY <2>1, <2>2
<1>7. ASSUME NEW m \in Modes, Display!Decline(m) PROVE DisplayInv'
  BY <1>6, <1>7 DEF Display!Decline
<1>8. ASSUME NEW r \in Asks, Display!TimerFires(r) PROVE DisplayInv'
  <2>1. ask[r].mode \in Modes
    BY <1>8 DEF Display!TimerFires, DisplayInv, DisplayTypes
  <2>. QED
    BY <1>6, <1>8, <2>1 DEF Display!TimerFires
<1>9. ASSUME NEW m \in undo, NEW ok \in BOOLEAN, Display!Restore(m, ok) PROVE DisplayInv'
  <2>1. /\ undo' = undo \ {m} /\ screen' = (IF ok THEN m ELSE screen)
        /\ UNCHANGED <<offered, saved, pending, ask, timers, boot, expected>>
        /\ ~crossed' => ~crossed /\ ok /\ ~Display!Under
    BY <1>9 DEF Display!Restore
  <2>2. DisplayTypes'
    BY <2>1 DEF DisplayInv, DisplayTypes, AnyMode
  <2>3. ASSUME ~crossed' PROVE Provisional' /\ OneSets' /\ Undone'
    BY <2>1, <2>3 DEF DisplayInv, Provisional, OneSets, Undone, Setting, Display!Under
  <2>. QED
    BY <2>2, <2>3 DEF DisplayInv
<1>10. ASSUME NEW ok \in BOOLEAN, Display!Boot(ok) PROVE DisplayInv'
  <2>1. /\ boot' = Display!None /\ UNCHANGED <<offered, saved, pending, ask, timers, undo>>
        /\ \/ UNCHANGED <<screen, expected, crossed>>
           \/ /\ boot \in offered /\ screen' = boot /\ expected' = boot
              /\ ~crossed' => ~crossed /\ ~Display!Under /\ pending = Display!Nothing /\ undo = {}
    BY <1>10 DEF Display!Boot
  <2>2. DisplayTypes'
    BY <2>1 DEF DisplayInv, DisplayTypes, AnyMode
  <2>3. ASSUME ~crossed' PROVE Provisional' /\ OneSets' /\ Undone'
    BY <2>1, <2>3 DEF DisplayInv, Provisional, OneSets, Undone, Setting, Display!Under
  <2>. QED
    BY <2>2, <2>3 DEF DisplayInv
<1>11. CASE Display!BootGivesUp
  BY <1>11 DEF Display!BootGivesUp, DisplayInv, DisplayTypes, AnyMode, Provisional, OneSets, Undone,
               Setting, Display!Under
<1>12. ASSUME NEW S \in Screens, NEW m \in S \cup {Display!None}, Display!Swap(S, m) PROVE DisplayInv'
  <2>1. /\ offered' = S /\ screen' = m /\ expected' = m
        /\ UNCHANGED <<saved, pending, ask, timers, undo, boot>>
        /\ ~crossed' => ~crossed /\ ~Display!Under /\ pending = Display!Nothing /\ undo = {}
    BY <1>12 DEF Display!Swap
  <2>2. DisplayTypes'
    BY <2>1 DEF DisplayInv, DisplayTypes, AnyMode
  <2>3. ASSUME ~crossed' PROVE Provisional' /\ OneSets' /\ Undone'
    BY <2>1, <2>3 DEF DisplayInv, Provisional, OneSets, Undone, Setting, Display!Under
  <2>. QED
    BY <2>2, <2>3 DEF DisplayInv
<1>13. CASE Display!Restart
  <2>1. /\ pending' = Display!Nothing /\ timers' = {} /\ undo' = {} /\ boot' = saved
        /\ UNCHANGED <<offered, screen, saved, expected>>
        /\ ~crossed' => ~crossed /\ ~Display!Under /\ pending = Display!Nothing /\ undo = {}
    BY <1>13 DEF Display!Restart
  <2>2. ask' = [r \in Asks |-> IF ask[r].at = "new" THEN ask[r] ELSE [ask[r] EXCEPT !.at = "done"]]
    BY <1>13 DEF Display!Restart
  <2>3. ASSUME NEW r \in Asks
        PROVE  /\ ask'[r] \in AskRecord /\ ask'[r].at \in {"new", "done"}
               /\ ask'[r].at # "new" => ask'[r].mode \in Modes /\ ask'[r].prev \in Modes
    BY <2>2 DEF DisplayInv, DisplayTypes, AskRecord
  <2>4. ask' \in [Asks -> AskRecord]
    BY <2>2, <2>3
  <2>5. DisplayTypes'
    BY <2>1, <2>3, <2>4 DEF DisplayInv, DisplayTypes
  <2>6. ASSUME ~crossed' PROVE Provisional' /\ OneSets' /\ Undone'
    BY <2>1, <2>3, <2>6 DEF DisplayInv, Provisional, OneSets, Undone, Setting, Display!Under
  <2>. QED
    BY <2>5, <2>6 DEF DisplayInv
<1>14. CASE UNCHANGED Display!vars
  BY <1>14 DEF Display!vars, DisplayInv, DisplayTypes, Provisional, OneSets, Undone, Setting,
               Display!Under
<1>. QED
  BY <1>1, <1>2, <1>3, <1>4, <1>5, <1>7, <1>8, <1>9, <1>10, <1>11, <1>12, <1>13, <1>14
     DEF Display!Next

(* A display mode nobody kept does not stay (handlers_display.go), for any *)
(* number of requests, modes and screens.                                  *)
THEOREM UnkeptModesAreUndone ==
  ASSUME Display!None \notin Modes, Screens \subseteq SUBSET Modes
  PROVE  Spec => []UnkeptIsUndone
<1>1. DisplayInv => Display!UnkeptIsUndone
  BY DEF DisplayInv, Undone, Display!UnkeptIsUndone
<1>2. Display!Init => DisplayInv
  BY DisplayInit
<1>3. DisplayInv /\ [Display!Next]_(Display!vars) => DisplayInv'
  BY DisplayNext
<1>. DEFINE Inv == part = "display" => DisplayInv
<1>4. Init => Inv
  BY <1>2 DEF Init, Begun
<1>5. Inv /\ [Next]_vars => Inv'
  <2>1. ASSUME [Next]_vars, part' = "display" PROVE part = "display" /\ [Display!Next]_(Display!vars)
    BY <2>1, DisplayTurn
  <2>. QED
    BY <2>1, <1>3
<1>6. Inv => UnkeptIsUndone
  BY <1>1 DEF UnkeptIsUndone
<1>. QED
  BY <1>4, <1>5, <1>6, PTL DEF Spec

-----------------------------------------------------------------------------
(* Noise.  Whatever is left of the script closes what is open: an open end *)
(* is one that a process yet to start reads from, and the owner of the     *)
(* device is the last to start.                                            *)
Steps == Pipeline!Script(preset)
Opens(p) == <<"pipe", p>>
Starts(p) == <<"start", p>>
ReaderToCome(e, i) ==
    \E k \in i .. Len(Steps) : \E q \in Pipeline!Reads(Steps[k][2]) :
        Steps[k][1] = "start" /\ e \in Pipeline!Ends(q)
PipelineInv ==
    /\ Pipeline!TypeOK
    /\ pc = "script" => at <= Len(Steps) /\ \A e \in ends : ReaderToCome(e, at)
    /\ pc # "script" => ends = {} /\ (pc # "wait" \/ Pipeline!Owner \in started)
    /\ pc \in {"reap", "returned"} => alive = {}
    /\ pc = "returned" => started = reaped

(* What the order of the steps promises, preset by preset. *)
InOrder ==
    /\ Len(Steps) \in Nat \ {0} /\ Steps[Len(Steps)] = Starts(Pipeline!Owner)
    /\ \A i \in 1 .. Len(Steps) : Steps[i] = Starts(Pipeline!Owner) => i = Len(Steps)
    /\ \A i \in 1 .. Len(Steps) : Steps[i][1] \in {"pipe", "start"}
    /\ \A i \in 1 .. Len(Steps) : Steps[i][1] = "start" => Steps[i] = Starts(Steps[i][2])
    /\ \A i \in 1 .. Len(Steps) : Steps[i][1] = "pipe" =>
          \E k \in i + 1 .. Len(Steps) :
             Steps[k][1] = "start" /\ Steps[i][2] \in Pipeline!Reads(Steps[k][2])

LEMMA StepsInOrder == ASSUME preset \in Pipeline!Presets PROVE InOrder
<1>1. CASE preset.body = "sox" /\ preset.floor = "none"
  <2>1. Steps = <<>> \o <<Starts("play")>>
    BY <1>1 DEF Steps, Opens, Starts, Pipeline!Script, Pipeline!Stage, Pipeline!Owner
  <2>2. /\ Len(Steps) = 1
        /\ Steps[1] = Starts("play")
    BY <2>1
  <2>. QED
    BY <2>2 DEF InOrder, Opens, Starts, Pipeline!Owner
<1>2. CASE preset.body = "ffmpeg" /\ preset.floor = "none"
  <2>1. Steps = <<Opens("bodygen"), Starts("bodygen")>> \o <<Starts("play")>>
    BY <1>2 DEF Steps, Opens, Starts, Pipeline!Script, Pipeline!Stage, Pipeline!Owner
  <2>2. /\ Len(Steps) = 3
        /\ Steps[1] = Opens("bodygen") /\ Steps[2] = Starts("bodygen")
        /\ Steps[3] = Starts("play")
    BY <2>1
  <2>3. /\ "bodygen" \in Pipeline!Reads("play")
    BY <1>2 DEF Pipeline!Reads, Pipeline!Owner
  <2>. QED
    BY <2>2, <2>3 DEF InOrder, Opens, Starts, Pipeline!Owner
<1>3. CASE preset.body = "sox" /\ preset.floor = "sox"
  <2>1. Steps = (<<Opens("body"), Starts("body")>>
                 \o <<Opens("floor"), Starts("floor")>>) \o <<Starts("play")>>
    BY <1>3 DEF Steps, Opens, Starts, Pipeline!Script, Pipeline!Stage, Pipeline!Owner
  <2>2. /\ Len(Steps) = 5
        /\ Steps[1] = Opens("body") /\ Steps[2] = Starts("body")
        /\ Steps[3] = Opens("floor") /\ Steps[4] = Starts("floor")
        /\ Steps[5] = Starts("play")
    BY <2>1
  <2>3. /\ "body" \in Pipeline!Reads("play")
        /\ "floor" \in Pipeline!Reads("play")
    BY <1>3 DEF Pipeline!Reads, Pipeline!Owner
  <2>. QED
    BY <2>2, <2>3 DEF InOrder, Opens, Starts, Pipeline!Owner
<1>4. CASE preset.body = "ffmpeg" /\ preset.floor = "sox"
  <2>1. Steps = (<<Opens("body"), Opens("bodygen"), Starts("bodygen"), Starts("body")>>
                 \o <<Opens("floor"), Starts("floor")>>) \o <<Starts("play")>>
    BY <1>4 DEF Steps, Opens, Starts, Pipeline!Script, Pipeline!Stage, Pipeline!Owner
  <2>2. /\ Len(Steps) = 7
        /\ Steps[1] = Opens("body") /\ Steps[2] = Opens("bodygen")
        /\ Steps[3] = Starts("bodygen") /\ Steps[4] = Starts("body")
        /\ Steps[5] = Opens("floor") /\ Steps[6] = Starts("floor")
        /\ Steps[7] = Starts("play")
    BY <2>1
  <2>3. /\ "body" \in Pipeline!Reads("play")
        /\ "floor" \in Pipeline!Reads("play")
        /\ "bodygen" \in Pipeline!Reads("body")
    BY <1>4 DEF Pipeline!Reads, Pipeline!Owner
  <2>. QED
    BY <2>2, <2>3 DEF InOrder, Opens, Starts, Pipeline!Owner
<1>5. CASE preset.body = "sox" /\ preset.floor = "ffmpeg"
  <2>1. Steps = (<<Opens("body"), Starts("body")>>
                 \o <<Opens("floor"), Opens("floorgen"), Starts("floorgen"), Starts("floor")>>) \o <<Starts("play")>>
    BY <1>5 DEF Steps, Opens, Starts, Pipeline!Script, Pipeline!Stage, Pipeline!Owner
  <2>2. /\ Len(Steps) = 7
        /\ Steps[1] = Opens("body") /\ Steps[2] = Starts("body")
        /\ Steps[3] = Opens("floor") /\ Steps[4] = Opens("floorgen")
        /\ Steps[5] = Starts("floorgen") /\ Steps[6] = Starts("floor")
        /\ Steps[7] = Starts("play")
    BY <2>1
  <2>3. /\ "body" \in Pipeline!Reads("play")
        /\ "floor" \in Pipeline!Reads("play")
        /\ "floorgen" \in Pipeline!Reads("floor")
    BY <1>5 DEF Pipeline!Reads, Pipeline!Owner
  <2>. QED
    BY <2>2, <2>3 DEF InOrder, Opens, Starts, Pipeline!Owner
<1>6. CASE preset.body = "ffmpeg" /\ preset.floor = "ffmpeg"
  <2>1. Steps = (<<Opens("body"), Opens("bodygen"), Starts("bodygen"), Starts("body")>>
                 \o <<Opens("floor"), Opens("floorgen"), Starts("floorgen"), Starts("floor")>>) \o <<Starts("play")>>
    BY <1>6 DEF Steps, Opens, Starts, Pipeline!Script, Pipeline!Stage, Pipeline!Owner
  <2>2. /\ Len(Steps) = 9
        /\ Steps[1] = Opens("body") /\ Steps[2] = Opens("bodygen")
        /\ Steps[3] = Starts("bodygen") /\ Steps[4] = Starts("body")
        /\ Steps[5] = Opens("floor") /\ Steps[6] = Opens("floorgen")
        /\ Steps[7] = Starts("floorgen") /\ Steps[8] = Starts("floor")
        /\ Steps[9] = Starts("play")
    BY <2>1
  <2>3. /\ "body" \in Pipeline!Reads("play")
        /\ "floor" \in Pipeline!Reads("play")
        /\ "bodygen" \in Pipeline!Reads("body")
        /\ "floorgen" \in Pipeline!Reads("floor")
    BY <1>6 DEF Pipeline!Reads, Pipeline!Owner
  <2>. QED
    BY <2>2, <2>3 DEF InOrder, Opens, Starts, Pipeline!Owner
<1>. QED
  BY <1>1, <1>2, <1>3, <1>4, <1>5, <1>6 DEF Pipeline!Presets

LEMMA PipelineInit == Pipeline!Init => PipelineInv
<1>. SUFFICES ASSUME Pipeline!Init PROVE PipelineInv
  OBVIOUS
<1>1. preset \in Pipeline!Presets /\ at = 1 /\ pc = "script" /\ ends = {} /\ started = {}
  BY DEF Pipeline!Init
<1>2. InOrder
  BY <1>1, StepsInOrder
<1>3. 1 \in 1 .. Len(Steps) + 1
  BY <1>2 DEF InOrder
<1>4. Pipeline!TypeOK
  BY <1>3, Zenon DEF Pipeline!Init, Pipeline!TypeOK, Steps
<1>. QED
  BY <1>1, <1>2, <1>4 DEF PipelineInv, InOrder

LEMMA PipelineNext == PipelineInv /\ [Pipeline!Next]_(Pipeline!vars) => PipelineInv'
<1>. SUFFICES ASSUME PipelineInv, [Pipeline!Next]_(Pipeline!vars) PROVE PipelineInv'
  OBVIOUS
<1>a. /\ preset \in Pipeline!Presets /\ at \in 1 .. Len(Steps) + 1 /\ frozen \in BOOLEAN /\ over \in BOOLEAN
      /\ reaped \subseteq started /\ alive \subseteq started
      /\ pc \in {"script", "wait", "kill", "reap", "returned"} /\ result \in {"none", "nil", "error"}
  BY DEF PipelineInv, Pipeline!TypeOK, Steps
<1>b. InOrder
  BY <1>a, StepsInOrder
<1>c. Pipeline!Presets' = Pipeline!Presets
  BY DEF Pipeline!Presets
<1>d. ASSUME preset' = preset
      PROVE  Steps' = Steps /\ \A p : Pipeline!Reads(p)' = Pipeline!Reads(p)
  BY <1>d DEF Steps, Pipeline!Script, Pipeline!Stage, Pipeline!Reads
<1>1. CASE Pipeline!OpenPipe
  <2>1. /\ pc = "script" /\ Steps[at][1] = "pipe" /\ ends' = ends \cup Pipeline!Ends(Steps[at][2])
        /\ at' = at + 1
        /\ UNCHANGED <<preset, pc, started, alive, reaped, frozen, over, result>>
    BY <1>1 DEF Pipeline!OpenPipe, Pipeline!Does, Pipeline!Subject, Steps
  <2>2. at \in 1 .. Len(Steps) /\ at # Len(Steps)
    BY <1>a, <1>b, <2>1 DEF PipelineInv, InOrder, Starts
  <2>3. \A e \in ends : ReaderToCome(e, at + 1)
    BY <1>a, <1>b, <2>1, <2>2 DEF PipelineInv, ReaderToCome, InOrder
  <2>4. \A e \in Pipeline!Ends(Steps[at][2]) : ReaderToCome(e, at + 1)
    BY <1>b, <2>1, <2>2 DEF ReaderToCome, InOrder
  <2>5. \A e \in ends' : ReaderToCome(e, at + 1)
    BY <2>1, <2>3, <2>4
  <2>. QED
    BY <1>a, <1>b, <1>d, <2>1, <2>2, <2>5 DEF PipelineInv, Pipeline!TypeOK, InOrder, Steps, ReaderToCome
<1>2. CASE Pipeline!Start
  <2>. DEFINE p == Steps[at][2]
  <2>1. /\ pc = "script" /\ Steps[at][1] = "start"
        /\ started' = started \cup {p} /\ alive' = alive \cup {p} /\ at' = at + 1
        /\ pc' = IF p = Pipeline!Owner THEN "wait" ELSE "script"
        /\ UNCHANGED <<preset, reaped, frozen, over, result>>
        /\ ends' \subseteq ends \ UNION {Pipeline!Ends(q) : q \in Pipeline!Reads(p)}
    BY <1>2 DEF Pipeline!Start, Pipeline!Does, Pipeline!Subject, Steps
  <2>2. at \in 1 .. Len(Steps) /\ Steps[at] = Starts(p)
    BY <1>a, <1>b, <2>1 DEF PipelineInv, InOrder
  <2>3. p = Pipeline!Owner <=> at = Len(Steps)
    BY <1>b, <2>2 DEF InOrder, Starts
  <2>4. \A e \in ends' : ReaderToCome(e, at + 1)
    <3>. SUFFICES ASSUME NEW e \in ends' PROVE ReaderToCome(e, at + 1)
      OBVIOUS
    <3>1. e \in ends /\ \A q \in Pipeline!Reads(p) : e \notin Pipeline!Ends(q)
      BY <2>1
    <3>2. PICK k \in at .. Len(Steps) : \E q \in Pipeline!Reads(Steps[k][2]) :
             Steps[k][1] = "start" /\ e \in Pipeline!Ends(q)
      BY <2>1, <3>1 DEF PipelineInv, ReaderToCome
    <3>3. k # at
      BY <3>1, <3>2
    <3>. QED
      BY <1>a, <1>b, <2>2, <3>2, <3>3 DEF ReaderToCome, InOrder
  <2>5. at = Len(Steps) => ends' = {}
    BY <1>b, <2>4 DEF ReaderToCome, InOrder
  <2>6. Steps' = Steps /\ \A q : Pipeline!Reads(q)' = Pipeline!Reads(q)
    BY <1>d, <2>1
  <2>7. Pipeline!TypeOK'
    BY <1>a, <1>b, <2>1, <2>2, <2>6 DEF Pipeline!TypeOK, InOrder, Steps
  <2>8. CASE at = Len(Steps)
    BY <2>1, <2>3, <2>5, <2>7, <2>8 DEF PipelineInv
  <2>9. CASE at # Len(Steps)
    <3>1. pc' = "script" /\ at' <= Len(Steps)
      BY <1>b, <2>1, <2>2, <2>3, <2>9 DEF InOrder
    <3>2. \A e \in ends' : ReaderToCome(e, at)'
      BY <2>1, <2>4, <2>6 DEF ReaderToCome
    <3>. QED
      BY <2>6, <2>7, <3>1, <3>2 DEF PipelineInv
  <2>. QED
    BY <2>8, <2>9
<1>3. CASE Pipeline!Fail \/ Pipeline!Waited \/ Pipeline!KillAll \/ Pipeline!Reap \/ Pipeline!Return
  <2>1. /\ UNCHANGED <<preset, at, started, frozen, over>> /\ pc' # "script" /\ ends' = {}
        /\ alive' \in {alive, {}} /\ reaped' \subseteq started /\ pc' # "wait"
        /\ pc' \in {"kill", "reap", "returned"} /\ result' \in {"none", "nil", "error"}
        /\ pc' \in {"reap", "returned"} => alive' = {}
        /\ pc' = "returned" => started = reaped'
    BY <1>3, <1>a DEF PipelineInv, Pipeline!Fail, Pipeline!Waited, Pipeline!KillAll, Pipeline!Reap, Pipeline!Return
  <2>2. Steps' = Steps
    BY <1>d, <2>1
  <2>3. frozen' \in BOOLEAN /\ over' \in BOOLEAN
    BY <1>a, <2>1, Zenon
  <2>. QED
    BY <1>a, <2>1, <2>2, <2>3 DEF PipelineInv, Pipeline!TypeOK, Steps
<1>4. ASSUME \/ \E p \in started : Pipeline!Quits(p) \/ Pipeline!Killed(p)
             \/ Pipeline!Cancel \/ Pipeline!Freeze \/ UNCHANGED Pipeline!vars
      PROVE  PipelineInv'
  <2>1. UNCHANGED <<preset, at, pc, ends, started, reaped, result>> /\ alive' \subseteq alive
    BY <1>4 DEF Pipeline!Quits, Pipeline!Killed, Pipeline!Cancel, Pipeline!Freeze, Pipeline!vars
  <2>2. frozen' \in BOOLEAN /\ over' \in BOOLEAN
    BY <1>4, <1>a, Zenon DEF Pipeline!Quits, Pipeline!Killed, Pipeline!Cancel, Pipeline!Freeze, Pipeline!vars
  <2>3. Steps' = Steps /\ \A q : Pipeline!Reads(q)' = Pipeline!Reads(q)
    BY <1>d, <2>1
  <2>4. Pipeline!TypeOK'
    BY <1>a, <2>1, <2>2, <2>3 DEF Pipeline!TypeOK, Steps
  <2>5. \A e \in ends : ReaderToCome(e, at)' <=> ReaderToCome(e, at)
    BY <2>1, <2>3 DEF ReaderToCome
  <2>. QED
    BY <2>1, <2>3, <2>4, <2>5 DEF PipelineInv
<1>. QED
  BY <1>1, <1>2, <1>3, <1>4 DEF Pipeline!Next

(* A noise session leaves no process and no pipe end behind (noise.go),    *)
(* whatever fails and in whatever order its processes go.                  *)
THEOREM NoiseLeavesNothing == Spec => []NothingLeftBehind
<1>1. PipelineInv => Pipeline!NothingLeftBehind
  BY DEF PipelineInv, Pipeline!NothingLeftBehind
<1>. DEFINE Inv == part = "pipeline" => PipelineInv
<1>2. Init => Inv
  BY PipelineInit DEF Init, Begun
<1>3. Inv /\ [Next]_vars => Inv'
  <2>1. ASSUME [Next]_vars, part' = "pipeline" PROVE part = "pipeline" /\ [Pipeline!Next]_(Pipeline!vars)
    BY <2>1, PipelineTurn
  <2>. QED
    BY <2>1, PipelineNext
<1>4. Inv => NothingLeftBehind
  BY <1>1 DEF NothingLeftBehind
<1>. QED
  BY <1>2, <1>3, <1>4, PTL DEF Spec

-----------------------------------------------------------------------------
(* A show somebody watches: a file has a season and an episode number, two *)
(* of one number are two rows of a query, and players report a position in *)
(* percent and whether it is finished.                                     *)
ShowInOrder ==
    /\ SeasonOf \in [Episodes -> Nat] /\ NumberOf \in [Episodes -> Nat]
    /\ RowOf \in [Episodes -> Nat] /\ \A f, g \in Episodes : RowOf[f] = RowOf[g] => f = g
    /\ Reports \subseteq Nat \X BOOLEAN
    /\ Card!NoFile \notin Episodes

(* An episode without a row of progress is not watched. *)
ProgressRow == [pos : Nat, done : BOOLEAN, at : Nat]
CardInv ==
    /\ kind \in {"tv", "movie"} /\ clock \in Nat \ {0} /\ rows \in [Episodes -> ProgressRow]
    /\ \A f \in Episodes : rows[f].at = 0 => rows[f].pos = 0 /\ ~rows[f].done

LEMMA Least ==
  ASSUME NEW T, T \subseteq Nat, T # {}
  PROVE  \E m \in T : \A n \in T : m <= n
<1>1. PICK m \in T : \A n \in T : <<n, m>> \notin OpToRel(<, Nat)
  BY WFMin, NatLessThanWellFounded, Zenon
<1>2. \A n \in T : ~(n < m)
  BY <1>1, Zenon DEF OpToRel
<1>3. \A n \in T : m <= n
  BY <1>2
<1>. QED
  BY <1>3

LEMMA FirstOfSome ==
  ASSUME ShowInOrder, NEW S \in SUBSET Episodes
  PROVE  /\ S = {} => Card!FirstOf(S) = Card!NoFile
         /\ S # {} => Card!FirstOf(S) \in S
<1>1. CASE S = {}
  BY <1>1 DEF Card!FirstOf
<1>2. CASE S # {}
  <2>. DEFINE T == {NumberOf[f] : f \in S}
  <2>t. \A f \in S : NumberOf[f] \in Nat /\ RowOf[f] \in Nat
    BY DEF ShowInOrder
  <2>1. T \subseteq Nat /\ T # {}
    BY <1>2, <2>t
  <2>2. PICK m \in T : \A n \in T : m <= n
    BY <2>1, Least
  <2>. DEFINE U == {RowOf[f] : f \in {g \in S : NumberOf[g] = m}}
  <2>3. U \subseteq Nat /\ U # {}
    BY <2>2, <2>t
  <2>4. PICK r \in U : \A n \in U : r <= n
    BY <2>3, Least
  <2>5. PICK f \in S : NumberOf[f] = m /\ RowOf[f] = r
    BY <2>4
  <2>6. ASSUME NEW g \in S PROVE g = f \/ Card!Ahead(f, g)
    <3>1. m <= NumberOf[g] /\ (NumberOf[g] = m => r <= RowOf[g]) /\ (RowOf[g] = r => g = f)
      BY <2>2, <2>4, <2>5 DEF ShowInOrder
    <3>. QED
      BY <2>t, <2>5, <3>1 DEF Card!Ahead
  <2>7. \E h \in S : \A g \in S : g = h \/ Card!Ahead(h, g)
    BY <2>6
  <2>. QED
    BY <1>2, <2>7 DEF Card!FirstOf
<1>. QED
  BY <1>1, <1>2

LEMMA LeastSeason ==
  ASSUME NEW T, T \subseteq Nat, T # {}
  PROVE  Card!Min(T) \in T /\ \A n \in T : Card!Min(T) <= n
<1>1. \E m \in T : \A n \in T : m <= n
  BY Least
<1>. QED
  BY <1>1 DEF Card!Min

LEMMA CardStep ==
  ASSUME Reports \subseteq Nat \X BOOLEAN, CardInv, [Card!Next]_(Card!vars)
  PROVE  CardInv'
<1>1. ASSUME NEW new, Card!Touch(new),
             \A f \in Episodes : f \in DOMAIN new => new[f] \in ProgressRow
      PROVE  CardInv'
  <2>1. /\ kind' = kind /\ clock' \in Nat \ {0}
        /\ rows' = [f \in Episodes |-> IF f \in DOMAIN new THEN [new[f] EXCEPT !.at = clock'] ELSE rows[f]]
    BY <1>1 DEF Card!Touch, CardInv
  <2>2. \A f \in Episodes : f \in DOMAIN new =>
            [new[f] EXCEPT !.at = clock'] \in ProgressRow /\ [new[f] EXCEPT !.at = clock'].at # 0
    BY <1>1, <2>1 DEF ProgressRow
  <2>. QED
    BY <2>1, <2>2 DEF CardInv
<1>2. ASSUME NEW f \in Episodes, NEW report \in Reports, Card!Reported(f, report) PROVE CardInv'
  <2>. DEFINE new == [g \in {f} |-> [rows[g] EXCEPT !.pos = report[1], !.done = @ \/ report[2]]]
  <2>1. report[1] \in Nat /\ report[2] \in BOOLEAN
    OBVIOUS
  <2>2. \A g \in Episodes : g \in DOMAIN new => new[g] \in ProgressRow
    BY <2>1 DEF CardInv, ProgressRow
  <2>. QED
    BY <1>1, <1>2, <2>2 DEF Card!Reported
<1>3. ASSUME NEW S \in SUBSET Episodes, NEW watched \in BOOLEAN, Card!markWatched(S, watched) PROVE CardInv'
  <2>. DEFINE new == [f \in S |-> [rows[f] EXCEPT !.pos = 0, !.done = watched]]
  <2>1. \A g \in Episodes : g \in DOMAIN new => new[g] \in ProgressRow
    BY DEF CardInv, ProgressRow
  <2>. QED
    BY <1>1, <1>3, <2>1 DEF Card!markWatched
<1>4. CASE UNCHANGED Card!vars
  BY <1>4 DEF Card!vars, CardInv
<1>5. CASE Card!Next
  BY <1>2, <1>3, <1>5 DEF Card!Next, Card!tvPlaybackProgress, Card!moviePlaybackProgress,
     Card!tvMarkWatched, Card!movieMarkWatched
<1>. QED
  BY <1>4, <1>5

(* The two copies of what counts as active and as watched agree. *)
LEMMA QueryAgrees ==
  ASSUME NEW r \in ProgressRow
  PROVE  /\ Card!ActiveInQuery(r) <=> Card!activeResume(r)
         /\ Card!WatchedInQuery(r) <=> Card!effectivelyWatched(r)
BY DEF ProgressRow, Card!ActiveInQuery, Card!activeResume, Card!WatchedInQuery, Card!effectivelyWatched

(* The last touched of a season is the one that the query and the player   *)
(* look at.                                                                *)
LEMMA NewestInSeason ==
  ASSUME CardInv, ShowInOrder, NEW S \in SUBSET Episodes, NEW last \in Card!Newest(S), Card!Told(S)
  PROVE  Card!Newest(S) = {last} /\ Card!FirstOf(Card!Newest(S)) = last /\ last # Card!NoFile
<1>1. last \in S /\ rows[last].at # 0 /\ \A g \in S : rows[g].at <= rows[last].at /\ rows[g].at \in Nat
  BY DEF Card!Newest, CardInv, ProgressRow
<1>2. ASSUME NEW f \in Card!Newest(S) PROVE f = last
  <2>1. f \in S /\ rows[last].at <= rows[f].at /\ rows[f].at <= rows[last].at
    BY <1>1 DEF Card!Newest
  <2>2. rows[f].at = rows[last].at
    BY <1>1, <2>1
  <2>. QED
    BY <1>1, <2>1, <2>2 DEF Card!Told
<1>3. Card!Newest(S) = {last}
  BY <1>2
<1>4. Card!FirstOf({last}) \in {last}
  BY <1>1, FirstOfSome
<1>. QED
  BY <1>1, <1>3, <1>4 DEF ShowInOrder

LEMMA FilmCard ==
  ASSUME CardInv, ShowInOrder, Card!Told(Episodes), NEW last \in Card!Newest(Episodes)
  PROVE  Card!loadMovieContinueWatching = {last} <=>
            (Card!activeResume(rows[last]) \/ ~Card!effectivelyWatched(rows[last]))
<1>1. Card!Newest(Episodes) = {last}
  BY NewestInSeason
<1>2. last \in Episodes /\ rows[last] \in ProgressRow
  BY DEF Card!Newest, CardInv
<1>. DEFINE fits == /\ ~rows[last].done \/ rows[last].pos > 0
                    /\ rows[last].pos < IF rows[last].done THEN 90 ELSE 95
<1>3. Card!loadMovieContinueWatching = {f \in {last} : fits}
  BY <1>1 DEF Card!loadMovieContinueWatching
<1>4. fits <=> (Card!activeResume(rows[last]) \/ ~Card!effectivelyWatched(rows[last]))
  BY <1>2 DEF Card!activeResume, Card!effectivelyWatched, ProgressRow
<1>. QED
  BY <1>3, <1>4

LEMMA ShowCard ==
  ASSUME CardInv, ShowInOrder, \A f \in Episodes : Card!Told(Card!seasonEpisodeFiles(SeasonOf[f])),
         NEW last \in Card!Newest(Episodes)
  PROVE  LET season == Card!tvContinueWatchingQuery(last)
             next == IF season = Card!NoSeason THEN Card!NoFile ELSE Card!continueTarget(season)
         IN  /\ season # Card!NoSeason => next # Card!NoFile
             /\ Card!activeResume(rows[last]) => next = last
             /\ next = Card!NoFile =>
                   \A f \in Episodes : SeasonOf[f] >= SeasonOf[last] => Card!effectivelyWatched(rows[f])
             /\ (/\ \A f \in Episodes : Card!Before(f, last) \/ f = last => Card!effectivelyWatched(rows[f])
                 /\ \A f \in Episodes : Card!Before(last, f) => rows[f].at = 0
                 /\ ~Card!activeResume(rows[last])) => next = Card!UpNext(last)
<1>. DEFINE season == Card!tvContinueWatchingQuery(last)
            next == IF season = Card!NoSeason THEN Card!NoFile ELSE Card!continueTarget(season)
            Eps(s) == Card!seasonEpisodeFiles(s)
            Left(s) == {f \in Eps(s) : ~Card!effectivelyWatched(rows[f])}
            open == {SeasonOf[f] : f \in {g \in Episodes : SeasonOf[g] >= SeasonOf[last]
                                                           /\ ~Card!WatchedInQuery(rows[g])}}
<1>t. /\ \A f \in Episodes : /\ SeasonOf[f] \in Nat /\ NumberOf[f] \in Nat /\ RowOf[f] \in Nat
                              /\ rows[f] \in ProgressRow
      /\ last \in Episodes /\ rows[last].at # 0 /\ \A g \in Episodes : rows[g].at <= rows[last].at
  BY DEF ShowInOrder, CardInv, Card!Newest
<1>s. ASSUME NEW s PROVE Eps(s) \subseteq Episodes /\ \A f \in Eps(s) : SeasonOf[f] = s
  BY DEF Card!seasonEpisodeFiles
<1>n. /\ Card!Newest(Eps(SeasonOf[last])) = {last}
      /\ Card!FirstOf(Card!Newest(Eps(SeasonOf[last]))) = last /\ last # Card!NoFile
  <2>1. last \in Card!Newest(Eps(SeasonOf[last]))
    BY <1>t DEF Card!Newest, Card!seasonEpisodeFiles
  <2>. QED
    BY <1>t, <1>s, <2>1, NewestInSeason
<1>o. /\ open \subseteq Nat
      /\ \A f \in Episodes : SeasonOf[f] >= SeasonOf[last] /\ ~Card!effectivelyWatched(rows[f]) => SeasonOf[f] \in open
      /\ \A s \in open : s >= SeasonOf[last] /\ Left(s) # {}
  BY <1>t, QueryAgrees DEF Card!seasonEpisodeFiles
<1>c. season = IF Card!activeResume(rows[last]) THEN SeasonOf[last]
               ELSE IF open = {} THEN Card!NoSeason ELSE Card!Min(open)
  BY <1>t, QueryAgrees DEF Card!tvContinueWatchingQuery
<1>d. ASSUME NEW s
      PROVE  Card!continueTarget(s) =
                IF Card!FirstOf(Card!Newest(Eps(s))) # Card!NoFile
                   /\ Card!activeResume(rows[Card!FirstOf(Card!Newest(Eps(s)))])
                THEN Card!FirstOf(Card!Newest(Eps(s))) ELSE Card!FirstOf(Left(s))
  BY DEF Card!continueTarget
<1>m. open # {} => Card!Min(open) \in open /\ \A n \in open : Card!Min(open) <= n
  BY <1>o, LeastSeason
<1>. HIDE DEF season, open
<1>1. CASE Card!activeResume(rows[last])
  <2>1. season = SeasonOf[last] /\ season # Card!NoSeason
    BY <1>1, <1>c, <1>t DEF Card!NoSeason
  <2>2. next = last
    BY <1>1, <1>d, <1>n, <2>1
  <2>. QED
    BY <1>1, <1>n, <2>1, <2>2 DEF season
<1>2. CASE ~Card!activeResume(rows[last]) /\ open = {}
  <2>1. season = Card!NoSeason /\ next = Card!NoFile
    BY <1>2, <1>c
  <2>2. ASSUME NEW f \in Episodes, SeasonOf[f] >= SeasonOf[last] PROVE Card!effectivelyWatched(rows[f])
    BY <1>2, <1>o, <1>t, <2>2
  <2>3. ASSUME \A f \in Episodes : Card!Before(last, f) => rows[f].at = 0
        PROVE  Card!UpNext(last) = Card!NoFile
    <3>1. \A f \in Episodes : ~Card!Before(last, f)
      <4>1. \A f \in Episodes : Card!Before(last, f) => SeasonOf[f] >= SeasonOf[last]
        BY <1>t DEF Card!Before
      <4>. QED
        BY <2>2, <2>3, <4>1, <1>t DEF CardInv, Card!effectivelyWatched
    <3>2. {g \in Eps(SeasonOf[last]) : Card!Ahead(last, g)} = {}
      BY <1>s, <1>t, <3>1 DEF Card!Before
    <3>3. {SeasonOf[g] : g \in Episodes} \ (0 .. SeasonOf[last]) = {}
      BY <1>t, <3>1 DEF Card!Before
    <3>. QED
      BY <3>2, <3>3, FirstOfSome DEF Card!UpNext, Card!findAdjacentEpisode, Card!nextSeasonFirstEpisode
  <2>. QED
    BY <1>2, <2>1, <2>2, <2>3 DEF season
<1>3. CASE ~Card!activeResume(rows[last]) /\ open # {}
  <2>1. /\ season = Card!Min(open) /\ season \in open /\ season # Card!NoSeason
        /\ season \in Nat /\ season >= SeasonOf[last] /\ Left(season) # {} /\ \A n \in open : season <= n
    <3>1. season = Card!Min(open) /\ season \in open /\ \A n \in open : season <= n
      BY <1>3, <1>c, <1>m
    <3>2. season \in Nat /\ season >= SeasonOf[last] /\ Left(season) # {}
      BY <1>o, <3>1
    <3>. QED
      BY <3>1, <3>2 DEF Card!NoSeason
  <2>2. /\ Left(season) \subseteq Episodes /\ Card!FirstOf(Left(season)) \in Left(season)
    <3>1. Left(season) \in SUBSET Episodes
      BY <1>s
    <3>. QED
      BY <2>1, <3>1, FirstOfSome
  <2>3. next # Card!NoFile
    BY <1>d, <2>1, <2>2 DEF ShowInOrder
  <2>4. ASSUME \A f \in Episodes : Card!Before(f, last) \/ f = last => Card!effectivelyWatched(rows[f]),
               \A f \in Episodes : Card!Before(last, f) => rows[f].at = 0
        PROVE  next = Card!UpNext(last)
    <3>. DEFINE rest == {g \in Eps(SeasonOf[last]) : Card!Ahead(last, g)}
                later == {SeasonOf[g] : g \in Episodes} \ (0 .. SeasonOf[last])
    <3>1. ASSUME NEW f \in Episodes PROVE ~Card!effectivelyWatched(rows[f]) <=> Card!Before(last, f)
      <4>1. Card!Before(last, f) => ~Card!effectivelyWatched(rows[f])
        BY <2>4, <1>t DEF CardInv, Card!effectivelyWatched
      <4>2. Card!Before(last, f) \/ Card!Before(f, last) \/ f = last
        BY <1>t DEF Card!Before, Card!Ahead, ShowInOrder
      <4>. QED
        BY <2>4, <4>1, <4>2
    <3>2. Card!UpNext(last) = IF Card!FirstOf(rest) # Card!NoFile THEN Card!FirstOf(rest)
                              ELSE IF later = {} THEN Card!NoFile ELSE Card!FirstOf(Eps(Card!Min(later)))
      BY DEF Card!UpNext, Card!findAdjacentEpisode, Card!nextSeasonFirstEpisode
    <3>3. rest = Left(SeasonOf[last]) /\ rest \in SUBSET Episodes
      BY <1>s, <1>t, <3>1 DEF Card!Before
    <3>4. CASE rest # {}
      <4>1. SeasonOf[last] \in open
        <5>1. PICK f \in Left(SeasonOf[last]) : TRUE
          BY <3>3, <3>4
        <5>2. f \in Episodes /\ SeasonOf[f] = SeasonOf[last] /\ ~Card!effectivelyWatched(rows[f])
          BY <1>s
        <5>. QED
          BY <1>o, <1>t, <5>2
      <4>2. season = SeasonOf[last]
        BY <1>o, <1>t, <2>1, <4>1
      <4>3. next = Card!FirstOf(rest)
        BY <1>3, <1>d, <1>n, <2>1, <3>3, <4>2
      <4>4. Card!FirstOf(rest) \in Episodes
        BY <3>3, <3>4, FirstOfSome
      <4>. QED
        BY <3>2, <4>3, <4>4 DEF ShowInOrder
    <3>5. CASE rest = {}
      <4>1. season > SeasonOf[last]
        BY <1>o, <1>t, <2>1, <3>3, <3>5
      <4>2. open = later
        <5>1. ASSUME NEW s \in open PROVE s \in later
          <6>1. PICK f \in Left(s) : TRUE
            BY <1>o
          <6>2. f \in Episodes /\ SeasonOf[f] = s /\ s # SeasonOf[last] /\ s >= SeasonOf[last]
            BY <1>o, <1>s, <3>3, <3>5
          <6>. QED
            BY <1>t, <6>2
        <5>2. ASSUME NEW s \in later PROVE s \in open
          <6>1. PICK f \in Episodes : SeasonOf[f] = s
            OBVIOUS
          <6>2. SeasonOf[f] > SeasonOf[last]
            BY <1>t, <6>1
          <6>3. ~Card!effectivelyWatched(rows[f])
            BY <3>1, <6>2 DEF Card!Before
          <6>. QED
            BY <1>o, <1>t, <6>1, <6>2, <6>3
        <5>. QED
          BY <5>1, <5>2
      <4>3. \A f \in Eps(season) : f \in Episodes /\ rows[f].at = 0 /\ ~Card!effectivelyWatched(rows[f])
        BY <1>s, <1>t, <2>4, <3>1, <4>1 DEF Card!Before
      <4>4. Card!Newest(Eps(season)) = {} /\ Left(season) = Eps(season)
        BY <4>3 DEF Card!Newest
      <4>5. Card!FirstOf({}) = Card!NoFile
        BY FirstOfSome
      <4>6. next = Card!FirstOf(Eps(season))
        BY <1>d, <2>1, <4>4, <4>5
      <4>. QED
        BY <1>3, <2>1, <3>2, <3>5, <4>2, <4>5, <4>6
    <3>. QED
      BY <3>4, <3>5
  <2>. QED
    BY <1>3, <2>1, <2>3, <2>4 DEF season
<1>. QED
  BY <1>1, <1>2, <1>3

LEMMA CardTurn ==
  ASSUME [Next]_vars, part' = "card" PROVE part = "card" /\ [Card!Next]_(Card!vars)
<1>1. CASE Next
  BY <1>1 DEF Next, Turn
<1>2. CASE UNCHANGED vars
  BY <1>2 DEF vars, sharedVars, cardVars, Card!vars
<1>. QED
  BY <1>1, <1>2

(* For any show, with any number of files of an episode, and any reports   *)
(* and marks, a card of the home page plays, what plays is what was left   *)
(* in the middle last, nothing is left when there is no card, and for who  *)
(* watches the files in order it is what the player goes on with           *)
(* (web/handlers_core.go, handlers_tv.go); a film's card is its newest     *)
(* copy, not finished.                                                     *)
THEOREM CardsPlay ==
  ASSUME ShowInOrder
  PROVE  Spec => []CardPlays
<1>1. Card!Init => CardInv
  BY DEF Card!Init, CardInv, ProgressRow
<1>2. CardInv => Card!CardPlays
  <2>. SUFFICES ASSUME CardInv PROVE Card!CardPlays
    OBVIOUS
  <2>1. (\A f \in Episodes : rows[f].done /\ rows[f].pos = 0) => Card!loadMovieContinueWatching = {}
    BY DEF Card!loadMovieContinueWatching, Card!Newest
  <2>. QED
    BY <2>1, FilmCard, ShowCard DEF Card!CardPlays
<1>. DEFINE Inv == part = "card" => CardInv
<1>3. Init => Inv
  BY <1>1 DEF Init, Begun
<1>4. Inv /\ [Next]_vars => Inv'
  <2>1. ASSUME [Next]_vars, part' = "card" PROVE part = "card" /\ [Card!Next]_(Card!vars)
    BY <2>1, CardTurn
  <2>. QED
    BY <2>1, CardStep DEF ShowInOrder
<1>5. Inv => CardPlays
  BY <1>2 DEF CardPlays
<1>. QED
  BY <1>3, <1>4, <1>5, PTL DEF Spec

-----------------------------------------------------------------------------
(* What is played: sources as a probe describes them, and the requests a   *)
(* player can send.                                                        *)
Sources ==
    [container : STRING, videos : Seq([codec : STRING, px : Nat, pic : BOOLEAN]),
     audio : Seq([codec : STRING, default : BOOLEAN, lang : STRING]),
     subs : Seq([text : BOOLEAN, default : BOOLEAN, lang : STRING]), big : BOOLEAN, probed : BOOLEAN]
Playable ==
    /\ Films \subseteq Sources /\ Audiobooks \subseteq Sources
    /\ Requests \subseteq [aud : Nat, sub : Int, mode : {"auto", "direct_play", "direct_stream", "transcode"},
                           hint : STRING, ua : STRING, lang : STRING, subsOn : BOOLEAN]

(* The session of a request. *)
TitleReply ==
    LET s == Play!Known(source)
        aud == Play!Pinned(s, ask)
        auto == Play!AutoSub(s, ask)
        sub == IF ask.sub > 0 THEN ask.sub ELSE auto
        m == Play!FromProbe(s, aud, sub)
        outcome == Play!Decide(Play!Profile(ask.hint, ask.ua), m, ask.mode)
    IN  [decision |-> outcome.decision, url |-> Play!URL(outcome.decision, outcome.burn), aud |-> aud,
         sub |-> sub, sidecar |-> outcome.sidecar, audio |-> m.audio, auto |-> auto # 0]
BookReply ==
    LET m == Play!FromProbe(Play!Known(source), ask.aud, 0)
        outcome == Play!Decide(Play!Profile(ask.hint, ask.ua), m, ask.mode)
        decision == IF outcome.decision = Play!DirectPlay THEN Play!DirectPlay ELSE Play!DirectStream
    IN  [decision |-> decision, url |-> Play!URL(decision, FALSE), aud |-> ask.aud, sub |-> 0,
         sidecar |-> FALSE, audio |-> m.audio, auto |-> FALSE]

(* A request, the reply to it, and a stream that the reply names. *)
RequestKnown ==
    /\ \/ page = "title" /\ source \in Films
       \/ page = "book" /\ source \in Audiobooks
    /\ ask \in Requests /\ ask.aud \in 0 .. Len(Play!Known(source).audio)
    /\ ask.sub \in -1 .. Len(Play!Known(source).subs)
    /\ page = "book" => ask.sub = 0
ReplyKnown == pc # "asked" => reply = IF page = "title" THEN TitleReply ELSE BookReply
Sent(container, video, encoded, burned) ==
    stream = [container |-> container, video |-> video, audio |-> Play!Carried(encoded),
              from |-> Play!Mapped(reply.aud), burned |-> burned]
StreamKnown ==
    \/ /\ reply.url = "remux" /\ page = "title" /\ Play!Pictures(source) # {}
       /\ Sent("mp4", Play!MappedPicture, Play!Plan, 0)
    \/ reply.url = "remux" /\ page = "book" /\ Sent("mp4", Play!None, Play!Plan, 0)
    \/ /\ reply.url = "burnin" /\ reply.sub \in DOMAIN Play!Known(source).subs
       /\ Sent("mp4", "h264", TRUE, reply.sub)
    \/ reply.url = "hls" /\ Sent("ts", "h264", TRUE, 0)
PlayInv ==
    /\ RequestKnown /\ ReplyKnown
    /\ stream # Play!NoStream => pc = "streaming" /\ StreamKnown

LEMMA PlayStep ==
  ASSUME PlayInv, [Play!Next]_(Play!vars)
  PROVE  PlayInv'
<1>0. ASSUME UNCHANGED <<page, source, ask>> PROVE RequestKnown'
  BY <1>0 DEF PlayInv, RequestKnown
<1>1. CASE Play!TitleSession
  <2>1. UNCHANGED <<page, source, ask, stream>> /\ page = "title" /\ pc = "asked"
    BY <1>1 DEF Play!TitleSession
  <2>2. reply' = TitleReply'
    BY <1>1, <2>1 DEF Play!TitleSession, TitleReply
  <2>. QED
    BY <1>0, <2>1, <2>2 DEF PlayInv, ReplyKnown
<1>2. CASE Play!BookSession
  <2>1. UNCHANGED <<page, source, ask, stream>> /\ page = "book" /\ pc = "asked"
    BY <1>2 DEF Play!BookSession
  <2>2. reply' = BookReply'
    BY <1>2, <2>1 DEF Play!BookSession, BookReply
  <2>. QED
    BY <1>0, <2>1, <2>2 DEF PlayInv, ReplyKnown
<1>3. ASSUME UNCHANGED <<page, source, ask, reply>>, pc # "asked" PROVE ReplyKnown'
  BY <1>3 DEF PlayInv, ReplyKnown, TitleReply, BookReply
<1>4. CASE Play!StreamFile
  <2>1. /\ UNCHANGED <<page, source, ask, reply, stream>> /\ pc = "replied"
        /\ stream = Play!NoStream
    BY <1>4 DEF Play!StreamFile, PlayInv
  <2>. QED
    BY <1>0, <1>3, <2>1 DEF PlayInv
<1>5. ASSUME NEW asked, NEW container, NEW video, NEW encoded, NEW burned,
             Play!Streaming(asked, container, video, encoded, burned)
      PROVE  /\ UNCHANGED <<page, source, ask, reply>> /\ reply.url = asked /\ pc' = "streaming"
             /\ stream' = [container |-> container, video |-> video, audio |-> Play!Carried(encoded),
                           from |-> Play!Mapped(reply.aud), burned |-> burned]
             /\ RequestKnown' /\ ReplyKnown'
  <2>1. UNCHANGED <<page, source, ask, reply>> /\ pc = "replied"
    BY <1>5 DEF Play!Streaming
  <2>. QED
    BY <1>0, <1>3, <1>5, <2>1 DEF Play!Streaming
<1>6. CASE Play!StreamRemux
  <2>1. page = "title" /\ Play!Pictures(source) # {}
        /\ Play!Streaming("remux", "mp4", Play!MappedPicture, Play!Plan, 0)
    BY <1>6 DEF Play!StreamRemux
  <2>2. StreamKnown'
    BY <1>5, <2>1 DEF StreamKnown, Sent, Play!Carried, Play!Mapped, Play!MappedPicture, Play!Plan
  <2>. QED
    BY <1>5, <2>1, <2>2 DEF PlayInv
<1>7. CASE Play!StreamAudio
  <2>1. page = "book" /\ Play!Streaming("remux", "mp4", Play!None, Play!Plan, 0)
    BY <1>7 DEF Play!StreamAudio
  <2>2. StreamKnown'
    BY <1>5, <2>1 DEF StreamKnown, Sent, Play!Carried, Play!Mapped, Play!Plan
  <2>. QED
    BY <1>5, <2>1, <2>2 DEF PlayInv
<1>8. CASE Play!StreamBurnIn
  <2>1. reply.sub \in DOMAIN Play!Known(source).subs /\ Play!Streaming("burnin", "mp4", "h264", TRUE, reply.sub)
    BY <1>8 DEF Play!StreamBurnIn
  <2>2. StreamKnown'
    BY <1>5, <2>1 DEF StreamKnown, Sent, Play!Carried, Play!Mapped
  <2>. QED
    BY <1>5, <2>1, <2>2 DEF PlayInv
<1>9. CASE Play!StreamSegments
  <2>1. Play!Streaming("hls", "ts", "h264", TRUE, 0)
    BY <1>9 DEF Play!StreamSegments
  <2>2. StreamKnown'
    BY <1>5, <2>1 DEF StreamKnown, Sent, Play!Carried, Play!Mapped
  <2>. QED
    BY <1>5, <2>1, <2>2 DEF PlayInv
<1>10. CASE UNCHANGED Play!vars
  BY <1>10 DEF Play!vars, PlayInv, RequestKnown, ReplyKnown, TitleReply, BookReply, StreamKnown, Sent,
               Play!Carried, Play!Mapped, Play!MappedPicture, Play!Plan
<1>. QED
  BY <1>1, <1>2, <1>4, <1>6, <1>7, <1>8, <1>9, <1>10 DEF Play!Next

LEMMA FirstOrdinal ==
  ASSUME NEW S, S \subseteq Nat \ {0}
  PROVE  /\ S = {} => Play!First(S) = 0
         /\ S # {} => Play!First(S) \in S /\ Play!First(S) # 0 /\ \A n \in S : Play!First(S) <= n
<1>1. CASE S = {}
  BY <1>1 DEF Play!First
<1>2. CASE S # {}
  <2>1. \E n \in S : \A m \in S : n <= m
    BY <1>2, Least
  <2>. QED
    BY <1>2, <2>1 DEF Play!First
<1>. QED
  BY <1>1, <1>2

(* Both name a track that exists, and none prefers one to the default. *)
LEMMA PrefersSome ==
  ASSUME NEW S, S \subseteq Nat \ {0}, NEW T, T \subseteq S
  PROVE  /\ Play!OrFirst(Play!First(T), S) \in S \cup {0}
         /\ Play!OrFirst(Play!First(T), S) = 0 <=> S = {}
         /\ T # {} => Play!OrFirst(Play!First(T), S) = Play!First(T)
         /\ T = {} => Play!OrFirst(Play!First(T), S) = Play!First(S)
BY FirstOrdinal DEF Play!OrFirst

(* What the row tells of a source. *)
LEMMA KnownSource ==
  ASSUME Playable, RequestKnown
  PROVE  /\ source \in Sources /\ ask.aud \in Nat /\ ask.sub \in Int
         /\ source.probed => Play!Known(source) = source
         /\ ~source.probed => /\ DOMAIN Play!Known(source).audio = {} /\ Play!Pictures(Play!Known(source)) = {}
                              /\ DOMAIN Play!Known(source).subs = {}
         /\ ask.aud # 0 => ask.aud \in DOMAIN Play!Known(source).audio /\ source.probed
         /\ ask.sub > 0 => ask.sub \in DOMAIN Play!Known(source).subs /\ source.probed
         /\ \A n \in DOMAIN source.audio : n \in Nat \ {0} /\ 1 \in DOMAIN source.audio
         /\ DOMAIN source.subs \subseteq Nat \ {0} /\ DOMAIN source.videos \subseteq Nat \ {0}
<1>1. source \in Sources /\ ask.aud \in Nat /\ ask.sub \in Int
  BY DEF Playable, RequestKnown
<1>2. /\ source.audio \in Seq([codec : STRING, default : BOOLEAN, lang : STRING])
      /\ source.subs \in Seq([text : BOOLEAN, default : BOOLEAN, lang : STRING])
      /\ source.videos \in Seq([codec : STRING, px : Nat, pic : BOOLEAN]) /\ source.probed \in BOOLEAN
  BY <1>1 DEF Sources
<1>3. /\ DOMAIN source.audio = 1 .. Len(source.audio) /\ DOMAIN source.subs = 1 .. Len(source.subs)
      /\ DOMAIN source.videos = 1 .. Len(source.videos)
      /\ Len(source.audio) \in Nat /\ Len(source.subs) \in Nat /\ Len(source.videos) \in Nat
  BY <1>2
<1>4. source.probed => Play!Known(source) = source
  BY DEF Play!Known
<1>5. ASSUME ~source.probed
      PROVE  /\ Play!Known(source).audio = <<>> /\ Play!Known(source).subs = <<>>
             /\ Play!Known(source).videos = <<>>
  <2>1. Play!Known(source) = [source EXCEPT !.videos = <<>>, !.audio = <<>>, !.subs = <<>>, !.big = FALSE]
    BY <1>5 DEF Play!Known, Play!Blind
  <2>. QED
    BY <1>1, <2>1 DEF Sources
<1>6. /\ ask.aud \in 0 .. Len(Play!Known(source).audio)
      /\ ask.sub \in -1 .. Len(Play!Known(source).subs)
  BY DEF RequestKnown
<1>7. CASE source.probed
  BY <1>1, <1>3, <1>4, <1>6, <1>7
<1>8. CASE ~source.probed
  <2>1. /\ DOMAIN Play!Known(source).audio = {} /\ Play!Pictures(Play!Known(source)) = {}
        /\ DOMAIN Play!Known(source).subs = {} /\ Len(Play!Known(source).audio) = 0
        /\ Len(Play!Known(source).subs) = 0
    BY <1>5, <1>8 DEF Play!Pictures
  <2>. QED
    BY <1>1, <1>3, <1>6, <1>8, <2>1
<1>. QED
  BY <1>2, <1>7, <1>8

(* What a session asks for by its ordinal exists, and is the default when  *)
(* that is not the first.                                                  *)
Prefers == Play!OrFirst(Play!DefaultOf(source.audio), DOMAIN source.audio)
LEMMA DefaultTrack ==
  ASSUME Playable, RequestKnown
  PROVE  /\ Play!DefaultOf(source.audio) \in DOMAIN source.audio \cup {0}
         /\ Prefers \in DOMAIN source.audio \cup {0}
         /\ Prefers = 0 <=> DOMAIN source.audio = {}
         /\ Play!DefaultOf(source.audio) # 0 => Prefers = Play!DefaultOf(source.audio)
         /\ Play!DefaultOf(source.audio) = 0 /\ DOMAIN source.audio # {} => Prefers = 1
         /\ Play!Judged(source, 0) = Prefers
<1>. DEFINE S == DOMAIN source.audio
            T == {n \in S : source.audio[n].default}
<1>1. S \subseteq Nat \ {0} /\ (S # {} => 1 \in S) /\ T \subseteq S
  BY KnownSource
<1>2. Play!DefaultOf(source.audio) = Play!First(T)
  BY DEF Play!DefaultOf
<1>3. /\ T = {} => Play!First(T) = 0
      /\ T # {} => Play!First(T) \in T /\ Play!First(T) # 0
  BY <1>1, FirstOrdinal
<1>4. S # {} => Play!First(S) = 1
  <2>. SUFFICES ASSUME S # {} PROVE Play!First(S) = 1
    OBVIOUS
  <2>1. Play!First(S) \in S /\ \A n \in S : Play!First(S) <= n
    BY <1>1, FirstOrdinal
  <2>. QED
    BY <1>1, <2>1
<1>5. /\ Prefers \in S \cup {0} /\ (Prefers = 0 <=> S = {})
      /\ T # {} => Prefers = Play!First(T)
      /\ T = {} => Prefers = Play!First(S)
  BY <1>1, <1>2, PrefersSome DEF Prefers
<1>6. Play!Judged(source, 0) = Prefers
  BY <1>1 DEF Play!Judged, Prefers
<1>. QED
  BY <1>2, <1>3, <1>4, <1>5, <1>6

(* The track of the decision is the track ffmpeg takes. *)
LEMMA SoundIsJudged ==
  ASSUME Playable, PlayInv, pc # "asked", source.probed, page = "book" => Prefers < 2 \/ ask.aud # 0
  PROVE  /\ Play!Mapped(reply.aud) = Play!Judged(source, reply.aud)
         /\ reply.audio = Play!CodecOf(source, Play!Mapped(reply.aud))
         /\ ask.aud # 0 => Play!Mapped(reply.aud) = ask.aud
         /\ ask.aud = 0 /\ ask.lang = Play!None => Play!Mapped(reply.aud) = Prefers
<1>r. RequestKnown /\ ReplyKnown
  BY DEF PlayInv
<1>k. /\ Play!Known(source) = source /\ ask.aud \in Nat
      /\ ask.aud # 0 => ask.aud \in DOMAIN source.audio
      /\ \A n \in DOMAIN source.audio : n \in Nat \ {0} /\ 1 \in DOMAIN source.audio
  BY <1>r, KnownSource
<1>d. /\ Play!DefaultOf(source.audio) \in DOMAIN source.audio \cup {0}
      /\ Prefers \in DOMAIN source.audio \cup {0}
      /\ Prefers = 0 <=> DOMAIN source.audio = {}
      /\ Play!DefaultOf(source.audio) # 0 => Prefers = Play!DefaultOf(source.audio)
      /\ Play!DefaultOf(source.audio) = 0 /\ DOMAIN source.audio # {} => Prefers = 1
      /\ Play!Judged(source, 0) = Prefers
  BY <1>r, DefaultTrack
<1>1. /\ page = "title" => reply.aud = Play!Pinned(source, ask)
      /\ page = "book" => reply.aud = ask.aud
      /\ reply.audio = Play!CodecOf(source, Play!Judged(source, reply.aud))
      /\ page \in {"title", "book"}
  <2>1. page \in {"title", "book"} /\ (page = "title" => reply = TitleReply) /\ (page = "book" => reply = BookReply)
    BY <1>r DEF ReplyKnown, RequestKnown
  <2>2. /\ TitleReply.aud = Play!Pinned(source, ask)
        /\ TitleReply.audio = Play!CodecOf(source, Play!Judged(source, TitleReply.aud))
    BY <1>k DEF TitleReply, Play!FromProbe
  <2>3. /\ BookReply.aud = ask.aud
        /\ BookReply.audio = Play!CodecOf(source, Play!Judged(source, BookReply.aud))
    BY <1>k DEF BookReply, Play!FromProbe
  <2>. QED
    BY <2>1, <2>2, <2>3
<1>2. ASSUME reply.aud \in DOMAIN source.audio
      PROVE  Play!Mapped(reply.aud) = reply.aud /\ Play!Judged(source, reply.aud) = reply.aud
  BY <1>k, <1>2 DEF Play!Mapped, Play!Judged
<1>3. ASSUME reply.aud = 0, Prefers < 2
      PROVE  Play!Mapped(reply.aud) = Prefers /\ Play!Judged(source, reply.aud) = Prefers
  <2>1. Play!Judged(source, reply.aud) = Prefers
    BY <1>3, <1>d
  <2>2. CASE DOMAIN source.audio = {}
    BY <1>3, <1>d, <2>1, <2>2 DEF Play!Mapped
  <2>3. CASE DOMAIN source.audio # {}
    <3>1. Prefers = 1 /\ 1 \in DOMAIN source.audio
      BY <1>3, <1>d, <1>k, <2>3
    <3>. QED
      BY <1>3, <2>1, <3>1 DEF Play!Mapped
  <2>. QED
    BY <2>2, <2>3
<1>4. CASE ask.aud # 0
  <2>1. reply.aud = ask.aud
    BY <1>1, <1>4 DEF Play!Pinned
  <2>. QED
    BY <1>1, <1>2, <1>4, <1>k, <2>1
<1>5. CASE ask.aud = 0 /\ page = "book"
  BY <1>1, <1>3, <1>5
<1>6. CASE ask.aud = 0 /\ page = "title" /\ ask.lang # Play!None /\ Play!Speaks(source.audio, ask.lang) # {}
  <2>. DEFINE S == Play!Speaks(source.audio, ask.lang)
              T == {n \in S : source.audio[n].default}
  <2>1. reply.aud = Play!OrFirst(Play!First(T), S)
    BY <1>1, <1>6 DEF Play!Pinned, Play!Preferred
  <2>2. S \subseteq DOMAIN source.audio /\ S \subseteq Nat \ {0} /\ S # {} /\ T \subseteq S
    BY <1>6, <1>k DEF Play!Speaks
  <2>. HIDE DEF S, T
  <2>3. reply.aud \in S
    BY <2>1, <2>2, PrefersSome
  <2>. QED
    BY <1>1, <1>2, <1>6, <2>2, <2>3
<1>7. CASE ask.aud = 0 /\ page = "title" /\ ~(ask.lang # Play!None /\ Play!Speaks(source.audio, ask.lang) # {})
  <2>1. reply.aud = IF Play!DefaultOf(source.audio) > 1 THEN Play!DefaultOf(source.audio) ELSE 0
    BY <1>1, <1>7 DEF Play!Pinned
  <2>2. CASE Play!DefaultOf(source.audio) > 1
    <3>1. reply.aud \in DOMAIN source.audio /\ reply.aud = Prefers
      BY <1>d, <2>1, <2>2
    <3>. QED
      BY <1>1, <1>2, <1>7, <3>1
  <2>3. CASE ~(Play!DefaultOf(source.audio) > 1)
    <3>1. reply.aud = 0 /\ Prefers < 2
      BY <1>d, <1>k, <2>1, <2>3
    <3>. QED
      BY <1>1, <1>3, <1>7, <3>1
  <2>. QED
    BY <2>2, <2>3
<1>. QED
  BY <1>1, <1>4, <1>5, <1>6, <1>7

(* A client decodes what is remuxed for it. *)
LEMMA Decodes ==
  ASSUME NEW hint, NEW ua, NEW m, NEW p, p = Play!Profile(hint, ua)
  PROVE  /\ Play!None \notin p["mp4"].video
         /\ "aac" \in p["mp4"].audio /\ "aac" \in Play!Copyable
         /\ \A q \in {Play!Chrome, Play!Safari} : q["mp4"].audio \cap Play!Copyable = {"aac"}
         /\ p \in {Play!Chrome, Play!Safari}
         /\ Play!Chosen(p, m) \in {Play!DirectPlay, Play!DirectStream, Play!Transcode}
BY DEF Play!Profile, Play!Chrome, Play!Safari, Play!None, Play!Copyable, Play!Chosen

LEMMA SoundDecodes ==
  ASSUME Playable, RequestKnown, source.probed,
         Play!Mapped(reply.aud) = Play!Judged(source, reply.aud), Play!Carried(Play!Plan) # Play!None
  PROVE  Play!Carried(Play!Plan) = "aac"
<1>. DEFINE n == Play!Mapped(reply.aud)
            p == Play!Profile(Play!None, ask.ua)
            audio == Play!CodecOf(source, n)
<1>1. Play!Plan = Play!MustEncode(p, audio)
  BY KnownSource DEF Play!Plan, Play!FromProbe
<1>2. n = 0 \/ n \in DOMAIN source.audio
  BY DEF Play!Mapped
<1>3. n # 0 /\ Play!Carried(Play!Plan) = IF Play!Plan THEN "aac" ELSE source.audio[n].codec
  BY DEF Play!Carried
<1>4. audio = source.audio[n].codec
  BY <1>2, <1>3 DEF Play!CodecOf
<1>5. CASE ~Play!Plan
  <2>1. audio # Play!None
    BY <1>3, <1>4, <1>5
  <2>2. audio \in p["mp4"].audio \cap Play!Copyable
    BY <1>1, <1>5, <2>1 DEF Play!MustEncode, Play!RemuxTarget
  <2>3. audio = "aac"
    BY <2>2, Decodes
  <2>. QED
    BY <1>3, <1>4, <1>5, <2>3
<1>. QED
  BY <1>3, <1>5

(* What is in the picture and beside it. *)
LEMMA AutoSubtitle ==
  ASSUME Playable, RequestKnown
  PROVE  LET s == Play!Known(source)
             auto == Play!AutoSub(s, ask)
         IN  auto # 0 => ask.sub = 0 /\ auto \in DOMAIN s.subs /\ s.subs[auto].text
<1>. DEFINE s == Play!Known(source)
            texts == {n \in DOMAIN s.subs : /\ s.subs[n].text
                                            /\ ask.lang = Play!None \/ s.subs[n].lang = ask.lang}
            T == {n \in texts : s.subs[n].default}
<1>1. Play!AutoSub(s, ask) = IF ask.sub = 0 /\ ask.subsOn THEN Play!OrFirst(Play!First(T), texts) ELSE 0
  BY DEF Play!AutoSub, Play!Preferred
<1>2. texts \subseteq Nat \ {0} /\ T \subseteq texts
  BY KnownSource
<1>3. Play!OrFirst(Play!First(T), texts) \in texts \cup {0}
  BY <1>2, PrefersSome
<1>. QED
  BY <1>1, <1>3

LEMMA TitleSubtitles ==
  ASSUME Playable, PlayInv, page = "title", pc # "asked", ask.mode = "auto", StreamKnown
  PROVE  /\ ask.sub > 0 => reply.sidecar # (stream.burned = ask.sub)
         /\ ask.sub < 0 => stream.burned = 0 /\ ~reply.sidecar
         /\ reply.auto => stream.burned = 0 /\ reply.sidecar
<1>. DEFINE s == Play!Known(source)
            auto == Play!AutoSub(s, ask)
            sub == IF ask.sub > 0 THEN ask.sub ELSE auto
            m == Play!FromProbe(s, Play!Pinned(s, ask), sub)
            outcome == Play!Decide(Play!Profile(ask.hint, ask.ua), m, ask.mode)
<1>r. RequestKnown /\ ReplyKnown
  BY DEF PlayInv
<1>1. reply = TitleReply
  BY <1>r DEF ReplyKnown
<1>2. /\ reply.sub = sub /\ reply.sidecar = outcome.sidecar /\ reply.auto = (auto # 0)
      /\ reply.url = Play!URL(outcome.decision, outcome.burn)
  BY <1>1 DEF TitleReply
<1>3. /\ m.sub <=> sub \in DOMAIN s.subs
      /\ m.text <=> sub \in DOMAIN s.subs /\ s.subs[sub].text
  BY DEF Play!FromProbe
<1>4. /\ outcome.sidecar <=> m.sub /\ m.text
      /\ outcome.burn <=> m.sub /\ ~m.text
  BY DEF Play!Decide
<1>5. reply.url = "burnin" <=> outcome.burn
  BY <1>2 DEF Play!URL, Play!DirectPlay, Play!DirectStream
<1>6. /\ ask.sub \in Int /\ (ask.sub > 0 => ask.sub \in DOMAIN s.subs)
      /\ DOMAIN s.subs \subseteq Nat \ {0}
  BY <1>r, KnownSource
<1>7. auto # 0 => ask.sub = 0 /\ auto \in DOMAIN s.subs /\ s.subs[auto].text
  BY <1>r, AutoSubtitle
<1>8. /\ reply.url = "burnin" => stream.burned = reply.sub
      /\ reply.url # "burnin" => stream.burned = 0
  <2>1. ASSUME NEW container, NEW video, NEW encoded, NEW burned, Sent(container, video, encoded, burned)
        PROVE  stream.burned = burned
    BY <2>1 DEF Sent
  <2>2. CASE reply.url = "burnin"
    <3>1. Sent("mp4", "h264", TRUE, reply.sub)
      BY <2>2 DEF StreamKnown
    <3>. QED
      BY <2>1, <2>2, <3>1
  <2>3. CASE reply.url # "burnin"
    <3>1. \/ Sent("mp4", Play!MappedPicture, Play!Plan, 0) \/ Sent("mp4", Play!None, Play!Plan, 0)
          \/ Sent("ts", "h264", TRUE, 0)
      BY <2>3 DEF StreamKnown
    <3>. QED
      BY <2>1, <2>3, <3>1
  <2>. QED
    BY <2>2, <2>3
<1>. HIDE DEF s, auto, outcome, m
<1>9. ASSUME ask.sub > 0 PROVE reply.sidecar # (stream.burned = ask.sub)
  <2>1. sub = ask.sub /\ sub # 0 /\ sub \in DOMAIN s.subs
    BY <1>6, <1>9
  <2>2. CASE s.subs[sub].text
    BY <1>2, <1>3, <1>4, <1>5, <1>8, <2>1, <2>2
  <2>3. CASE ~s.subs[sub].text
    BY <1>2, <1>3, <1>4, <1>5, <1>8, <2>1, <2>3
  <2>. QED
    BY <2>2, <2>3
<1>10. ASSUME ask.sub < 0 PROVE stream.burned = 0 /\ ~reply.sidecar
  <2>1. sub = 0 /\ sub \notin DOMAIN s.subs
    BY <1>6, <1>7, <1>10
  <2>. QED
    BY <1>2, <1>3, <1>4, <1>5, <1>8, <2>1
<1>11. ASSUME reply.auto PROVE stream.burned = 0 /\ reply.sidecar
  <2>1. sub = auto /\ sub \in DOMAIN s.subs /\ s.subs[sub].text
    BY <1>2, <1>6, <1>7, <1>11
  <2>. QED
    BY <1>2, <1>3, <1>4, <1>5, <1>8, <2>1
<1>. QED
  BY <1>9, <1>10, <1>11

(* What was decided by itself, and what then is sent as one file. *)
LEMMA RemuxDecodes ==
  ASSUME Playable, PlayInv, pc # "asked", ask.mode = "auto", reply.url = "remux",
         Play!Mapped(reply.aud) = Play!Judged(source, reply.aud), source.probed,
         \/ /\ page = "title" /\ Play!Pictures(source) # {}
            /\ Sent("mp4", Play!MappedPicture, Play!Plan, 0)
         \/ page = "book" /\ Sent("mp4", Play!None, Play!Plan, 0)
  PROVE  LET p == Play!Profile(ask.hint, ask.ua)
         IN  /\ stream.video \in {Play!None, Play!Picture(source)} =>
                    stream.video \in {Play!None} \cup p["mp4"].video
             /\ stream.audio # Play!None => stream.audio \in p["mp4"].audio \cap Play!Copyable
<1>. DEFINE p == Play!Profile(ask.hint, ask.ua)
<1>r. RequestKnown /\ ReplyKnown
  BY DEF PlayInv
<1>1. stream.audio = Play!Carried(Play!Plan)
  BY DEF Sent
<1>2. stream.audio # Play!None => stream.audio \in p["mp4"].audio \cap Play!Copyable
  BY <1>1, <1>r, SoundDecodes, Decodes
<1>3. CASE page = "book"
  <2>1. stream.video = Play!None
    BY <1>3 DEF Sent
  <2>. QED
    BY <1>2, <2>1
<1>4. CASE page = "title"
  <2>. DEFINE s == Play!Known(source)
              auto == Play!AutoSub(s, ask)
              sub == IF ask.sub > 0 THEN ask.sub ELSE auto
              m == Play!FromProbe(s, Play!Pinned(s, ask), sub)
              outcome == Play!Decide(p, m, ask.mode)
  <2>1. reply.url = Play!URL(outcome.decision, outcome.burn)
    BY <1>4, <1>r DEF ReplyKnown, TitleReply
  <2>2. outcome.decision = Play!Chosen(p, m)
    BY DEF Play!Decide
  <2>3. Play!Chosen(p, m) = Play!DirectStream
    BY <2>1, <2>2, Decodes DEF Play!URL, Play!DirectPlay, Play!DirectStream, Play!Transcode
  <2>4. m.video \in p["mp4"].video \/ m.video = Play!None
    BY <2>3 DEF Play!Chosen, Play!DirectPlay, Play!DirectStream, Play!Transcode, Play!RemuxTarget
  <2>5. s = source /\ source \in Films
    BY <1>4, <1>r, KnownSource DEF RequestKnown
  <2>6. m.video = Play!Picture(source)
    BY <2>5 DEF Play!FromProbe
  <2>. QED
    BY <1>2, <2>4, <2>6
<1>. QED
  BY <1>3, <1>4, <1>r DEF RequestKnown

(* A title that was never probed is not sent as it is, nor remuxed. *)
LEMMA BlindIsEncoded ==
  ASSUME Playable, PlayInv, pc # "asked", ask.mode = "auto", page = "title", ~source.probed
  PROVE  reply.url = "hls"
<1>. DEFINE p == Play!Profile(ask.hint, ask.ua)
            s == Play!Known(source)
            auto == Play!AutoSub(s, ask)
            sub == IF ask.sub > 0 THEN ask.sub ELSE auto
            m == Play!FromProbe(s, Play!Pinned(s, ask), sub)
            outcome == Play!Decide(p, m, ask.mode)
<1>r. RequestKnown /\ ReplyKnown
  BY DEF PlayInv
<1>1. reply.url = Play!URL(outcome.decision, outcome.burn)
  BY <1>r DEF ReplyKnown, TitleReply
<1>2. DOMAIN s.audio = {} /\ Play!Pictures(s) = {} /\ DOMAIN s.subs = {}
  BY <1>r, KnownSource
<1>3. m.video = Play!None
  <2>1. {n \in Play!Pictures(s) : \A k \in Play!Pictures(s) : s.videos[k].px <= s.videos[n].px} = {}
    BY <1>2
  <2>2. Play!First({}) = 0
    BY FirstOrdinal
  <2>. QED
    BY <2>1, <2>2 DEF Play!FromProbe, Play!Picture
<1>4. m.audio = Play!None /\ ~m.sub
  BY <1>2 DEF Play!FromProbe, Play!CodecOf
<1>5. \A c \in DOMAIN p : Play!None \notin p[c].video
  BY DEF Play!Profile, Play!Chrome, Play!Safari, Play!None
<1>6. "mp4" \in DOMAIN p
  BY DEF Play!Profile, Play!Chrome, Play!Safari
<1>7. outcome.decision = Play!Chosen(p, m) /\ ~outcome.burn
  BY <1>4 DEF Play!Decide
<1>8. ~Play!Suits(p, m)
  BY <1>3, <1>4, <1>5 DEF Play!Suits
<1>9. Play!Chosen(p, m) = Play!Transcode
  BY <1>3, <1>4, <1>5, <1>6, <1>8 DEF Play!Chosen, Play!RemuxTarget
<1>. QED
  BY <1>1, <1>7, <1>9 DEF Play!URL, Play!DirectPlay, Play!DirectStream, Play!Transcode

LEMMA StreamKeeps ==
  ASSUME Playable, PlayInv
  PROVE  Play!StreamKeepsDecision
<1>. SUFFICES ASSUME ask.mode = "auto", stream # Play!NoStream,
                     page = "book" => source.probed /\ (Prefers < 2 \/ ask.aud # 0)
              PROVE  LET p == Play!Profile(ask.hint, ask.ua)
                     IN  /\ stream.container = "mp4" /\ stream.burned = 0 =>
                               /\ stream.video \in {Play!None, Play!Picture(source)} =>
                                      stream.video \in {Play!None} \cup p["mp4"].video
                               /\ stream.audio # Play!None => stream.audio \in p["mp4"].audio \cap Play!Copyable
                         /\ source.probed => /\ stream.from = Play!Judged(source, reply.aud)
                                             /\ reply.audio = Play!CodecOf(source, stream.from)
                         /\ ask.aud # 0 => stream.from = ask.aud
                         /\ (source.probed /\ ask.aud = 0 /\ ask.lang = Play!None) => stream.from = Prefers
                         /\ ask.sub > 0 => reply.sidecar # (stream.burned = ask.sub)
                         /\ ask.sub < 0 => stream.burned = 0 /\ ~reply.sidecar
                         /\ reply.auto => stream.burned = 0 /\ reply.sidecar
  BY DEF Play!StreamKeepsDecision, Prefers
<1>r. RequestKnown /\ ReplyKnown /\ StreamKnown /\ pc # "asked"
  BY DEF PlayInv
<1>0. ASSUME NEW container, NEW video, NEW encoded, NEW burned, Sent(container, video, encoded, burned)
      PROVE  stream.from = Play!Mapped(reply.aud) /\ stream.container = container
  BY <1>0 DEF Sent
<1>1. stream.from = Play!Mapped(reply.aud)
  <2>1. \/ Sent("mp4", Play!MappedPicture, Play!Plan, 0) \/ Sent("mp4", Play!None, Play!Plan, 0)
        \/ Sent("mp4", "h264", TRUE, reply.sub) \/ Sent("ts", "h264", TRUE, 0)
    BY <1>r DEF StreamKnown
  <2>. QED
    BY <1>0, <2>1
<1>2. source.probed =>
         /\ Play!Mapped(reply.aud) = Play!Judged(source, reply.aud)
         /\ reply.audio = Play!CodecOf(source, Play!Mapped(reply.aud))
         /\ ask.aud # 0 => Play!Mapped(reply.aud) = ask.aud
         /\ ask.aud = 0 /\ ask.lang = Play!None => Play!Mapped(reply.aud) = Prefers
  BY <1>r, SoundIsJudged
<1>3. ask.aud # 0 => source.probed
  BY <1>r, KnownSource
<1>4. ASSUME stream.container = "mp4", stream.burned = 0
      PROVE  /\ reply.url = "remux" /\ source.probed
             /\ \/ /\ page = "title" /\ Play!Pictures(source) # {}
                   /\ Sent("mp4", Play!MappedPicture, Play!Plan, 0)
                \/ page = "book" /\ Sent("mp4", Play!None, Play!Plan, 0)
  <2>1. reply.url # "hls"
    <3>. SUFFICES ASSUME reply.url = "hls" PROVE FALSE
      OBVIOUS
    <3>1. Sent("ts", "h264", TRUE, 0)
      BY <1>r DEF StreamKnown
    <3>2. stream.container = "ts"
      BY <1>0, <3>1
    <3>. QED
      BY <1>4, <3>2
  <2>2. source.probed
    BY <1>r, <2>1, BlindIsEncoded DEF RequestKnown
  <2>3. reply.url # "burnin"
    <3>. SUFFICES ASSUME reply.url = "burnin" PROVE FALSE
      OBVIOUS
    <3>1. reply.sub \in DOMAIN Play!Known(source).subs /\ Sent("mp4", "h264", TRUE, reply.sub)
      BY <1>r DEF StreamKnown
    <3>2. reply.sub \in Nat \ {0}
      BY <1>r, <2>2, <3>1, KnownSource
    <3>3. stream.burned = reply.sub
      BY <3>1 DEF Sent
    <3>. QED
      BY <1>4, <3>2, <3>3
  <2>. QED
    BY <1>r, <2>1, <2>2, <2>3 DEF StreamKnown
<1>5. stream.container = "mp4" /\ stream.burned = 0 =>
         LET p == Play!Profile(ask.hint, ask.ua)
         IN  /\ stream.video \in {Play!None, Play!Picture(source)} =>
                    stream.video \in {Play!None} \cup p["mp4"].video
             /\ stream.audio # Play!None => stream.audio \in p["mp4"].audio \cap Play!Copyable
  BY <1>r, <1>2, <1>4, RemuxDecodes
<1>6. /\ ask.sub > 0 => reply.sidecar # (stream.burned = ask.sub)
      /\ ask.sub < 0 => stream.burned = 0 /\ ~reply.sidecar
      /\ reply.auto => stream.burned = 0 /\ reply.sidecar
  <2>1. CASE page = "title"
    BY <1>r, <2>1, TitleSubtitles
  <2>2. CASE page = "book"
    <3>1. ask.sub = 0 /\ ~reply.auto
      BY <1>r, <2>2 DEF RequestKnown, ReplyKnown, BookReply
    <3>. QED
      BY <3>1
  <2>. QED
    BY <1>r, <2>1, <2>2 DEF RequestKnown
<1>. QED
  BY <1>1, <1>2, <1>3, <1>5, <1>6

LEMMA PlayTurn ==
  ASSUME [Next]_vars, part' = "play" PROVE part = "play" /\ [Play!Next]_(Play!vars)
<1>1. CASE Next
  BY <1>1 DEF Next, Turn
<1>2. CASE UNCHANGED vars
  BY <1>2 DEF vars, sharedVars, playVars, Play!vars
<1>. QED
  BY <1>1, <1>2

(* What is streamed is what was decided, for any sources and requests: the *)
(* client can play the sound it is sent, and the picture when it is the    *)
(* one judged, the sound is of the track that was judged and named, and a  *)
(* subtitle is beside the stream or in the picture (internal/playback,     *)
(* internal/video/ffmpeg.go, web/handlers_stream_tv.go).                   *)
THEOREM StreamsKeepDecisions ==
  ASSUME Playable
  PROVE  Spec => []StreamKeepsDecision
<1>1. Play!Init => PlayInv
  BY DEF Play!Init, PlayInv, RequestKnown, ReplyKnown
<1>. DEFINE Inv == part = "play" => PlayInv
<1>2. Init => Inv
  BY <1>1 DEF Init, Begun
<1>3. Inv /\ [Next]_vars => Inv'
  <2>1. ASSUME [Next]_vars, part' = "play" PROVE part = "play" /\ [Play!Next]_(Play!vars)
    BY <2>1, PlayTurn
  <2>. QED
    BY <2>1, PlayStep
<1>4. Inv => StreamKeepsDecision
  BY StreamKeeps DEF StreamKeepsDecision
<1>. QED
  BY <1>2, <1>3, <1>4, PTL DEF Spec

-----------------------------------------------------------------------------
LEMMA SizeOfRows == \A S : Queue!Cardinality(S) = Cardinality(S)
BY DEF Queue!Cardinality, Cardinality

(* How many come before an element tells where it stands. *)
UpTo(S, i) == {j \in S : j <= i}
LEMMA PlacesAreRanks ==
  ASSUME NEW S \in SUBSET Nat, IsFiniteSet(S)
  PROVE  /\ Cardinality(S) \in Nat
         /\ \A n \in 1 .. Cardinality(S) :
               Queue!Place(S, n) \in S /\ Cardinality(UpTo(S, Queue!Place(S, n))) = n
         /\ \A i \in S : Cardinality(UpTo(S, i)) \in 1 .. Cardinality(S)
         /\ \A i, j \in S : i < j => Cardinality(UpTo(S, i)) < Cardinality(UpTo(S, j))
<1>. DEFINE n == Cardinality(S)
            rank == [i \in S |-> Cardinality(UpTo(S, i))]
<1>1. n \in Nat
  BY FS_CardinalityType
<1>2. \A i \in S : UpTo(S, i) \in SUBSET S /\ IsFiniteSet(UpTo(S, i)) /\ i \in UpTo(S, i)
  BY FS_Subset DEF UpTo
<1>3. \A i \in S : Cardinality(UpTo(S, i)) \in Nat /\ Cardinality(UpTo(S, i)) <= n
  BY <1>2, FS_CardinalityType, FS_Subset
<1>4. ASSUME NEW i \in S, NEW j \in S, i < j
      PROVE  Cardinality(UpTo(S, i)) < Cardinality(UpTo(S, j))
  <2>0. S \subseteq Nat
    OBVIOUS
  <2>. HIDE DEF n, rank
  <2>01. i \in Nat /\ j \in Nat /\ i < j
    BY <1>4, <2>0
  <2>02. ASSUME NEW k \in UpTo(S, i) PROVE k \in UpTo(S, j)
    BY <2>0, <2>01 DEF UpTo
  <2>03. j \notin UpTo(S, i) /\ j \in UpTo(S, j)
    BY <2>01 DEF UpTo
  <2>1. UpTo(S, i) \in SUBSET UpTo(S, j) /\ j \notin UpTo(S, i) /\ j \in UpTo(S, j)
    BY <2>02, <2>03, Zenon
  <2>2. Cardinality(UpTo(S, i)) <= Cardinality(UpTo(S, j)) /\ Cardinality(UpTo(S, i)) # Cardinality(UpTo(S, j))
    BY <1>2, <2>1, FS_Subset
  <2>3. \A a, b \in Nat : a <= b /\ a # b => a < b
    OBVIOUS
  <2>. QED
    BY <1>3, <2>2, <2>3, Zenon
<1>5. \A i \in S : Cardinality(UpTo(S, i)) \in 1 .. n
  <2>1. \A i \in S : Cardinality(UpTo(S, i)) # 0
    BY <1>2, FS_EmptySet
  <2>. QED
    BY <1>1, <1>3, <2>1
<1>6. rank \in Injection(S, 1 .. n)
  <2>1. rank \in [S -> 1 .. n]
    BY <1>5
  <2>2. ASSUME NEW i \in S, NEW j \in S, rank[i] = rank[j] PROVE i = j
    <3>1. Cardinality(UpTo(S, i)) = Cardinality(UpTo(S, j)) /\ Cardinality(UpTo(S, i)) \in Nat
      BY <1>3, <2>2
    <3>2. \A a \in Nat : ~(a < a)
      OBVIOUS
    <3>3. ~(i < j) /\ ~(j < i)
      BY <1>4, <3>1, <3>2, Zenon
    <3>4. i \in Nat /\ j \in Nat
      OBVIOUS
    <3>. QED
      BY <3>3, <3>4
  <2>. QED
    BY <2>1, <2>2, Zenon DEF Injection, IsInjective
<1>7. rank \in Surjection(S, 1 .. n)
  <2>1. IsFiniteSet(1 .. n) /\ Cardinality(1 .. n) = n
    BY <1>1, FS_Interval
  <2>. QED
    BY <1>6, <2>1, FS_Injection
<1>8. \A m \in 1 .. n : \E i \in S : Cardinality(UpTo(S, i)) = m
  BY <1>7, Zenon DEF Surjection
<1>9. \A m \in 1 .. n : Queue!Place(S, m) \in S /\ Cardinality(UpTo(S, Queue!Place(S, m))) = m
  BY <1>8, SizeOfRows, Zenon DEF Queue!Place, UpTo
<1>. QED
  BY <1>1, <1>4, <1>5, <1>9

(* InOrder gives each element one place, the smaller first. *)
LEMMA OrderedRows ==
  ASSUME NEW S \in SUBSET Nat, IsFiniteSet(S)
  PROVE  LET s == Queue!InOrder(S) IN
         /\ s \in Seq(S) /\ Len(s) = Cardinality(S) /\ Len(s) \in Nat
         /\ \A m, n \in 1 .. Len(s) : m < n => s[m] < s[n]
         /\ \A i \in S : \E n \in 1 .. Len(s) : s[n] = i
<1>. DEFINE s == Queue!InOrder(S)
            N == Cardinality(S)
<1>1. N \in Nat
  BY PlacesAreRanks
<1>2. s = [n \in 1 .. N |-> Queue!Place(S, n)]
  BY SizeOfRows DEF Queue!InOrder
<1>3. s \in [1 .. N -> S]
  BY <1>2, PlacesAreRanks
<1>4. s \in Seq(S) /\ Len(s) = N
  BY <1>1, <1>3, SeqDef
<1>5. ASSUME NEW m \in 1 .. N, NEW n \in 1 .. N, m < n PROVE s[m] < s[n]
  <2>1. s[m] \in S /\ s[n] \in S /\ Cardinality(UpTo(S, s[m])) = m /\ Cardinality(UpTo(S, s[n])) = n
    BY <1>2, PlacesAreRanks
  <2>2. s[n] < s[m] => n < m
    <3>1. s[n] < s[m] => Cardinality(UpTo(S, s[n])) < Cardinality(UpTo(S, s[m]))
      BY <2>1, PlacesAreRanks, Zenon
    <3>. QED
      BY <2>1, <3>1
  <2>3. s[n] = s[m] => n = m
    BY <2>1
  <2>4. s[m] \in Nat /\ s[n] \in Nat
    BY <2>1
  <2>5. ~(n < m) /\ n # m
    BY <1>1, <1>5
  <2>. QED
    BY <2>2, <2>3, <2>4, <2>5
<1>6. ASSUME NEW i \in S PROVE \E n \in 1 .. N : s[n] = i
  <2>. DEFINE n == Cardinality(UpTo(S, i))
  <2>1. n \in 1 .. N
    BY PlacesAreRanks
  <2>2. s[n] \in S /\ Cardinality(UpTo(S, s[n])) = n
    BY <1>2, <2>1, PlacesAreRanks
  <2>0. ~(n < n)
    BY <2>1
  <2>. HIDE DEF n
  <2>3. ~(s[n] < i) /\ ~(i < s[n])
    <3>1. Cardinality(UpTo(S, i)) = n
      BY DEF n
    <3>. QED
      BY <2>0, <2>2, <3>1, PlacesAreRanks, Zenon
  <2>4. s[n] \in Nat /\ i \in Nat
    BY <2>2
  <2>. QED
    BY <2>1, <2>3, <2>4
<1>. QED
  BY <1>1, <1>4, <1>5, <1>6

(* The catalog, the playlist and what people ask.  A query of the web      *)
(* player names a track there is.                                          *)
CatalogKnown ==
    /\ Songs \in Seq([artist : Nat, album : Nat, song : STRING, pop : Nat])
    /\ Playlist \in Seq(1 .. Len(Songs))
    /\ Wishes \subseteq [verb : STRING, by : {"id", "name"}, id : Nat, numeric : Nat,
                         rows : Seq([id : Nat, exact : BOOLEAN, fits : BOOLEAN]),
                         shuffle : BOOLEAN, from : Nat]
    /\ \A w \in Wishes : w.verb = "radio" => w.id \in 1 .. Len(Songs)
    /\ {MixTarget, MixCap, MixSeedCap} \subseteq Nat \ {0}

LEMMA CatalogTypes ==
  ASSUME CatalogKnown
  PROVE  /\ Queue!Id = 1 .. Len(Songs) /\ Len(Songs) \in Nat /\ Queue!Id \subseteq Nat
         /\ IsFiniteSet(Queue!Id)
<1>1. Queue!Id = 1 .. Len(Songs) /\ Len(Songs) \in Nat
  BY LenProperties DEF CatalogKnown, Queue!Id
<1>2. Queue!Id \subseteq Nat
  BY <1>1
<1>3. IsFiniteSet(Queue!Id)
  BY <1>1, FS_Interval
<1>. QED
  BY <1>1, <1>2, <1>3

(* dedupeByTitle keeps one recording of each song it is given. *)
LEMMA OneRecordingEach ==
  ASSUME NEW Q \in SUBSET Nat, NEW s \in Seq(Q)
  PROVE  LET d == Queue!Deduped(s) IN
         /\ d \in Seq(Q) /\ Len(d) \in Nat /\ DOMAIN d = 1 .. Len(d)
         /\ \A m \in 1 .. Len(d) : \E k \in 1 .. Len(s) : d[m] = s[k]
         /\ \A m, n \in 1 .. Len(d) : Queue!SongOf(d[m]) = Queue!SongOf(d[n]) => m = n
         /\ \A k \in 1 .. Len(s) : \E m \in 1 .. Len(d) : Queue!SongOf(d[m]) = Queue!SongOf(s[k])
<1>. DEFINE F == Queue!Firsts(s)
            f == Queue!InOrder(F)
            N == Cardinality(F)
            d == Queue!Deduped(s)
<1>1. Len(s) \in Nat /\ DOMAIN s = 1 .. Len(s) /\ \A k \in 1 .. Len(s) : s[k] \in Q
  BY LenProperties, ElementOfSeq
<1>2. F = {k \in 1 .. Len(s) : \A m \in 1 .. k - 1 : Queue!SongOf(s[m]) # Queue!SongOf(s[k])}
  BY <1>1 DEF Queue!Firsts
<1>3. F \in SUBSET Nat /\ F \in SUBSET (1 .. Len(s)) /\ IsFiniteSet(F)
  <2>1. F \in SUBSET (1 .. Len(s)) /\ 1 .. Len(s) \in SUBSET Nat
    BY <1>1, <1>2
  <2>2. IsFiniteSet(1 .. Len(s))
    BY <1>1, FS_Interval
  <2>. QED
    BY <2>1, <2>2, FS_Subset
<1>4. /\ N \in Nat /\ f \in Seq(F) /\ Len(f) = N
      /\ \A m, n \in 1 .. N : m < n => f[m] < f[n]
      /\ \A i \in F : \E n \in 1 .. N : f[n] = i
  BY <1>3, OrderedRows
<1>5. d = [n \in 1 .. N |-> s[f[n]]]
  BY SizeOfRows DEF Queue!Deduped
<1>6. \A n \in 1 .. N : f[n] \in F
  BY <1>4, ElementOfSeq
<1>. HIDE DEF F, f, N, d
<1>7. \A n \in 1 .. N : d[n] = s[f[n]] /\ f[n] \in 1 .. Len(s) /\ s[f[n]] \in Q
  BY <1>1, <1>3, <1>5, <1>6
<1>8. d \in Seq(Q) /\ Len(d) = N
  <2>1. d \in [1 .. N -> Q]
    BY <1>5, <1>7
  <2>. QED
    BY <2>1, <1>4, SeqDef
<1>9. ASSUME NEW m \in 1 .. N, NEW n \in 1 .. N, m < n PROVE Queue!SongOf(d[m]) # Queue!SongOf(d[n])
  <2>1. f[m] \in 1 .. f[n] - 1 /\ f[n] \in F
    BY <1>1, <1>4, <1>6, <1>7, <1>9
  <2>. QED
    BY <1>2, <1>7, <2>1
<1>10. ASSUME NEW k \in 1 .. Len(s) PROVE \E m \in 1 .. N : Queue!SongOf(d[m]) = Queue!SongOf(s[k])
  <2>. DEFINE T == {j \in 1 .. Len(s) : Queue!SongOf(s[j]) = Queue!SongOf(s[k])}
  <2>1. T \subseteq Nat /\ T # {}
    OBVIOUS
  <2>2. PICK j \in T : \A i \in T : j <= i
    BY <2>1, Least
  <2>3. \A i \in 1 .. j - 1 : i \in 1 .. Len(s) /\ ~(j <= i)
    BY <1>1
  <2>4. \A i \in 1 .. j - 1 : Queue!SongOf(s[i]) # Queue!SongOf(s[j])
    BY <2>2, <2>3
  <2>5. j \in F /\ Queue!SongOf(s[j]) = Queue!SongOf(s[k])
    BY <1>2, <2>4
  <2>6. PICK m \in 1 .. N : f[m] = j
    BY <1>4, <2>5
  <2>. QED
    BY <1>7, <2>5, <2>6
<1>11. \A m, n \in 1 .. N : Queue!SongOf(d[m]) = Queue!SongOf(d[n]) => m = n
  <2>1. \A m, n \in 1 .. N : m < n \/ n < m \/ m = n
    BY <1>4
  <2>. QED
    BY <1>9, <2>1
<1>12. DOMAIN d = 1 .. N
  BY <1>5
<1>. QED
  BY <1>4, <1>7, <1>8, <1>10, <1>11, <1>12 DEF d

(* A shuffled order of a set names each of its elements. *)
LEMMA ShuffledRows ==
  ASSUME NEW S, IsFiniteSet(S), NEW p \in Queue!SetToSeqs(S)
  PROVE  /\ p \in Seq(S) /\ \A i \in S : \E k \in 1 .. Len(p) : p[k] = i
         /\ Len(p) = Cardinality(S) /\ \A j, k \in 1 .. Len(p) : p[j] = p[k] => j = k
<1>. DEFINE N == Cardinality(S)
<1>1. N \in Nat /\ IsFiniteSet(1 .. N) /\ Cardinality(1 .. N) = N
  BY FS_CardinalityType, FS_Interval
<1>2. p \in [1 .. N -> S] /\ \A i, j \in 1 .. N : i # j => p[i] # p[j]
  BY SizeOfRows DEF Queue!SetToSeqs
<1>3. p \in Seq(S) /\ Len(p) = N
  BY <1>1, <1>2, SeqDef
<1>. HIDE DEF N
<1>4. p \in Injection(1 .. N, S)
  BY <1>2, Zenon DEF Injection, IsInjective
<1>5. p \in Surjection(1 .. N, S)
  BY <1>1, <1>4, FS_Injection DEF N
<1>6. \A i \in S : \E k \in 1 .. N : p[k] = i
  BY <1>5, Zenon DEF Surjection
<1>. QED
  BY <1>2, <1>3, <1>6 DEF N

(* The player's own shuffle: the same entries, in any order. *)
Reordered(u, v) == \E p \in Queue!SetToSeqs(DOMAIN u) : v = [k \in DOMAIN u |-> u[p[k]]]

(* Each is there again, and how often one of them is among X stays as it was. *)
Permuted(Q, u, v) ==
    /\ v \in Seq(Q) /\ Len(v) = Len(u)
    /\ \E p \in [1 .. Len(u) -> 1 .. Len(u)] :
          /\ \A j, k \in 1 .. Len(u) : p[j] = p[k] => j = k
          /\ \A i \in 1 .. Len(u) : \E k \in 1 .. Len(u) : p[k] = i
          /\ \A k \in 1 .. Len(u) : v[k] = u[p[k]]
    /\ \A X : Cardinality({k \in DOMAIN v : v[k] \in X}) = Cardinality({k \in DOMAIN u : u[k] \in X})

LEMMA Reorders ==
  ASSUME NEW Q, NEW u \in Seq(Q), NEW v, Reordered(u, v) PROVE Permuted(Q, u, v)
<1>. DEFINE D == 1 .. Len(u)
<1>1. /\ Len(u) \in Nat /\ DOMAIN u = D /\ IsFiniteSet(D) /\ Cardinality(D) = Len(u)
      /\ \A k \in D : u[k] \in Q
  <2>1. Len(u) \in Nat /\ DOMAIN u = D
    BY LenProperties
  <2>3. \A k \in D : u[k] \in Q
    BY ElementOfSeq
  <2>2. IsFiniteSet(1 .. Len(u)) /\ Cardinality(1 .. Len(u)) = Len(u)
    BY <2>1, FS_Interval
  <2>. QED
    BY <2>1, <2>2, <2>3
<1>2. PICK p \in Queue!SetToSeqs(D) : v = [k \in D |-> u[p[k]]]
  BY <1>1 DEF Reordered
<1>3. /\ p \in Seq(D) /\ Len(p) = Len(u)
      /\ \A i \in D : \E k \in D : p[k] = i
      /\ \A j, k \in D : p[j] = p[k] => j = k
  <2>. HIDE DEF D
  <2>. p \in Queue!SetToSeqs(D) /\ IsFiniteSet(D)
    BY <1>1, <1>2
  <2>1. /\ p \in Seq(D) /\ Len(p) = Cardinality(D)
        /\ \A i \in D : \E k \in 1 .. Len(p) : p[k] = i
        /\ \A j, k \in 1 .. Len(p) : p[j] = p[k] => j = k
    BY ShuffledRows, Zenon
  <2>2. 1 .. Len(p) = D
    BY <1>1, <2>1 DEF D
  <2>. QED
    BY <1>1, <2>1, <2>2
<1>4. p \in [D -> D]
  BY <1>3, LenProperties, ElementOfSeq
<1>5. v \in Seq(Q) /\ Len(v) = Len(u) /\ DOMAIN v = D
  <2>1. v \in [D -> Q]
    BY <1>1, <1>2, <1>4
  <2>. QED
    BY <1>1, <2>1, SeqDef
<1>6. ASSUME NEW X
      PROVE  Cardinality({k \in D : v[k] \in X}) = Cardinality({k \in D : u[k] \in X})
  <2>. DEFINE A == {k \in D : v[k] \in X}
              B == {k \in D : u[k] \in X}
              f == [k \in A |-> p[k]]
  <2>1. \A k \in D : v[k] = u[p[k]] /\ p[k] \in D
    BY <1>2, <1>4
  <2>2. f \in [A -> B] /\ (\A j, k \in A : f[j] = f[k] => j = k)
        /\ \A i \in B : \E k \in A : f[k] = i
    BY <1>3, <2>1
  <2>3. IsFiniteSet(A)
    BY <1>1, FS_Subset
  <2>. HIDE DEF A, B, f
  <2>4. f \in Bijection(A, B)
    BY <2>2, Zenon DEF Bijection, Injection, IsInjective, Surjection
  <2>5. ExistsBijection(A, B)
    BY <2>4, Zenon DEF ExistsBijection
  <2>6. Cardinality(B) = Cardinality(A)
    BY <2>3, <2>5, FS_Bijection
  <2>. QED
    BY <2>6 DEF A, B
<1>7. \A k \in D : v[k] = u[p[k]]
  BY <1>2
<1>. HIDE DEF D
<1>8. \A X : Cardinality({k \in DOMAIN v : v[k] \in X}) = Cardinality({k \in DOMAIN u : u[k] \in X})
  BY <1>1, <1>5, <1>6
<1>. QED
  BY <1>3, <1>4, <1>5, <1>7, <1>8 DEF D, Permuted

-----------------------------------------------------------------------------
(* What the query of a person is, what a queue built of it holds, and what *)
(* a mix holds while it is drawn: no song of the pool is in it, and nobody *)
(* is above the cap.                                                       *)
AskedOf(q) ==
    \/ /\ ask.verb \in Queue!Sources
       /\ q = [source |-> Queue!SourceOf(ask.verb), id |-> Queue!Resolved(ask), shuffle |-> ask.shuffle]
    \/ ask.verb = "radio" /\ q = [source |-> "radio", id |-> ask.id, shuffle |-> FALSE]
BuiltOf(q, u) ==
    /\ Queue!Exists(q)
    /\ IF q.shuffle /\ q.source \in Queue!Sweeps
       THEN \E p \in Queue!SetToSeqs(Queue!ToSet(Queue!Rows(q))) : u = Queue!Deduped(p)
       ELSE u = Queue!Rows(q)
CapOf(a) == IF a = Queue!SeedArtist THEN MixSeedCap ELSE MixCap
Mixed ==
    /\ pool \subseteq Queue!Id /\ queue \in Seq(Queue!Id) /\ Len(queue) <= MixTarget
    /\ \A i, j \in pool : Queue!SongOf(i) = Queue!SongOf(j) => i = j
    /\ \A i \in pool : \A k \in 1 .. Len(queue) : Queue!SongOf(queue[k]) # Queue!SongOf(i)
    /\ \A j, k \in 1 .. Len(queue) : Queue!SongOf(queue[j]) = Queue!SongOf(queue[k]) => j = k
    /\ \A a \in Queue!Artist : Queue!Taken(a) <= CapOf(a)
Mixes == {"mix", "radio"}
QueueInv ==
    /\ ask \in Wishes /\ Queue!TypeOK
    /\ pc = "asked" => queue = <<>> /\ from = 0
    /\ pc = "resolved" => AskedOf(query) /\ queue = <<>> /\ from = 0
    /\ pc = "drawing" => AskedOf(query) /\ query.source \in Mixes /\ Mixed /\ from = 0
    /\ pc = "queued" =>
          /\ AskedOf(query) /\ queue # <<>>
          /\ query.source \in Mixes => Mixed /\ (Len(queue) = MixTarget \/ Queue!Drawable = {})
          /\ query.source \notin Mixes =>
                \E u : BuiltOf(query, u) /\ (queue = u \/ (ask.shuffle /\ from # 0 /\ Reordered(u, queue)))
          /\ from > 1 => from <= Len(queue) /\ ~ask.shuffle

LEMMA FirstRow ==
  ASSUME NEW T, T \subseteq Nat, T # {}
  PROVE  Queue!Min(T) \in T
<1>1. \E m \in T : \A n \in T : m <= n
  BY Least
<1>. QED
  BY <1>1 DEF Queue!Min

LEMMA ResolvesToId ==
  ASSUME CatalogKnown, NEW w \in Wishes
  PROVE  Queue!Resolved(w) \in Nat /\ (w.by = "id" => Queue!Resolved(w) \in {0, w.id})
<1>. DEFINE r == w.rows
<1>1. /\ w.id \in Nat /\ w.numeric \in Nat /\ w.by \in {"id", "name"}
      /\ r \in Seq([id : Nat, exact : BOOLEAN, fits : BOOLEAN])
  BY DEF CatalogKnown
<1>2. /\ DOMAIN r = 1 .. Len(r) /\ Len(r) \in Nat /\ DOMAIN r \subseteq Nat \ {0}
      /\ \A k \in DOMAIN r : r[k].id \in Nat
  <2>1. DOMAIN r = 1 .. Len(r) /\ Len(r) \in Nat
    BY <1>1, LenProperties
  <2>2. \A k \in 1 .. Len(r) : r[k] \in [id : Nat, exact : BOOLEAN, fits : BOOLEAN]
    BY <1>1, ElementOfSeq
  <2>. QED
    BY <2>1, <2>2
<1>. HIDE DEF r
<1>3. ASSUME NEW any PROVE Queue!Found(r, any, w.numeric) \in Nat
  <2>. DEFINE usable == Queue!Usable(r, any)
              exact == {k \in usable : r[k].exact}
  <2>1. usable \subseteq DOMAIN r /\ usable \subseteq Nat /\ exact \subseteq usable
    BY <1>2 DEF Queue!Usable
  <2>2. exact # {} => Queue!Min(exact) \in usable
    BY <2>1, FirstRow
  <2>3. usable # {} => Queue!Min(usable) \in usable
    BY <2>1, FirstRow
  <2>4. Queue!Pick(r, any) = IF exact # {} THEN Queue!Min(exact)
                             ELSE IF usable # {} THEN Queue!Min(usable) ELSE 0
    BY DEF Queue!Pick
  <2>. HIDE DEF usable, exact
  <2>5. Queue!Pick(r, any) = 0 \/ Queue!Pick(r, any) \in DOMAIN r
    BY <2>1, <2>2, <2>3, <2>4
  <2>. QED
    BY <1>1, <1>2, <2>5 DEF Queue!Found
<1>4. Queue!FoundPlaylist(r, w.numeric) \in Nat
  <2>. DEFINE exact == {k \in DOMAIN r : r[k].exact}
              fits == {k \in DOMAIN r : r[k].fits}
  <2>1. exact \subseteq Nat /\ fits \subseteq Nat /\ exact \subseteq DOMAIN r /\ fits \subseteq DOMAIN r
    BY <1>2
  <2>2. exact # {} => Queue!Min(exact) \in DOMAIN r
    BY <2>1, FirstRow
  <2>3. Queue!Cardinality(fits) = 1 => Queue!Min(fits) \in DOMAIN r
    <3>1. Queue!Cardinality(fits) = 1 => fits # {}
      BY SizeOfRows, FS_EmptySet
    <3>. QED
      BY <2>1, <3>1, FirstRow
  <2>4. Queue!FoundPlaylist(r, w.numeric)
          = IF exact # {} THEN r[Queue!Min(exact)].id
            ELSE IF Queue!Cardinality(fits) = 1 THEN r[Queue!Min(fits)].id ELSE w.numeric
    BY DEF Queue!FoundPlaylist
  <2>. HIDE DEF exact, fits
  <2>. QED
    BY <1>1, <1>2, <2>2, <2>3, <2>4
<1>5. /\ Queue!Found(r, FALSE, w.numeric) \in Nat /\ Queue!Found(r, TRUE, w.numeric) \in Nat
      /\ r = w.rows
  BY <1>3 DEF r
<1>. QED
  BY <1>1, <1>4, <1>5 DEF Queue!Resolved

(* The rows of a query that is not a playlist are those that fit it, in    *)
(* the order of the catalog.                                               *)
Fits(q, i) ==
    CASE q.source = "artist" -> Songs[i].artist = q.id
      [] q.source = "album" -> Songs[i].album = q.id
      [] q.source = "track" -> i = q.id
      [] q.source = "popular" -> Queue!Popular(i)
      [] OTHER -> TRUE
LEMMA RowsThatFit ==
  ASSUME CatalogKnown, NEW q, q.source # "playlist"
  PROVE  LET r == Queue!Rows(q) IN
         /\ r \in Seq(Queue!Id) /\ Len(r) \in Nat /\ DOMAIN r = 1 .. Len(r)
         /\ \A m, n \in 1 .. Len(r) : m < n => r[m] < r[n]
         /\ \A n \in 1 .. Len(r) : r[n] \in Queue!Id /\ Fits(q, r[n])
         /\ \A i \in Queue!Id : Fits(q, i) => \E n \in 1 .. Len(r) : r[n] = i
<1>. DEFINE S == {i \in Queue!Id : Fits(q, i)}
            r == Queue!Rows(q)
<1>1. S \in SUBSET Queue!Id /\ S \in SUBSET Nat /\ IsFiniteSet(S)
  <2>1. S \in SUBSET Queue!Id
    OBVIOUS
  <2>. QED
    BY <2>1, CatalogTypes, FS_Subset
<1>2. r = Queue!InOrder(S)
  BY Zenon DEF Queue!Rows, Fits
<1>. HIDE DEF r
<1>3. /\ r \in Seq(S) /\ Len(r) \in Nat /\ \A m, n \in 1 .. Len(r) : m < n => r[m] < r[n]
      /\ \A i \in S : \E n \in 1 .. Len(r) : r[n] = i
  BY <1>1, <1>2, OrderedRows
<1>4. r \in Seq(Queue!Id) /\ DOMAIN r = 1 .. Len(r) /\ \A n \in 1 .. Len(r) : r[n] \in S
  BY <1>1, <1>3, SeqMonotonic, LenProperties, ElementOfSeq
<1>. QED
  BY <1>3, <1>4 DEF r

(* A queue that was built holds catalog tracks, and what it holds says the *)
(* query: in order and all of it, or each song of a sweep once.            *)
LEMMA BuiltQueue ==
  ASSUME CatalogKnown, NEW q, NEW u, BuiltOf(q, u)
  PROVE  /\ u \in Seq(Queue!Id)
         /\ q.source = "playlist" => u = Playlist
         /\ q.source \notin Queue!Sweeps \cup {"playlist"} =>
               /\ \A j, k \in 1 .. Len(u) : j < k => u[j] < u[k]
               /\ \A k \in 1 .. Len(u) : Fits(q, u[k])
               /\ \A i \in Queue!Id : Fits(q, i) => \E k \in 1 .. Len(u) : u[k] = i
         /\ q.source \in Queue!Sweeps =>
               /\ \A k \in 1 .. Len(u) : Fits(q, u[k])
               /\ \A i \in Queue!Id : Fits(q, i) =>
                     \E k \in 1 .. Len(u) : Queue!SongOf(u[k]) = Queue!SongOf(i)
               /\ q.shuffle => \A j, k \in 1 .. Len(u) :
                     Queue!SongOf(u[j]) = Queue!SongOf(u[k]) => j = k
<1>1. CASE q.source = "playlist"
  <2>1. u = Playlist
    BY <1>1 DEF BuiltOf, Queue!Rows, Queue!Sweeps
  <2>2. Playlist \in Seq(Queue!Id)
    BY CatalogTypes DEF CatalogKnown
  <2>. QED
    BY <1>1, <2>1, <2>2 DEF Queue!Sweeps
<1>2. CASE q.source # "playlist" /\ ~(q.shuffle /\ q.source \in Queue!Sweeps)
  <2>1. u = Queue!Rows(q)
    BY <1>2 DEF BuiltOf
  <2>2. /\ u \in Seq(Queue!Id)
        /\ \A m, n \in 1 .. Len(u) : m < n => u[m] < u[n]
        /\ \A n \in 1 .. Len(u) : Fits(q, u[n])
        /\ \A i \in Queue!Id : Fits(q, i) => \E n \in 1 .. Len(u) : u[n] = i
    BY <1>2, <2>1, RowsThatFit
  <2>3. \A i \in Queue!Id : Fits(q, i) =>
           \E k \in 1 .. Len(u) : Queue!SongOf(u[k]) = Queue!SongOf(i)
    BY <2>2
  <2>4. q.source \in Queue!Sweeps => ~q.shuffle
    BY <1>2
  <2>. QED
    BY <1>2, <2>2, <2>3, <2>4, Zenon
<1>3. CASE q.source # "playlist" /\ q.shuffle /\ q.source \in Queue!Sweeps
  <2>. DEFINE r == Queue!Rows(q)
              S == Queue!ToSet(r)
  <2>1. PICK p \in Queue!SetToSeqs(S) : u = Queue!Deduped(p)
    BY <1>3 DEF BuiltOf
  <2>2. /\ DOMAIN r = 1 .. Len(r)
        /\ \A n \in 1 .. Len(r) : r[n] \in Queue!Id /\ Fits(q, r[n])
        /\ \A i \in Queue!Id : Fits(q, i) => \E n \in 1 .. Len(r) : r[n] = i
    BY <1>3, RowsThatFit
  <2>3. S = {i \in Queue!Id : Fits(q, i)}
    BY <2>2 DEF Queue!ToSet
  <2>4. S \in SUBSET Queue!Id /\ S \in SUBSET Nat /\ IsFiniteSet(S)
    <3>1. S \in SUBSET Queue!Id
      BY <2>3
    <3>. QED
      BY <3>1, CatalogTypes, FS_Subset
  <2>. HIDE DEF r, S
  <2>5. p \in Seq(S) /\ \A i \in S : \E k \in 1 .. Len(p) : p[k] = i
    BY <2>4, ShuffledRows
  <2>6. \A k \in 1 .. Len(p) : p[k] \in S
    BY <2>5, ElementOfSeq
  <2>7. /\ u \in Seq(S)
        /\ \A m, n \in 1 .. Len(u) : Queue!SongOf(u[m]) = Queue!SongOf(u[n]) => m = n
        /\ \A k \in 1 .. Len(p) : \E m \in 1 .. Len(u) : Queue!SongOf(u[m]) = Queue!SongOf(p[k])
    BY <2>1, <2>4, <2>5, OneRecordingEach
  <2>8. u \in Seq(Queue!Id) /\ \A k \in 1 .. Len(u) : u[k] \in S
    BY <2>4, <2>7, SeqMonotonic, ElementOfSeq
  <2>9. \A i \in Queue!Id : Fits(q, i) =>
           \E k \in 1 .. Len(u) : Queue!SongOf(u[k]) = Queue!SongOf(i)
    BY <2>3, <2>5, <2>7
  <2>. QED
    BY <1>3, <2>3, <2>7, <2>8, <2>9
<1>. QED
  BY <1>1, <1>2, <1>3

(* The pool holds rows it was given, one recording of each song, and none  *)
(* of the seed's.                                                          *)
LEMMA PoolIsOfSongs ==
  ASSUME CatalogKnown, NEW S \in SUBSET Queue!Id, NEW seed \in S \cup {0}
  PROVE  /\ Queue!PoolOf(S, seed) \subseteq S
         /\ \A i, j \in Queue!PoolOf(S, seed) : Queue!SongOf(i) = Queue!SongOf(j) => i = j
         /\ seed # 0 => \A i \in Queue!PoolOf(S, seed) : Queue!SongOf(i) # Queue!SongOf(seed)
<1>. DEFINE T == {i \in S : seed = 0 \/ Queue!SongOf(i) # Queue!SongOf(seed)}
            s == Queue!InOrder(T)
            d == Queue!Deduped(s)
<1>1. T \in SUBSET S /\ T \in SUBSET Nat /\ IsFiniteSet(T)
  <2>1. T \in SUBSET Queue!Id /\ T \in SUBSET S
    OBVIOUS
  <2>. QED
    BY <2>1, CatalogTypes, FS_Subset
<1>2. Queue!PoolOf(S, seed) = {d[i] : i \in DOMAIN d}
  BY DEF Queue!PoolOf, Queue!ToSet
<1>3. seed # 0 => \A i \in T : Queue!SongOf(i) # Queue!SongOf(seed)
  OBVIOUS
<1>. HIDE DEF T, d, s
<1>4. s \in Seq(T)
  BY <1>1, OrderedRows DEF s
<1>5. /\ d \in Seq(T) /\ DOMAIN d = 1 .. Len(d)
      /\ \A m, n \in 1 .. Len(d) : Queue!SongOf(d[m]) = Queue!SongOf(d[n]) => m = n
  BY <1>1, <1>4, OneRecordingEach DEF d
<1>6. \A m \in DOMAIN d : d[m] \in T
  BY <1>5, ElementOfSeq
<1>. QED
  BY <1>1, <1>2, <1>3, <1>5, <1>6

(* How many of an artist's tracks are taken, after one more. *)
TakenIn(q, a) == Cardinality({k \in DOMAIN q : Songs[q[k]].artist = a})
LEMMA TakenOneMore ==
  ASSUME CatalogKnown, NEW q \in Seq(Queue!Id), NEW i \in Queue!Id, NEW a
  PROVE  /\ TakenIn(q, a) \in Nat
         /\ TakenIn(Append(q, i), a) = IF Songs[i].artist = a THEN TakenIn(q, a) + 1 ELSE TakenIn(q, a)
<1>. DEFINE r == Append(q, i)
            n == Len(q) + 1
            S == {k \in DOMAIN q : Songs[q[k]].artist = a}
            T == {k \in DOMAIN r : Songs[r[k]].artist = a}
<1>1. Len(q) \in Nat /\ DOMAIN q = 1 .. Len(q)
  BY LenProperties
<1>2. /\ r \in Seq(Queue!Id) /\ Len(r) = n /\ DOMAIN r = 1 .. n
      /\ r[n] = i /\ \A k \in 1 .. Len(q) : r[k] = q[k]
  BY <1>1, AppendProperties, LenProperties
<1>3. S \in SUBSET (1 .. Len(q)) /\ IsFiniteSet(S) /\ Cardinality(S) \in Nat
  <2>1. S \in SUBSET (1 .. Len(q)) /\ IsFiniteSet(1 .. Len(q))
    BY <1>1, FS_Interval
  <2>. QED
    BY <2>1, FS_Subset, FS_CardinalityType
<1>. HIDE DEF r
<1>4. 1 .. n = (1 .. Len(q)) \cup {n} /\ n \notin 1 .. Len(q)
  BY <1>1
<1>5. T = IF Songs[i].artist = a THEN S \cup {n} ELSE S
  BY <1>1, <1>2, <1>4
<1>6. n \notin S
  BY <1>3, <1>4
<1>. HIDE DEF S, T, n
<1>7. Cardinality(S \cup {n}) = Cardinality(S) + 1
  BY <1>3, <1>6, FS_AddElement
<1>8. Cardinality(T) = IF Songs[i].artist = a THEN Cardinality(S) + 1 ELSE Cardinality(S)
  BY <1>5, <1>7
<1>9. TakenIn(q, a) = Cardinality(S) /\ TakenIn(r, a) = Cardinality(T)
  BY DEF TakenIn, S, T
<1>. QED
  BY <1>3, <1>8, <1>9 DEF r

LEMMA QueueInit == ASSUME CatalogKnown, Queue!Init PROVE QueueInv
BY EmptySeq DEF QueueInv, Queue!Init, Queue!TypeOK, Queue!NoQuery

(* A step of the same question, and what it leaves known. *)
LEMMA AskedStays ==
  ASSUME QueueInv, UNCHANGED <<ask, query>> PROVE AskedOf(query) => AskedOf(query)'
BY DEF AskedOf, Queue!Resolved

LEMMA QueryKnown ==
  ASSUME CatalogKnown, ask \in Wishes, NEW q, AskedOf(q)
  PROVE  q.source \in Queue!Sources \cup {"track", "radio"} /\ q.id \in Nat
<1>1. CASE ask.verb = "radio" /\ q = [source |-> "radio", id |-> ask.id, shuffle |-> FALSE]
  BY <1>1 DEF CatalogKnown
<1>2. CASE /\ ask.verb \in Queue!Sources
           /\ q = [source |-> Queue!SourceOf(ask.verb), id |-> Queue!Resolved(ask), shuffle |-> ask.shuffle]
  <2>1. Queue!SourceOf(ask.verb) \in Queue!Sources \cup {"track"}
    BY <1>2 DEF Queue!SourceOf
  <2>. QED
    BY <1>2, <2>1, ResolvesToId
<1>. QED
  BY <1>1, <1>2 DEF AskedOf

LEMMA QueueResolve == ASSUME CatalogKnown, QueueInv, Queue!Resolve PROVE QueueInv'
<1>1. /\ pc = "asked" /\ ask' = ask /\ ask \in Wishes /\ queue = <<>> /\ from = 0
      /\ UNCHANGED <<pool, queue, from>> /\ Queue!TypeOK
  BY DEF QueueInv, Queue!Resolve, Queue!Refuse
<1>2. CASE pc' = "refused" /\ query' = query
  BY <1>1, <1>2 DEF QueueInv, Queue!TypeOK
<1>3. CASE /\ pc' = "resolved" /\ ask.verb \in Queue!Sources
           /\ query' = [source |-> Queue!SourceOf(ask.verb), id |-> Queue!Resolved(ask), shuffle |-> ask.shuffle]
  <2>1. AskedOf(query')
    BY <1>3, Zenon DEF AskedOf
  <2>2. AskedOf(query)'
    BY <1>1, <2>1 DEF AskedOf, Queue!Resolved
  <2>3. query'.source \in Queue!Sources \cup {"track", "radio"} /\ query'.id \in Nat
    BY <1>1, <2>1, QueryKnown
  <2>. QED
    BY <1>1, <1>3, <2>2, <2>3 DEF QueueInv, Queue!TypeOK
<1>4. CASE /\ pc' = "resolved" /\ ask.verb = "radio"
           /\ query' = [source |-> "radio", id |-> ask.id, shuffle |-> FALSE]
  <2>1. AskedOf(query')
    BY <1>4, Zenon DEF AskedOf
  <2>2. AskedOf(query)'
    BY <1>1, <2>1 DEF AskedOf, Queue!Resolved
  <2>3. query'.source \in Queue!Sources \cup {"track", "radio"} /\ query'.id \in Nat
    BY <1>1, <2>1, QueryKnown
  <2>. QED
    BY <1>1, <1>4, <2>2, <2>3 DEF QueueInv, Queue!TypeOK
<1>. QED
  BY <1>2, <1>3, <1>4 DEF Queue!Resolve, Queue!Refuse

LEMMA QueueBuild == ASSUME CatalogKnown, QueueInv, Queue!Build PROVE QueueInv'
<1>1. /\ pc = "resolved" /\ query.source \notin Mixes /\ AskedOf(query) /\ from = 0
      /\ UNCHANGED <<ask, query, pool, from>> /\ ask \in Wishes /\ Queue!TypeOK
  BY DEF QueueInv, Queue!Build, Queue!Refuse, Mixes
<1>2. CASE pc' = "refused" /\ queue' = queue
  BY <1>1, <1>2 DEF QueueInv, Queue!TypeOK
<1>3. CASE BuiltOf(query', queue') /\ pc' = IF queue' = <<>> THEN "refused" ELSE "queued"
  <2>1. queue' \in Seq(Queue!Id)
    BY <1>3, BuiltQueue
  <2>2. AskedOf(query)'
    BY <1>1, AskedStays
  <2>3. Queue!TypeOK'
    BY <1>1, <1>3, <2>1 DEF Queue!TypeOK, Queue!Id
  <2>. QED
    BY <1>1, <1>3, <2>2, <2>3 DEF QueueInv
<1>4. ASSUME Queue!Exists(query) PROVE BuiltOf(query', queue') /\ pc' = IF queue' = <<>> THEN "refused" ELSE "queued"
  <2>1. /\ IF query.shuffle /\ query.source \in Queue!Sweeps
           THEN \E p \in Queue!SetToSeqs(Queue!ToSet(Queue!Rows(query))) : queue' = Queue!Deduped(p)
           ELSE queue' = Queue!Rows(query)
        /\ pc' = IF queue' = <<>> THEN "refused" ELSE "queued"
    BY <1>4 DEF Queue!Build, Queue!Answer
  <2>. QED
    BY <1>1, <1>4, <2>1 DEF BuiltOf
<1>. QED
  BY <1>2, <1>3, <1>4 DEF Queue!Build, Queue!Refuse

LEMMA TakenIsTakenIn == \A a : Queue!Taken(a) = TakenIn(queue, a)
BY SizeOfRows DEF Queue!Taken, TakenIn

LEMMA QueueBeginMix == ASSUME CatalogKnown, QueueInv, Queue!BeginMix PROVE QueueInv'
<1>. DEFINE S == {i \in Queue!Id : Songs[i].artist \in {Queue!SeedArtist} \cup DOMAIN Similar /\ Queue!Popular(i)}
            seed == IF query.source = "radio" /\ query.id \in S THEN query.id ELSE 0
<1>1. /\ pc = "resolved" /\ query.source \in Mixes /\ AskedOf(query) /\ from = 0
      /\ UNCHANGED <<ask, query, from>> /\ ask \in Wishes /\ Queue!TypeOK
  BY DEF QueueInv, Queue!BeginMix, Queue!Refuse, Mixes
<1>2. CASE pc' = "refused" /\ UNCHANGED <<queue, pool>>
  BY <1>1, <1>2 DEF QueueInv, Queue!TypeOK
<1>3. CASE /\ pool' = Queue!PoolOf(S, seed) /\ pc' = "drawing"
           /\ queue' = IF seed = 0 THEN <<>> ELSE <<seed>>
  <2>0. seed \in S \cup {0} /\ S \in SUBSET Queue!Id
    OBVIOUS
  <2>1. /\ pool' \subseteq S
        /\ \A i, j \in pool' : Queue!SongOf(i) = Queue!SongOf(j) => i = j
        /\ seed # 0 => \A i \in pool' : Queue!SongOf(i) # Queue!SongOf(seed)
    BY <1>3, <2>0, PoolIsOfSongs
  <2>. HIDE DEF S, seed
  <2>2. /\ queue' \in Seq(Queue!Id) /\ Len(queue') <= 1 /\ Len(queue') \in Nat
        /\ \A k \in 1 .. Len(queue') : k = 1 /\ queue'[k] = seed /\ seed # 0
    BY <1>3, <2>0
  <2>3. MixTarget \in Nat \ {0} /\ MixCap \in Nat \ {0} /\ MixSeedCap \in Nat \ {0}
    BY DEF CatalogKnown
  <2>4. ASSUME NEW a PROVE TakenIn(queue', a) <= 1
    <3>1. TakenIn(<<>>, a) = 0
      <4>1. {k \in DOMAIN <<>> : Songs[<<>>[k]].artist = a} = {}
        OBVIOUS
      <4>. QED
        BY <4>1, FS_EmptySet DEF TakenIn
    <3>2. CASE queue' = <<>>
      BY <3>1, <3>2
    <3>3. CASE seed # 0 /\ queue' = <<seed>>
      <4>1. queue' = Append(<<>>, seed)
        BY <3>3
      <4>2. TakenIn(Append(<<>>, seed), a) \in {0, 1}
        <5>1. seed \in Queue!Id /\ <<>> \in Seq(Queue!Id)
          BY <2>0, <3>3, EmptySeq
        <5>2. TakenIn(Append(<<>>, seed), a)
                = IF Songs[seed].artist = a THEN TakenIn(<<>>, a) + 1 ELSE TakenIn(<<>>, a)
          BY <5>1, TakenOneMore
        <5>. QED
          BY <3>1, <5>2
      <4>. QED
        BY <4>1, <4>2
    <3>. QED
      BY <1>3, <3>2, <3>3
  <2>5. \A a \in Queue!Artist : Queue!Taken(a)' <= CapOf(a)'
    <3>1. \A a : Queue!Taken(a)' = TakenIn(queue', a)
      BY SizeOfRows DEF Queue!Taken, TakenIn
    <3>2. \A a : CapOf(a)' \in {MixCap, MixSeedCap}
      BY DEF CapOf
    <3>3. ASSUME NEW a \in Queue!Artist PROVE Queue!Taken(a)' <= CapOf(a)'
      <4>1. TakenIn(queue', a) \in Nat
        <5>1. IsFiniteSet(DOMAIN queue')
          BY <2>2, LenProperties, FS_Interval
        <5>2. IsFiniteSet({k \in DOMAIN queue' : Songs[queue'[k]].artist = a})
          BY <5>1, FS_Subset
        <5>. QED
          BY <5>2, FS_CardinalityType DEF TakenIn
      <4>2. TakenIn(queue', a) <= 1
        BY <2>4
      <4>3. CapOf(a)' \in Nat \ {0}
        BY <2>3, <3>2
      <4>. QED
        BY <3>1, <4>1, <4>2, <4>3
    <3>. QED
      BY <3>3
  <2>6. Mixed'
    <3>1. pool' \subseteq Queue!Id /\ Len(queue') <= MixTarget
      BY <2>0, <2>1, <2>2, <2>3
    <3>2. \A i \in pool' : \A k \in 1 .. Len(queue') : Queue!SongOf(queue'[k]) # Queue!SongOf(i)
      BY <2>1, <2>2
    <3>3. \A j, k \in 1 .. Len(queue') : Queue!SongOf(queue'[j]) = Queue!SongOf(queue'[k]) => j = k
      BY <2>2
    <3>. QED
      BY <2>1, <2>2, <2>5, <3>1, <3>2, <3>3 DEF Mixed, Queue!SongOf, Queue!Id, Queue!Artist
  <2>7. AskedOf(query)'
    BY <1>1, AskedStays
  <2>8. Queue!TypeOK'
    BY <1>1, <1>3, <2>6 DEF Queue!TypeOK, Mixed, Queue!Id
  <2>. QED
    BY <1>1, <1>3, <2>6, <2>7, <2>8 DEF QueueInv
<1>. QED
  BY <1>2, <1>3 DEF Queue!BeginMix, Queue!Refuse

LEMMA QueueDraw == ASSUME CatalogKnown, QueueInv, Queue!Draw PROVE QueueInv'
<1>1. /\ pc = "drawing" /\ query.source \in Mixes /\ AskedOf(query) /\ from = 0 /\ Mixed
      /\ UNCHANGED <<ask, query, from>> /\ ask \in Wishes /\ Queue!TypeOK
  BY DEF QueueInv, Queue!Draw, Queue!Answer
<1>2. AskedOf(query)'
  BY <1>1, AskedStays
<1>3. CASE /\ ~(Len(queue) < MixTarget /\ Queue!Drawable # {}) /\ UNCHANGED <<pool, queue>>
           /\ pc' = IF queue = <<>> THEN "refused" ELSE "queued"
  <2>1. Mixed'
    BY <1>1, <1>3 DEF Mixed, CapOf, Queue!Taken, Queue!SeedArtist, Queue!SongOf, Queue!Id, Queue!Artist
  <2>2. Len(queue) \in Nat /\ MixTarget \in Nat /\ Len(queue) <= MixTarget
    BY <1>1, LenProperties DEF Mixed, CatalogKnown
  <2>3. Len(queue) = MixTarget \/ Queue!Drawable = {}
    BY <1>3, <2>2
  <2>4. Len(queue') = MixTarget \/ Queue!Drawable' = {}
    BY <1>1, <1>3, <2>3 DEF Queue!Drawable, Queue!Taken, Queue!SeedArtist
  <2>5. Queue!TypeOK'
    BY <1>1, <1>3 DEF Queue!TypeOK, Queue!Id
  <2>. QED
    BY <1>1, <1>2, <1>3, <2>1, <2>4, <2>5 DEF QueueInv
<1>4. ASSUME Len(queue) < MixTarget, NEW i \in Queue!Drawable,
             queue' = Append(queue, i), pool' = pool \ {i}, pc' = pc
      PROVE  QueueInv'
  <2>1. /\ i \in pool /\ i \in Queue!Id
        /\ Queue!Taken(Songs[i].artist) < CapOf(Songs[i].artist)
    BY <1>1 DEF Queue!Drawable, Mixed, CapOf
  <2>2. Len(queue) \in Nat /\ MixTarget \in Nat /\ queue \in Seq(Queue!Id)
    BY <1>1, LenProperties DEF Mixed, CatalogKnown
  <2>3. /\ queue' \in Seq(Queue!Id) /\ Len(queue') = Len(queue) + 1
        /\ queue'[Len(queue) + 1] = i /\ \A k \in 1 .. Len(queue) : queue'[k] = queue[k]
    BY <1>4, <2>1, <2>2, AppendProperties
  <2>4. 1 .. Len(queue') = (1 .. Len(queue)) \cup {Len(queue) + 1}
    BY <2>2, <2>3
  <2>5. /\ \A a \in pool, b \in pool : Queue!SongOf(a) = Queue!SongOf(b) => a = b
        /\ \A a \in pool : \A k \in 1 .. Len(queue) : Queue!SongOf(queue[k]) # Queue!SongOf(a)
        /\ \A j, k \in 1 .. Len(queue) : Queue!SongOf(queue[j]) = Queue!SongOf(queue[k]) => j = k
    BY <1>1, Zenon DEF Mixed
  <2>6. \A a \in pool' : \A k \in 1 .. Len(queue') : Queue!SongOf(queue'[k]) # Queue!SongOf(a)
    <3>1. \A a \in pool' : a \in pool /\ Queue!SongOf(i) # Queue!SongOf(a)
      BY <1>4, <2>1, <2>5
    <3>. QED
      BY <2>3, <2>4, <2>5, <3>1
  <2>7. \A j, k \in 1 .. Len(queue') : Queue!SongOf(queue'[j]) = Queue!SongOf(queue'[k]) => j = k
    <3>1. \A k \in 1 .. Len(queue) : Queue!SongOf(queue'[k]) # Queue!SongOf(i)
      BY <2>1, <2>3, <2>5
    <3>. QED
      BY <2>3, <2>4, <2>5, <3>1
  <2>8. ASSUME NEW a \in Queue!Artist PROVE Queue!Taken(a)' <= CapOf(a)'
    <3>1. Queue!Taken(a)' = TakenIn(queue', a)
      BY SizeOfRows DEF Queue!Taken, TakenIn
    <3>2. CapOf(a)' = CapOf(a)
      BY <1>1 DEF CapOf, Queue!SeedArtist
    <3>3. Queue!Taken(a) <= CapOf(a) /\ Queue!Taken(a) = TakenIn(queue, a) /\ CapOf(a) \in Nat
      BY <1>1, TakenIsTakenIn DEF Mixed, CapOf, CatalogKnown
    <3>4. TakenIn(queue, a) \in Nat
          /\ TakenIn(queue', a) = IF Songs[i].artist = a THEN TakenIn(queue, a) + 1 ELSE TakenIn(queue, a)
      BY <1>4, <2>1, <2>2, TakenOneMore
    <3>5. Songs[i].artist = a => TakenIn(queue, a) < CapOf(a)
      BY <2>1, <3>3
    <3>. QED
      BY <3>1, <3>2, <3>3, <3>4, <3>5
  <2>9. Mixed'
    <3>1. pool' \subseteq Queue!Id /\ Len(queue') <= MixTarget
      BY <1>1, <1>4, <2>2, <2>3 DEF Mixed
    <3>2. \A a \in pool', b \in pool' : Queue!SongOf(a) = Queue!SongOf(b) => a = b
      BY <1>4, <2>5
    <3>. QED
      BY <2>3, <2>6, <2>7, <2>8, <3>1, <3>2 DEF Mixed, Queue!SongOf, Queue!Id, Queue!Artist
  <2>10. Queue!TypeOK'
    BY <1>1, <1>4, <2>9 DEF Queue!TypeOK, Mixed, Queue!Id
  <2>. QED
    BY <1>1, <1>2, <1>4, <2>9, <2>10 DEF QueueInv
<1>. QED
  BY <1>3, <1>4 DEF Queue!Draw, Queue!Answer

(* What the caps and the songs of a mix say does not depend on its order. *)
LEMMA MixReorders ==
  ASSUME CatalogKnown, Mixed, Reordered(queue, queue'), UNCHANGED <<ask, query, pool>>
  PROVE  Mixed' /\ Len(queue') = Len(queue) /\ Queue!Drawable' = Queue!Drawable
<1>1. queue \in Seq(Queue!Id) /\ Len(queue) \in Nat
  BY LenProperties DEF Mixed
<1>p. Permuted(Queue!Id, queue, queue')
  BY <1>1, Reorders
<1>2. /\ queue' \in Seq(Queue!Id) /\ Len(queue') = Len(queue)
      /\ \A X : Cardinality({k \in DOMAIN queue' : queue'[k] \in X})
                = Cardinality({k \in DOMAIN queue : queue[k] \in X})
  BY <1>p, Zenon DEF Permuted
<1>3. PICK p \in [1 .. Len(queue) -> 1 .. Len(queue)] :
        /\ \A j, k \in 1 .. Len(queue) : p[j] = p[k] => j = k
        /\ \A k \in 1 .. Len(queue) : queue'[k] = queue[p[k]]
  BY <1>p DEF Permuted
<1>4. ASSUME NEW a PROVE Queue!Taken(a)' = Queue!Taken(a)
  <2>. DEFINE X == {i \in Queue!Id : Songs[i].artist = a}
  <2>1. {k \in DOMAIN queue : Songs[queue[k]].artist = a} = {k \in DOMAIN queue : queue[k] \in X}
    BY <1>1, LenProperties, ElementOfSeq
  <2>2. {k \in DOMAIN queue' : Songs[queue'[k]].artist = a} = {k \in DOMAIN queue' : queue'[k] \in X}
    BY <1>2, LenProperties, ElementOfSeq
  <2>3. Cardinality({k \in DOMAIN queue' : queue'[k] \in X}) = Cardinality({k \in DOMAIN queue : queue[k] \in X})
    BY <1>2
  <2>. HIDE DEF X
  <2>. QED
    BY <2>1, <2>2, <2>3, SizeOfRows DEF Queue!Taken
<1>5. UNCHANGED <<Queue!SeedArtist, Queue!Id, Queue!Artist>>
  BY DEF Queue!SeedArtist, Queue!Id, Queue!Artist
<1>6. Queue!Drawable' = Queue!Drawable
  BY <1>4, <1>5 DEF Queue!Drawable
<1>7. \A a : CapOf(a)' = CapOf(a)
  BY <1>5 DEF CapOf
<1>8. /\ \A i \in pool : \A k \in 1 .. Len(queue) : Queue!SongOf(queue'[k]) # Queue!SongOf(i)
      /\ \A j, k \in 1 .. Len(queue) : Queue!SongOf(queue'[j]) = Queue!SongOf(queue'[k]) => j = k
  BY <1>3 DEF Mixed
<1>9. \A a \in Queue!Artist : Queue!Taken(a)' <= CapOf(a)'
  BY <1>4, <1>7 DEF Mixed
<1>10. Mixed'
  BY <1>1, <1>2, <1>5, <1>8, <1>9 DEF Mixed, Queue!SongOf
<1>. QED
  BY <1>2, <1>6, <1>10

LEMMA QueueStart == ASSUME CatalogKnown, QueueInv, Queue!Start PROVE QueueInv'
<1>1. /\ pc = "queued" /\ from = 0 /\ UNCHANGED <<ask, pc, query, pool>>
      /\ ask \in Wishes /\ Queue!TypeOK /\ AskedOf(query) /\ queue # <<>>
      /\ query.source \in Mixes => Mixed /\ (Len(queue) = MixTarget \/ Queue!Drawable = {})
      /\ query.source \notin Mixes => BuiltOf(query, queue)
      /\ from' = IF ~ask.shuffle /\ ask.from \in 2 .. Len(queue) THEN ask.from ELSE 1
      /\ queue \in Seq(Queue!Id)
  BY DEF QueueInv, Queue!Start, Queue!TypeOK
<1>2. IF ask.shuffle THEN Reordered(queue, queue') ELSE queue' = queue
  BY DEF Queue!Start, Queue!Shuffled, Reordered
<1>3. AskedOf(query)'
  BY <1>1 DEF AskedOf, Queue!Resolved
<1>4. Len(queue) \in Nat /\ (Len(queue) = 0 <=> queue = <<>>)
  BY <1>1, EmptySeq, LenProperties
<1>5. queue' \in Seq(Queue!Id) /\ Len(queue') = Len(queue) /\ queue' # <<>>
  <2>1. CASE ask.shuffle
    <3>1. queue' \in Seq(Queue!Id) /\ Len(queue') = Len(queue)
      BY <1>1, <1>2, <2>1, Reorders DEF Permuted
    <3>. QED
      BY <1>1, <1>4, <3>1, EmptySeq
  <2>2. CASE ~ask.shuffle
    BY <1>1, <1>2, <2>2
  <2>. QED
    BY <2>1, <2>2
<1>6. query'.source \in Mixes => Mixed' /\ (Len(queue') = MixTarget \/ Queue!Drawable' = {})
  <2>1. CASE ask.shuffle
    BY <1>1, <1>2, <2>1, MixReorders
  <2>2. CASE ~ask.shuffle
    <3>1. UNCHANGED <<ask, pc, query, pool, queue>>
      BY <1>1, <1>2, <2>2
    <3>2. Mixed => Mixed'
      BY <3>1 DEF Mixed, CapOf, Queue!Taken, Queue!SeedArtist, Queue!SongOf, Queue!Id, Queue!Artist
    <3>3. Queue!Drawable' = Queue!Drawable
      BY <3>1 DEF Queue!Drawable, Queue!Taken, Queue!SeedArtist
    <3>. QED
      BY <1>1, <3>1, <3>2, <3>3
  <2>. QED
    BY <2>1, <2>2
<1>7. from' \in Nat \ {0} /\ (from' > 1 => from' <= Len(queue') /\ ~ask.shuffle)
  BY <1>1, <1>4, <1>5
<1>8. query'.source \notin Mixes =>
         \E u : /\ BuiltOf(query', u)
                /\ queue' = u \/ (ask'.shuffle /\ from' # 0 /\ Reordered(u, queue'))
  <2>. SUFFICES ASSUME query.source \notin Mixes
                PROVE  /\ BuiltOf(query', queue)
                       /\ queue' = queue \/ (ask'.shuffle /\ from' # 0 /\ Reordered(queue, queue'))
    BY <1>1, Zenon
  <2>. QED
    BY <1>1, <1>2, <1>7
<1>9. Queue!TypeOK'
  BY <1>1, <1>5, <1>7 DEF Queue!TypeOK, Queue!Id
<1>10. (\E u : /\ BuiltOf(query', u)
               /\ queue' = u \/ (ask'.shuffle /\ from' # 0 /\ Reordered(u, queue')))
         <=> (\E u : BuiltOf(query, u) /\ (queue = u \/ (ask.shuffle /\ from # 0 /\ Reordered(u, queue))))'
  BY DEF BuiltOf
<1>. QED
  BY <1>1, <1>3, <1>5, <1>6, <1>7, <1>8, <1>9, <1>10 DEF QueueInv

LEMMA QueueStep == ASSUME CatalogKnown, QueueInv, [Queue!Next]_(Queue!vars) PROVE QueueInv'
<1>1. CASE UNCHANGED Queue!vars
  <2>1. UNCHANGED <<ask, pc, query, pool, queue, from>>
    BY <1>1 DEF Queue!vars
  <2>2. AskedOf(query) => AskedOf(query)'
    BY <2>1, AskedStays
  <2>3. Mixed => Mixed'
    BY <2>1 DEF Mixed, CapOf, Queue!Taken, Queue!SeedArtist, Queue!SongOf, Queue!Id, Queue!Artist
  <2>4. Queue!Drawable' = Queue!Drawable
    BY <2>1 DEF Queue!Drawable, Queue!Taken, Queue!SeedArtist
  <2>5. Queue!TypeOK => Queue!TypeOK'
    BY <2>1 DEF Queue!TypeOK, Queue!Id
  <2>. QED
    BY <2>1, <2>2, <2>3, <2>4, <2>5 DEF QueueInv
<1>. QED
  BY <1>1, QueueResolve, QueueBuild, QueueBeginMix, QueueDraw, QueueStart DEF Queue!Next

(* What plays is what was built, in some order. *)
BuiltInOrder(q, v) ==
    \E u : BuiltOf(q, u) /\ Permuted(Queue!Id, u, v) /\ (v = u \/ ask.shuffle)

LEMMA SamePermuted ==
  ASSUME NEW Q, NEW u \in Seq(Q) PROVE Permuted(Q, u, u)
<1>. DEFINE p == [k \in 1 .. Len(u) |-> k]
<1>1. p \in [1 .. Len(u) -> 1 .. Len(u)] /\ \A k \in 1 .. Len(u) : p[k] = k
  OBVIOUS
<1>. HIDE DEF p
<1>2. /\ \A j, k \in 1 .. Len(u) : p[j] = p[k] => j = k
      /\ \A i \in 1 .. Len(u) : \E k \in 1 .. Len(u) : p[k] = i
      /\ \A k \in 1 .. Len(u) : u[k] = u[p[k]]
  BY <1>1
<1>3. \E f \in [1 .. Len(u) -> 1 .. Len(u)] :
         /\ \A j, k \in 1 .. Len(u) : f[j] = f[k] => j = k
         /\ \A i \in 1 .. Len(u) : \E k \in 1 .. Len(u) : f[k] = i
         /\ \A k \in 1 .. Len(u) : u[k] = u[f[k]]
  BY <1>1, <1>2, Zenon
<1>. QED
  BY <1>3, Zenon DEF Permuted

LEMMA PlaysWhatWasBuilt ==
  ASSUME CatalogKnown, QueueInv, pc = "queued", query.source \notin Mixes
  PROVE  BuiltInOrder(query, queue)
<1>1. PICK u : BuiltOf(query, u) /\ (queue = u \/ (ask.shuffle /\ from # 0 /\ Reordered(u, queue)))
  BY DEF QueueInv
<1>2. u \in Seq(Queue!Id) /\ Len(u) \in Nat
  <2>1. u \in Seq(Queue!Id)
    BY <1>1, BuiltQueue
  <2>. QED
    BY <2>1, LenProperties
<1>3. CASE queue = u
  BY <1>1, <1>2, <1>3, SamePermuted DEF BuiltInOrder
<1>4. CASE ask.shuffle /\ Reordered(u, queue)
  BY <1>1, <1>2, <1>4, Reorders DEF BuiltInOrder
<1>. QED
  BY <1>1, <1>3, <1>4

(* And so it holds what was built. *)
LEMMA PlayedQueue ==
  ASSUME CatalogKnown, NEW q, BuiltInOrder(q, queue)
  PROVE  /\ q.source = "playlist" =>
               /\ \A i : Queue!Times(queue, i) = Queue!Times(Playlist, i)
               /\ ~ask.shuffle => queue = Playlist
         /\ q.source # "playlist" => \A k \in 1 .. Len(queue) : Fits(q, queue[k])
         /\ q.source # "playlist" /\ (q.shuffle = ask.shuffle) /\ ~ask.shuffle =>
               \A j, k \in 1 .. Len(queue) : j < k => queue[j] < queue[k]
         /\ q.source \notin Queue!Sweeps \cup {"playlist"} =>
               /\ \A j, k \in 1 .. Len(queue) : queue[j] = queue[k] => j = k
               /\ \A i \in Queue!Id : Fits(q, i) => \E k \in 1 .. Len(queue) : queue[k] = i
         /\ q.source \in Queue!Sweeps =>
               /\ \A i \in Queue!Id : Fits(q, i) =>
                     \E k \in 1 .. Len(queue) : Queue!SongOf(queue[k]) = Queue!SongOf(i)
               /\ q.shuffle => \A j, k \in 1 .. Len(queue) :
                     Queue!SongOf(queue[j]) = Queue!SongOf(queue[k]) => j = k
<1>0. PICK u : BuiltOf(q, u) /\ Permuted(Queue!Id, u, queue) /\ (queue = u \/ ask.shuffle)
  BY DEF BuiltInOrder
<1>1. PICK p \in [1 .. Len(u) -> 1 .. Len(u)] :
        /\ \A j, k \in 1 .. Len(u) : p[j] = p[k] => j = k
        /\ \A i \in 1 .. Len(u) : \E k \in 1 .. Len(u) : p[k] = i
        /\ \A k \in 1 .. Len(u) : queue[k] = u[p[k]]
  BY <1>0 DEF Permuted
<1>2. /\ BuiltOf(q, u) /\ queue \in Seq(Queue!Id) /\ Len(queue) = Len(u)
      /\ \A j, k \in 1 .. Len(u) : p[j] = p[k] => j = k
      /\ \A i \in 1 .. Len(u) : \E k \in 1 .. Len(u) : p[k] = i
      /\ \A k \in 1 .. Len(u) : queue[k] = u[p[k]]
      /\ \A X : Cardinality({k \in DOMAIN queue : queue[k] \in X}) = Cardinality({k \in DOMAIN u : u[k] \in X})
      /\ queue = u \/ ask.shuffle
  BY <1>0, <1>1 DEF Permuted
<1>3. \A k \in 1 .. Len(u) : p[k] \in 1 .. Len(u)
  OBVIOUS
<1>4. q.source = "playlist" => u = Playlist
  BY <1>2, BuiltQueue
<1>5. \A i : Queue!Times(queue, i) = Queue!Times(u, i)
  <2>. TAKE i
  <2>1. /\ {k \in DOMAIN queue : queue[k] = i} = {k \in DOMAIN queue : queue[k] \in {i}}
        /\ {k \in DOMAIN u : u[k] = i} = {k \in DOMAIN u : u[k] \in {i}}
    OBVIOUS
  <2>2. Cardinality({k \in DOMAIN queue : queue[k] \in {i}}) = Cardinality({k \in DOMAIN u : u[k] \in {i}})
    BY <1>2
  <2>. QED
    BY <2>1, <2>2, SizeOfRows DEF Queue!Times
<1>6. q.source \notin Queue!Sweeps \cup {"playlist"} =>
         /\ \A j, k \in 1 .. Len(u) : j < k => u[j] < u[k]
         /\ \A k \in 1 .. Len(u) : Fits(q, u[k])
         /\ \A i \in Queue!Id : Fits(q, i) => \E k \in 1 .. Len(u) : u[k] = i
  BY <1>2, BuiltQueue
<1>7. q.source \in Queue!Sweeps =>
         /\ \A k \in 1 .. Len(u) : Fits(q, u[k])
         /\ \A i \in Queue!Id : Fits(q, i) =>
               \E k \in 1 .. Len(u) : Queue!SongOf(u[k]) = Queue!SongOf(i)
         /\ q.shuffle => \A j, k \in 1 .. Len(u) : Queue!SongOf(u[j]) = Queue!SongOf(u[k]) => j = k
  BY <1>2, BuiltQueue
<1>8. "playlist" \notin Queue!Sweeps
  BY DEF Queue!Sweeps
<1>9. q.source # "playlist" => \A k \in 1 .. Len(queue) : Fits(q, queue[k])
  BY <1>2, <1>3, <1>6, <1>7
<1>10. q.source # "playlist" /\ (q.shuffle = ask.shuffle) /\ ~ask.shuffle =>
          \A j, k \in 1 .. Len(queue) : j < k => queue[j] < queue[k]
  <2>. SUFFICES ASSUME q.source # "playlist", q.shuffle = ask.shuffle, ~ask.shuffle
                PROVE  \A j, k \in 1 .. Len(queue) : j < k => queue[j] < queue[k]
    OBVIOUS
  <2>1. queue = Queue!Rows(q)
    BY <1>2 DEF BuiltOf
  <2>. QED
    BY <2>1, RowsThatFit
<1>11. q.source \notin Queue!Sweeps \cup {"playlist"} =>
          /\ \A j, k \in 1 .. Len(queue) : queue[j] = queue[k] => j = k
          /\ \A i \in Queue!Id : Fits(q, i) => \E k \in 1 .. Len(queue) : queue[k] = i
  <2>. SUFFICES ASSUME q.source \notin Queue!Sweeps \cup {"playlist"}
                PROVE  /\ \A j, k \in 1 .. Len(queue) : queue[j] = queue[k] => j = k
                       /\ \A i \in Queue!Id : Fits(q, i) => \E k \in 1 .. Len(queue) : queue[k] = i
    OBVIOUS
  <2>1. u \in Seq(Queue!Id) /\ \A k \in 1 .. Len(u) : u[k] \in Nat
    <3>1. u \in Seq(Queue!Id)
      BY <1>2, BuiltQueue
    <3>. QED
      BY <3>1, CatalogTypes, ElementOfSeq
  <2>2. \A j, k \in 1 .. Len(u) : u[j] = u[k] => j = k
    <3>1. Len(u) \in Nat
      BY <2>1, LenProperties
    <3>. QED
      BY <1>6, <2>1, <3>1
  <2>3. \A j, k \in 1 .. Len(queue) : queue[j] = queue[k] => j = k
    <3>. SUFFICES ASSUME NEW j \in 1 .. Len(u), NEW k \in 1 .. Len(u), queue[j] = queue[k]
                  PROVE  j = k
      BY <1>2
    <3>1. u[p[j]] = u[p[k]] /\ p[j] \in 1 .. Len(u) /\ p[k] \in 1 .. Len(u)
      BY <1>2, <1>3
    <3>2. p[j] = p[k]
      BY <2>2, <3>1
    <3>. QED
      BY <1>2, <3>2
  <2>4. \A i \in Queue!Id : Fits(q, i) => \E k \in 1 .. Len(queue) : queue[k] = i
    <3>. SUFFICES ASSUME NEW i \in Queue!Id, Fits(q, i)
                  PROVE  \E k \in 1 .. Len(u) : queue[k] = i
      BY <1>2
    <3>1. PICK n \in 1 .. Len(u) : u[n] = i
      BY <1>6
    <3>2. PICK k \in 1 .. Len(u) : p[k] = n
      BY <1>2, <3>1
    <3>. QED
      BY <1>2, <3>1, <3>2
  <2>. QED
    BY <2>3, <2>4
<1>12. q.source \in Queue!Sweeps =>
          /\ \A i \in Queue!Id : Fits(q, i) =>
                \E k \in 1 .. Len(queue) : Queue!SongOf(queue[k]) = Queue!SongOf(i)
          /\ q.shuffle => \A j, k \in 1 .. Len(queue) :
                Queue!SongOf(queue[j]) = Queue!SongOf(queue[k]) => j = k
  <2>. SUFFICES ASSUME q.source \in Queue!Sweeps
                PROVE  /\ \A i \in Queue!Id : Fits(q, i) =>
                             \E k \in 1 .. Len(queue) : Queue!SongOf(queue[k]) = Queue!SongOf(i)
                       /\ q.shuffle => \A j, k \in 1 .. Len(queue) :
                             Queue!SongOf(queue[j]) = Queue!SongOf(queue[k]) => j = k
    OBVIOUS
  <2>1. \A i \in Queue!Id : Fits(q, i) =>
           \E k \in 1 .. Len(queue) : Queue!SongOf(queue[k]) = Queue!SongOf(i)
    <3>. SUFFICES ASSUME NEW i \in Queue!Id, Fits(q, i)
                  PROVE  \E k \in 1 .. Len(u) : Queue!SongOf(queue[k]) = Queue!SongOf(i)
      BY <1>2
    <3>1. PICK n \in 1 .. Len(u) : Queue!SongOf(u[n]) = Queue!SongOf(i)
      BY <1>7
    <3>2. PICK k \in 1 .. Len(u) : p[k] = n
      BY <1>2, <3>1
    <3>. QED
      BY <1>2, <3>1, <3>2
  <2>2. q.shuffle => \A j, k \in 1 .. Len(queue) :
           Queue!SongOf(queue[j]) = Queue!SongOf(queue[k]) => j = k
    BY <1>2, <1>3, <1>7
  <2>. QED
    BY <2>1, <2>2
<1>. QED
  BY <1>2, <1>4, <1>5, <1>9, <1>10, <1>11, <1>12, Zenon

LEMMA QueueKeepsPromise == ASSUME CatalogKnown, QueueInv PROVE Queue!QueueHoldsWhatWasAsked
<1>. SUFFICES ASSUME pc = "queued" PROVE Queue!QueueHoldsWhatWasAsked
  BY DEF Queue!QueueHoldsWhatWasAsked
<1>1. /\ ask \in Wishes /\ queue \in Seq(Queue!Id) /\ AskedOf(query) /\ queue # <<>>
      /\ query.source \in Mixes => Mixed /\ (Len(queue) = MixTarget \/ Queue!Drawable = {})
      /\ from > 1 => from <= Len(queue) /\ ~ask.shuffle
  BY DEF QueueInv, Queue!TypeOK
<1>2. /\ Len(queue) \in Nat \ {0} /\ DOMAIN queue = 1 .. Len(queue)
      /\ \A k \in 1 .. Len(queue) : queue[k] \in Queue!Id
  BY <1>1, EmptySeq, LenProperties, ElementOfSeq
<1>3. ask.by = "id" => Queue!Resolved(ask) \in {0, ask.id}
  BY <1>1, ResolvesToId
<1>4. ASSUME ask.verb \in Queue!Sources \ {"mix"}
      PROVE  /\ query.source = Queue!SourceOf(ask.verb) /\ query.id = Queue!Resolved(ask)
             /\ query.shuffle = ask.shuffle /\ BuiltInOrder(query, queue)
  <2>1. query = [source |-> Queue!SourceOf(ask.verb), id |-> Queue!Resolved(ask), shuffle |-> ask.shuffle]
    BY <1>1, <1>4 DEF AskedOf, Queue!Sources
  <2>2. Queue!SourceOf(ask.verb) \notin Mixes
    BY <1>4 DEF Queue!SourceOf, Queue!Sources, Mixes
  <2>3. BuiltInOrder(query, queue)
    BY <2>1, <2>2, PlaysWhatWasBuilt
  <2>. QED
    BY <2>1, <2>3
<1>5. ASSUME ask.verb \in {"album", "song"}
      PROVE  /\ \A j, k \in 1 .. Len(queue) : queue[j] = queue[k] => j = k
             /\ \A k \in 1 .. Len(queue) : Fits(query, queue[k])
             /\ \A i \in Queue!Id : Fits(query, i) => \E k \in 1 .. Len(queue) : queue[k] = i
             /\ query.source = IF ask.verb = "song" THEN "track" ELSE "album"
             /\ query.id = Queue!Resolved(ask)
  <2>1. ask.verb \in Queue!Sources \ {"mix"}
    BY <1>5 DEF Queue!Sources
  <2>2. query.source = IF ask.verb = "song" THEN "track" ELSE "album"
    BY <1>4, <1>5, <2>1 DEF Queue!SourceOf
  <2>3. query.source \notin Queue!Sweeps \cup {"playlist"} /\ query.source # "playlist"
    BY <1>5, <2>2 DEF Queue!Sweeps
  <2>4. BuiltInOrder(query, queue) /\ query.id = Queue!Resolved(ask)
    BY <1>4, <2>1
  <2>. QED
    BY <2>2, <2>3, <2>4, PlayedQueue
<1>6. ask.verb = "album" => /\ ask.by = "id" => Songs[queue[1]].album = ask.id
                            /\ \A i \in Queue!Id : Queue!Times(queue, i) =
                                  IF Songs[i].album = Songs[queue[1]].album THEN 1 ELSE 0
  <2>. SUFFICES ASSUME ask.verb = "album"
                PROVE  /\ ask.by = "id" => Songs[queue[1]].album = ask.id
                       /\ \A i \in Queue!Id : Queue!Times(queue, i) =
                             IF Songs[i].album = Songs[queue[1]].album THEN 1 ELSE 0
    OBVIOUS
  <2>1. query.source = "album" /\ query.id = Queue!Resolved(ask)
    BY <1>5
  <2>2. /\ \A k \in 1 .. Len(queue) : Songs[queue[k]].album = query.id
        /\ \A i \in Queue!Id : Songs[i].album = query.id => \E k \in 1 .. Len(queue) : queue[k] = i
    BY <1>5, <2>1 DEF Fits
  <2>3. ask.by = "id" => Queue!Resolved(ask) = ask.id
    BY DEF Queue!Resolved
  <2>4. Songs[queue[1]].album = query.id
    BY <1>2, <2>2
  <2>5. ASSUME NEW i \in Queue!Id
        PROVE  Queue!Times(queue, i) = IF Songs[i].album = query.id THEN 1 ELSE 0
    <3>. DEFINE T == {k \in DOMAIN queue : queue[k] = i}
    <3>1. CASE Songs[i].album = query.id
      <4>1. PICK k \in 1 .. Len(queue) : queue[k] = i
        BY <2>2, <3>1
      <4>2. T = {k}
        BY <1>2, <1>5, <4>1
      <4>3. Cardinality(T) = 1
        BY <4>2, FS_Singleton
      <4>. QED
        BY <3>1, <4>3, SizeOfRows DEF Queue!Times
    <3>2. CASE Songs[i].album # query.id
      <4>1. T = {}
        BY <1>2, <2>2, <3>2
      <4>2. Cardinality(T) = 0
        BY <4>1, FS_EmptySet
      <4>. QED
        BY <3>2, <4>2, SizeOfRows DEF Queue!Times
    <3>. QED
      BY <3>1, <3>2
  <2>. QED
    BY <2>1, <2>3, <2>4, <2>5
<1>7. ask.verb = "song" => Len(queue) = 1 /\ (ask.by = "id" => queue[1] = ask.id)
  <2>. SUFFICES ASSUME ask.verb = "song" PROVE Len(queue) = 1 /\ (ask.by = "id" => queue[1] = ask.id)
    OBVIOUS
  <2>1. query.source = "track" /\ query.id = Queue!Resolved(ask)
    BY <1>5
  <2>2. \A k \in 1 .. Len(queue) : queue[k] = query.id
    BY <1>5, <2>1 DEF Fits
  <2>3. ~(2 \in 1 .. Len(queue))
    BY <1>2, <1>5, <2>2
  <2>4. ask.by = "id" => Queue!Resolved(ask) = ask.id
    BY DEF Queue!Resolved
  <2>. QED
    BY <1>2, <2>1, <2>2, <2>3, <2>4
<1>8. ask.verb = "playlist" => /\ \A i \in Queue!Id : Queue!Times(queue, i) = Queue!Times(Playlist, i)
                               /\ ~ask.shuffle => queue = Playlist
  <2>1. ask.verb = "playlist" => query.source = "playlist" /\ BuiltInOrder(query, queue)
    BY <1>4 DEF Queue!SourceOf, Queue!Sources
  <2>. QED
    BY <2>1, PlayedQueue
<1>9. ~ask.shuffle /\ ask.verb \in {"album", "all", "artist", "popular"} =>
         \A j, k \in DOMAIN queue : j < k => queue[j] < queue[k]
  <2>. SUFFICES ASSUME ~ask.shuffle, ask.verb \in {"album", "all", "artist", "popular"}
                PROVE  \A j, k \in 1 .. Len(queue) : j < k => queue[j] < queue[k]
    BY <1>2
  <2>1. ask.verb \in Queue!Sources \ {"mix"} /\ Queue!SourceOf(ask.verb) # "playlist"
    BY DEF Queue!Sources, Queue!SourceOf
  <2>. QED
    BY <1>4, <2>1, PlayedQueue
<1>10. ASSUME ask.verb \in {"all", "artist", "popular"}
       PROVE  /\ query.source = ask.verb /\ query.id = Queue!Resolved(ask)
              /\ \A k \in 1 .. Len(queue) : Fits(query, queue[k])
              /\ \A i \in Queue!Id : Fits(query, i) =>
                     \E k \in 1 .. Len(queue) : Queue!SongOf(queue[k]) = Queue!SongOf(i)
              /\ ask.shuffle => \A j, k \in 1 .. Len(queue) :
                     Queue!SongOf(queue[j]) = Queue!SongOf(queue[k]) => j = k
  <2>1. /\ ask.verb \in Queue!Sources \ {"mix"} /\ Queue!SourceOf(ask.verb) = ask.verb
        /\ ask.verb \in Queue!Sweeps /\ ask.verb # "playlist"
    BY <1>10 DEF Queue!Sources, Queue!SourceOf, Queue!Sweeps
  <2>. QED
    BY <1>4, <2>1, PlayedQueue
<1>11. ask.shuffle /\ ask.verb \in {"all", "artist", "popular"} => Queue!OncePerSong
  BY <1>2, <1>10 DEF Queue!OncePerSong
<1>12. ask.verb = "all" => {Queue!SongOf(queue[k]) : k \in DOMAIN queue} = {Queue!SongOf(i) : i \in Queue!Id}
  <2>. SUFFICES ASSUME ask.verb = "all"
                PROVE  {Queue!SongOf(queue[k]) : k \in DOMAIN queue} = {Queue!SongOf(i) : i \in Queue!Id}
    OBVIOUS
  <2>1. query.source = "all"
    BY <1>10
  <2>2. \A i \in Queue!Id : Fits(query, i)
    BY <2>1 DEF Fits
  <2>3. \A i \in Queue!Id : \E k \in DOMAIN queue : Queue!SongOf(queue[k]) = Queue!SongOf(i)
    BY <1>2, <1>10, <2>2
  <2>. QED
    BY <1>2, <2>3
<1>13. ask.verb = "artist" /\ ask.by = "id" =>
          {Queue!SongOf(queue[k]) : k \in DOMAIN queue} = {Queue!SongOf(i) : i \in Queue!Of(ask.id)}
  <2>. SUFFICES ASSUME ask.verb = "artist", ask.by = "id"
                PROVE  {Queue!SongOf(queue[k]) : k \in DOMAIN queue} = {Queue!SongOf(i) : i \in Queue!Of(ask.id)}
    OBVIOUS
  <2>1. query.id = ask.id
    BY <1>10 DEF Queue!Resolved
  <2>2. \A i \in Queue!Id : Fits(query, i) <=> i \in Queue!Of(ask.id)
    BY <1>10, <2>1 DEF Fits, Queue!Of
  <2>3. Queue!Of(ask.id) \subseteq Queue!Id
    BY DEF Queue!Of
  <2>. QED
    BY <1>2, <1>10, <2>2, <2>3
<1>14. ask.verb \in {"mix", "radio"} =>
          /\ Queue!OncePerSong /\ Len(queue) <= MixTarget
          /\ Len(queue) = MixTarget \/ Queue!Drawable = {}
          /\ \A a \in Queue!Artist : Queue!Taken(a) <= IF a = Queue!SeedArtist THEN MixSeedCap ELSE MixCap
  <2>. SUFFICES ASSUME ask.verb \in {"mix", "radio"}
                PROVE  /\ Queue!OncePerSong /\ Len(queue) <= MixTarget
                       /\ Len(queue) = MixTarget \/ Queue!Drawable = {}
                       /\ \A a \in Queue!Artist : Queue!Taken(a) <= IF a = Queue!SeedArtist THEN MixSeedCap ELSE MixCap
    OBVIOUS
  <2>1. query.source \in Mixes
    BY <1>1 DEF AskedOf, Queue!Sources, Queue!SourceOf, Mixes
  <2>. QED
    BY <1>1, <1>2, <2>1 DEF Mixed, CapOf, Queue!OncePerSong
<1>. QED
  BY <1>1, <1>6, <1>7, <1>8, <1>9, <1>11, <1>12, <1>13, <1>14, Zenon DEF Queue!QueueHoldsWhatWasAsked

LEMMA QueueTurn ==
  ASSUME [Next]_vars, part' = "queue" PROVE part = "queue" /\ [Queue!Next]_(Queue!vars)
<1>1. CASE Next
  BY <1>1 DEF Next, Turn
<1>2. CASE UNCHANGED vars
  BY <1>2 DEF vars, sharedVars, queueVars, Queue!vars
<1>. QED
  BY <1>1, <1>2

(* What plays is what was asked for, for any catalog, playlist, similar    *)
(* artists and question (cmd/hesplay, web/handlers_music.go,               *)
(* handlers_music_mix.go): an album, a song and a playlist whole, in order *)
(* unless the client shuffles them, a shuffled sweep each song once, a mix *)
(* no song twice and nobody above the cap, ending early only when nobody   *)
(* below it is left.                                                       *)
THEOREM QueuesHoldWhatWasAsked ==
  ASSUME CatalogKnown
  PROVE  Spec => []QueueHoldsWhatWasAsked
<1>. DEFINE Inv == part = "queue" => QueueInv
<1>1. Init => Inv
  BY QueueInit DEF Init, Begun
<1>2. Inv /\ [Next]_vars => Inv'
  <2>1. ASSUME [Next]_vars, part' = "queue" PROVE part = "queue" /\ [Queue!Next]_(Queue!vars)
    BY <2>1, QueueTurn
  <2>. QED
    BY <2>1, QueueStep
<1>3. Inv => QueueHoldsWhatWasAsked
  BY QueueKeepsPromise DEF QueueHoldsWhatWasAsked
<1>. QED
  BY <1>1, <1>2, <1>3, PTL DEF Spec

-----------------------------------------------------------------------------
(* A preset as a person may write it: any words and numbers.               *)
PresetsKnown ==
    NoisePresets \subseteq [type : STRING, type2 : STRING, floor : STRING, wave : Int, wave2 : Int,
                            offset2 : Int, floorWave : Int, floorOffset : Int, fade : Int]

(* What joining two chains does to the numbers of an effect.               *)
Words == {"synth", "tremolo", "trim", "mix", "band", "reverb", "gain", "fade", "repeat"}
Effects == Words \X Int
Numbers(s, fx) == {s[i][2] : i \in Chain!Positions(s, fx)}
Lone(s, fx) == \A i, j \in Chain!Positions(s, fx) : i = j
LEMMA AmongNumbers ==
  ASSUME NEW s, NEW fx
  PROVE  /\ \A x : x \in Numbers(s, fx) <=> \E i \in DOMAIN s : s[i][1] = fx /\ s[i][2] = x
         /\ Numbers(s, fx) = {} <=> \A i \in DOMAIN s : s[i][1] # fx
         /\ Numbers(s, fx) = {} <=> Chain!Positions(s, fx) = {}
BY Zenon DEF Numbers, Chain!Positions

LEMMA Joined ==
  ASSUME NEW s \in Seq(Effects), NEW t \in Seq(Effects), NEW fx
  PROVE  /\ s \o t \in Seq(Effects)
         /\ s # <<>> => s \o t # <<>> /\ (s \o t)[1] = s[1]
         /\ Numbers(s \o t, fx) = Numbers(s, fx) \cup Numbers(t, fx)
         /\ Numbers(t, fx) = {} /\ Lone(s, fx) => Lone(s \o t, fx)
         /\ Numbers(s, fx) = {} /\ Lone(t, fx) => Lone(s \o t, fx)
<1>. DEFINE u == s \o t
            m == Len(s)
            n == Len(t)
<1>1. /\ m \in Nat /\ n \in Nat /\ DOMAIN s = 1 .. m /\ DOMAIN t = 1 .. n
      /\ u \in Seq(Effects) /\ Len(u) = m + n /\ DOMAIN u = 1 .. m + n
      /\ \A i \in 1 .. m + n : u[i] = IF i <= m THEN s[i] ELSE t[i - m]
  BY ConcatProperties, LenProperties
<1>2. s # <<>> => m # 0 /\ u[1] = s[1] /\ u # <<>>
  <2>1. s # <<>> => m \in Nat \ {0}
    BY EmptySeq
  <2>2. s # <<>> => Len(u) # 0 /\ u[1] = s[1]
    BY <1>1, <2>1
  <2>. QED
    BY <1>1, <2>1, <2>2, EmptySeq
<1>. HIDE DEF u
<1>3. /\ \A i \in 1 .. m : i \in 1 .. m + n /\ u[i] = s[i]
      /\ \A i \in 1 .. n : m + i \in 1 .. m + n /\ u[m + i] = t[i]
      /\ \A i \in 1 .. m + n : i \in 1 .. m \/ \E k \in 1 .. n : i = m + k
  <2>1. \A i \in 1 .. m : i \in 1 .. m + n /\ u[i] = s[i]
    BY <1>1
  <2>2. \A i \in 1 .. n : m + i \in 1 .. m + n /\ ~(m + i <= m) /\ (m + i) - m = i
    BY <1>1
  <2>3. \A i \in 1 .. n : m + i \in 1 .. m + n /\ u[m + i] = t[i]
    BY <1>1, <2>2
  <2>4. ASSUME NEW i \in 1 .. m + n, i \notin 1 .. m PROVE \E k \in 1 .. n : i = m + k
    <3>1. i - m \in 1 .. n /\ i = m + (i - m)
      BY <1>1, <2>4
    <3>. QED
      BY <3>1
  <2>. QED
    BY <2>1, <2>3, <2>4
<1>30. \A i \in DOMAIN u : \/ i \in DOMAIN s /\ u[i] = s[i]
                           \/ \E k \in DOMAIN t : i = m + k /\ u[i] = t[k]
  <2>1. ASSUME NEW i \in DOMAIN u, ~(i \in DOMAIN s /\ u[i] = s[i])
        PROVE  \E k \in DOMAIN t : i = m + k /\ u[i] = t[k]
    <3>1. i \in 1 .. m + n /\ i \notin 1 .. m
      BY <1>1, <1>3, <2>1
    <3>2. PICK k \in 1 .. n : i = m + k
      BY <1>3, <3>1
    <3>3. u[m + k] = t[k] /\ k \in DOMAIN t
      BY <1>1, <1>3
    <3>. QED
      BY <3>2, <3>3
  <2>. QED
    BY <2>1, Zenon
<1>4. Numbers(u, fx) = Numbers(s, fx) \cup Numbers(t, fx)
  <2>1. ASSUME NEW x \in Numbers(u, fx) PROVE x \in Numbers(s, fx) \cup Numbers(t, fx)
    <3>1. PICK i \in DOMAIN u : u[i][1] = fx /\ u[i][2] = x
      BY <2>1, AmongNumbers
    <3>2. \/ i \in DOMAIN s /\ u[i] = s[i]
          \/ \E k \in DOMAIN t : u[i] = t[k]
      BY <1>30
    <3>. QED
      BY <3>1, <3>2, AmongNumbers
  <2>2. ASSUME NEW x \in Numbers(s, fx) PROVE x \in Numbers(u, fx)
    <3>1. PICK i \in DOMAIN s : s[i][1] = fx /\ s[i][2] = x
      BY <2>2, AmongNumbers
    <3>2. i \in DOMAIN u /\ u[i] = s[i]
      BY <1>1, <1>3
    <3>. QED
      BY <3>1, <3>2, AmongNumbers
  <2>3. ASSUME NEW x \in Numbers(t, fx) PROVE x \in Numbers(u, fx)
    <3>1. PICK i \in DOMAIN t : t[i][1] = fx /\ t[i][2] = x
      BY <2>3, AmongNumbers
    <3>2. m + i \in DOMAIN u /\ u[m + i] = t[i]
      BY <1>1, <1>3
    <3>. QED
      BY <3>1, <3>2, AmongNumbers
  <2>. QED
    BY <2>1, <2>2, <2>3
<1>5. ASSUME Numbers(t, fx) = {} PROVE Chain!Positions(u, fx) = Chain!Positions(s, fx)
  <2>1. \A k \in DOMAIN t : t[k][1] # fx
    BY <1>5, AmongNumbers
  <2>2. \A i \in DOMAIN u : (i \in DOMAIN s /\ u[i] = s[i]) \/ \E k \in DOMAIN t : u[i] = t[k]
    BY <1>30
  <2>3. \A i \in DOMAIN s : i \in DOMAIN u /\ u[i] = s[i]
    BY <1>1, <1>3
  <2>. QED
    BY <2>1, <2>2, <2>3 DEF Chain!Positions
<1>6. ASSUME Numbers(s, fx) = {}, Lone(t, fx) PROVE Lone(u, fx)
  <2>1. \A k \in DOMAIN s : s[k][1] # fx
    BY <1>6, AmongNumbers
  <2>2. \A i \in DOMAIN u : (i \in DOMAIN s /\ u[i] = s[i]) \/ \E k \in DOMAIN t : i = m + k /\ u[i] = t[k]
    BY <1>30
  <2>3. \A i \in Chain!Positions(u, fx) : \E k \in Chain!Positions(t, fx) : i = m + k
    BY <2>1, <2>2, Zenon DEF Chain!Positions
  <2>. QED
    BY <1>6, <2>3 DEF Lone
<1>. QED
  BY <1>1, <1>2, <1>4, <1>5, <1>6 DEF Lone, u

LEMMA AnEffect ==
  ASSUME NEW fx \in Words, NEW n \in Int
  PROVE  <<fx, n>> \in Effects /\ <<fx, n>>[1] = fx /\ <<fx, n>>[2] = n
BY DEF Effects
LEMMA OneEffect ==
  ASSUME NEW e \in Effects
  PROVE  /\ <<e>> \in Seq(Effects) /\ <<e>> # <<>> /\ <<e>>[1] = e
         /\ \A fx : Numbers(<<e>>, fx) = IF e[1] = fx THEN {e[2]} ELSE {}
         /\ \A fx : Lone(<<e>>, fx)
BY DEF Numbers, Lone, Chain!Positions
LEMMA NoEffect ==
  <<>> \in Seq(Effects) /\ \A fx : Numbers(<<>>, fx) = {} /\ Lone(<<>>, fx)
BY EmptySeq DEF Numbers, Lone, Chain!Positions
LEMMA TwoEffects ==
  ASSUME NEW d \in Effects, NEW e \in Effects
  PROVE  /\ <<d, e>> \in Seq(Effects)
         /\ \A fx : Numbers(<<d, e>>, fx)
                      = (IF d[1] = fx THEN {d[2]} ELSE {}) \cup (IF e[1] = fx THEN {e[2]} ELSE {})
         /\ \A fx : d[1] # fx /\ e[1] # fx => Lone(<<d, e>>, fx)
BY DEF Numbers, Lone, Chain!Positions

(* A chain with one repeat: what stands before it is replayed. *)
Alone(n) == IF n = 0 THEN {} ELSE {n}
Replays(c, B, R, cut) ==
    /\ c[Chain!Max(Chain!Positions(c, "repeat"))][2] = R
    /\ \A i, j \in Chain!Positions(c, "trim") : i = j
    /\ Chain!Before(c, "fade") = {}
    /\ Chain!Swells(c) = Numbers(B, "tremolo")
    /\ Chain!LoopLen(c) = B[1][2] - cut
LEMMA RepeatedChain ==
  ASSUME NEW B \in Seq(Effects), NEW T \in Seq(Effects), NEW R \in Int, NEW cut,
         B # <<>>, Numbers(B, "repeat") = {}, Numbers(B, "fade") = {}, Lone(B, "trim"),
         Numbers(B, "trim") = Alone(cut),
         Numbers(T, "repeat") = {}, Numbers(T, "tremolo") = {}, Numbers(T, "trim") = {}
  PROVE  Replays((B \o << <<"repeat", R>> >>) \o T, B, R, cut)
<1>. DEFINE e == <<"repeat", R>>
            A == B \o <<e>>
            c == A \o T
            m == Len(B)
            n == Len(T)
<1>1. /\ <<e>> \in Seq(Effects) /\ Len(<<e>>) = 1 /\ <<e>>[1] = e /\ e[1] = "repeat" /\ e[2] = R
      /\ e \in Effects
  <2>0. R \in Int
    OBVIOUS
  <2>2. "repeat" \in Words
    BY DEF Words
  <2>1. e \in Effects /\ e[1] = "repeat" /\ e[2] = R
    BY <2>0, <2>2, AnEffect, Zenon
  <2>. HIDE DEF e
  <2>. QED
    BY <2>1
<1>. HIDE DEF e
<1>2. /\ A \in Seq(Effects) /\ Len(A) = m + 1 /\ m \in Nat
      /\ \A i \in 1 .. m + 1 : A[i] = IF i <= m THEN B[i] ELSE <<e>>[i - m]
  BY <1>1, ConcatProperties, LenProperties
<1>. HIDE DEF A
<1>3. /\ c \in Seq(Effects) /\ Len(c) = (m + 1) + n /\ n \in Nat /\ DOMAIN c = 1 .. (m + 1) + n
      /\ \A i \in 1 .. (m + 1) + n : c[i] = IF i <= m + 1 THEN A[i] ELSE T[i - (m + 1)]
      /\ DOMAIN B = 1 .. m /\ DOMAIN T = 1 .. n
  <2>1. n \in Nat /\ DOMAIN T = 1 .. n /\ DOMAIN B = 1 .. m
    BY LenProperties
  <2>2. /\ c \in Seq(Effects) /\ Len(c) = (m + 1) + n
        /\ \A i \in 1 .. (m + 1) + n : c[i] = IF i <= m + 1 THEN A[i] ELSE T[i - (m + 1)]
    <3>1. /\ A \o T \in Seq(Effects) /\ Len(A \o T) = Len(A) + Len(T)
          /\ \A i \in 1 .. Len(A) + Len(T) : (A \o T)[i] = IF i <= Len(A) THEN A[i] ELSE T[i - Len(A)]
      BY <1>2, ConcatProperties
    <3>. QED
      BY <1>2, <3>1
  <2>3. DOMAIN c = 1 .. (m + 1) + n
    BY <2>2, LenProperties
  <2>. QED
    BY <2>1, <2>2, <2>3
<1>. HIDE DEF c
<1>4. \A i \in 1 .. m : i \in DOMAIN c /\ c[i] = B[i] /\ i < m + 1
  BY <1>2, <1>3
<1>5. m + 1 \in DOMAIN c /\ c[m + 1] = e
  <2>1. m + 1 \in 1 .. m + 1 /\ ~(m + 1 <= m) /\ (m + 1) - m = 1 /\ m + 1 \in 1 .. (m + 1) + n
    BY <1>2, <1>3
  <2>2. A[m + 1] = <<e>>[(m + 1) - m]
    BY <1>2, <2>1
  <2>. QED
    BY <1>1, <1>3, <2>1, <2>2
<1>6. ASSUME NEW i \in DOMAIN c, i \notin 1 .. m + 1
      PROVE  i - (m + 1) \in DOMAIN T /\ c[i] = T[i - (m + 1)] /\ m + 1 < i
  BY <1>2, <1>3, <1>6
<1>7. /\ \A i \in DOMAIN B : B[i][1] \notin {"repeat", "fade"}
      /\ \A i \in DOMAIN T : T[i][1] \notin {"repeat", "tremolo", "trim"}
  BY AmongNumbers
<1>8. Chain!Positions(c, "repeat") = {m + 1}
  BY <1>1, <1>2, <1>3, <1>4, <1>5, <1>6, <1>7 DEF Chain!Positions
<1>9. ASSUME NEW fx \in {"tremolo", "trim"} PROVE Chain!Positions(c, fx) = Chain!Positions(B, fx)
  BY <1>1, <1>2, <1>3, <1>4, <1>5, <1>6, <1>7 DEF Chain!Positions
<1>10. \A fx : Chain!Before(c, fx) = {i \in Chain!Positions(c, fx) : i < m + 1}
  BY <1>8 DEF Chain!Before
<1>11. Chain!Before(c, "fade") = {}
  BY <1>2, <1>3, <1>4, <1>7, <1>10 DEF Chain!Positions
<1>12. Chain!Before(c, "tremolo") = Chain!Positions(B, "tremolo")
  <2>1. \A i \in Chain!Positions(B, "tremolo") : i < m + 1
    BY <1>3, <1>4 DEF Chain!Positions
  <2>. QED
    BY <1>9, <1>10, <2>1
<1>13. Chain!Swells(c) = Numbers(B, "tremolo")
  <2>1. \A i \in Chain!Positions(B, "tremolo") : c[i] = B[i]
    BY <1>3, <1>4 DEF Chain!Positions
  <2>. QED
    BY <1>12, <2>1 DEF Chain!Swells, Numbers
<1>14. Chain!Cut(c) = cut
  <2>1. CASE Chain!Positions(B, "trim") = {}
    <3>1. Numbers(B, "trim") = {}
      BY <2>1 DEF Numbers
    <3>. QED
      BY <1>9, <2>1, <3>1 DEF Chain!Cut, Alone
  <2>2. CASE Chain!Positions(B, "trim") # {}
    <3>1. PICK i \in Chain!Positions(B, "trim") : TRUE
      BY <2>2
    <3>2. Chain!Positions(B, "trim") = {i}
      BY <3>1 DEF Lone
    <3>3. Numbers(B, "trim") = {B[i][2]}
      BY <3>2 DEF Numbers
    <3>4. B[i][2] = cut
      BY <3>3 DEF Alone
    <3>5. i \in 1 .. m /\ c[i] = B[i] /\ i \in Nat
      BY <1>3, <1>4, <3>1 DEF Chain!Positions
    <3>6. Chain!Max({i}) = i
      BY <3>5 DEF Chain!Max
    <3>. QED
      BY <1>9, <3>2, <3>4, <3>5, <3>6 DEF Chain!Cut
  <2>. QED
    BY <2>1, <2>2
<1>15. c[1] = B[1]
  <2>1. m # 0
    BY EmptySeq
  <2>. QED
    BY <1>2, <1>4, <2>1
<1>16. Chain!Max({m + 1}) = m + 1
  BY <1>2 DEF Chain!Max
<1>17. \A i, j \in Chain!Positions(c, "trim") : i = j
  BY <1>9 DEF Lone
<1>18. c = (B \o << <<"repeat", R>> >>) \o T
  BY DEF c, A, e
<1>19. Replays(c, B, R, cut)
  BY <1>1, <1>5, <1>8, <1>11, <1>13, <1>14, <1>15, <1>16, <1>17 DEF Chain!LoopLen, Replays
<1>. QED
  BY <1>18, <1>19

(* A piece of a chain that neither repeats nor fades: its swells, and what *)
(* it trims.                                                               *)
Piece(s, swells, trims) ==
    /\ s \in Seq(Effects) /\ Numbers(s, "repeat") = {} /\ Numbers(s, "fade") = {}
    /\ Numbers(s, "tremolo") = swells /\ Numbers(s, "trim") = trims /\ Lone(s, "trim")
LEMMA PiecesJoin ==
  ASSUME NEW s, NEW t, NEW a, NEW b, NEW c, NEW d,
         Piece(s, a, b), Piece(t, c, d), b = {} \/ d = {}
  PROVE  Piece(s \o t, a \cup c, b \cup d)
<1>1. s \in Seq(Effects) /\ t \in Seq(Effects)
  BY DEF Piece
<1>2. /\ s \o t \in Seq(Effects)
      /\ \A fx : Numbers(s \o t, fx) = Numbers(s, fx) \cup Numbers(t, fx)
  BY <1>1, Joined
<1>3. Lone(s \o t, "trim")
  <2>1. CASE b = {}
    <3>1. Numbers(s, "trim") = {} /\ Lone(t, "trim")
      BY <2>1 DEF Piece
    <3>. QED
      BY <1>1, <3>1, Joined
  <2>2. CASE d = {}
    <3>1. Numbers(t, "trim") = {} /\ Lone(s, "trim")
      BY <2>2 DEF Piece
    <3>. QED
      BY <1>1, <3>1, Joined
  <2>. QED
    BY <2>1, <2>2
<1>. QED
  BY <1>2, <1>3 DEF Piece
LEMMA PlainPieces ==
  ASSUME NEW fx \in Words \ {"repeat", "fade", "tremolo", "trim"}, NEW n \in Int
  PROVE  Piece(<< <<fx, n>> >>, {}, {})
<1>1. <<fx, n>> \in Effects /\ <<fx, n>>[1] = fx
  BY AnEffect
<1>. QED
  BY <1>1, OneEffect DEF Piece
LEMMA SwellPiece == ASSUME NEW n \in Int PROVE Piece(<< <<"tremolo", n>> >>, {n}, {})
<1>1. <<"tremolo", n>> \in Effects /\ <<"tremolo", n>>[1] = "tremolo" /\ <<"tremolo", n>>[2] = n
  BY AnEffect DEF Words
<1>. QED
  BY <1>1, OneEffect DEF Piece
LEMMA TrimPiece ==
  ASSUME NEW n \in Int, NEW c \in BOOLEAN
  PROVE  Piece(Chain!If(c, <<"trim", n>>), {}, IF c THEN {n} ELSE {})
<1>1. <<"trim", n>> \in Effects /\ <<"trim", n>>[1] = "trim" /\ <<"trim", n>>[2] = n
  BY AnEffect DEF Words
<1>2. Piece(<< <<"trim", n>> >>, {}, {n})
  BY <1>1, OneEffect DEF Piece
<1>3. Piece(<<>>, {}, {})
  BY NoEffect DEF Piece
<1>. QED
  BY <1>2, <1>3 DEF Chain!If
LEMMA TwoPlain ==
  ASSUME NEW fx \in Words \ {"repeat", "fade", "tremolo", "trim"},
         NEW gx \in Words \ {"repeat", "fade", "trim"}, NEW m \in Int, NEW n \in Int
  PROVE  Piece(<< <<fx, m>>, <<gx, n>> >>, IF gx = "tremolo" THEN {n} ELSE {}, {})
<1>1. /\ <<fx, m>> \in Effects /\ <<fx, m>>[1] = fx
      /\ <<gx, n>> \in Effects /\ <<gx, n>>[1] = gx /\ <<gx, n>>[2] = n
  BY AnEffect
<1>. DEFINE s == << <<fx, m>>, <<gx, n>> >>
<1>2. s \in Seq(Effects) /\ fx \notin {"repeat", "fade", "tremolo", "trim"} /\ gx \notin {"repeat", "fade", "trim"}
  BY <1>1, TwoEffects
<1>3. \A y : Numbers(s, y) = (IF fx = y THEN {m} ELSE {}) \cup (IF gx = y THEN {n} ELSE {})
  <2>1. <<fx, m>>[2] = m
    OBVIOUS
  <2>. QED
    BY <1>1, <2>1, TwoEffects
<1>4. Lone(s, "trim")
  BY <1>1, <1>2, TwoEffects
<1>. HIDE DEF s
<1>5. /\ Numbers(s, "repeat") = {} /\ Numbers(s, "fade") = {} /\ Numbers(s, "trim") = {}
      /\ Numbers(s, "tremolo") = IF gx = "tremolo" THEN {n} ELSE {}
  BY <1>2, <1>3
<1>6. Piece(s, IF gx = "tremolo" THEN {n} ELSE {}, {})
  BY <1>2, <1>4, <1>5 DEF Piece
<1>. QED
  BY <1>6 DEF s

SwellPeriod == 10 .. 2000

(* What normalize leaves: swells in their range, and no offset of a swell  *)
(* that is off.                                                            *)
Normal(q) ==
    /\ q.wave \in SwellPeriod /\ q.wave2 \in {0} \cup SwellPeriod /\ q.floorWave \in {0} \cup SwellPeriod
    /\ q.offset2 \in 0 .. 600 /\ q.floorOffset \in 0 .. 600 /\ q.fade \in Int
    /\ q.wave2 = 0 => q.offset2 = 0 /\ q.type2 = "none"
    /\ q.floorWave = 0 => q.floorOffset = 0
LEMMA NormalNumbers ==
  ASSUME NEW q, Normal(q)
  PROVE  /\ q.wave \in Nat \ {0} /\ q.wave2 \in Nat /\ q.floorWave \in Nat
         /\ q.offset2 \in Nat /\ q.floorOffset \in Nat /\ q.fade \in Int
<1>1. SwellPeriod \subseteq Nat \ {0} /\ 0 .. 600 \subseteq Nat
  BY DEF SwellPeriod
<1>2. /\ q.wave \in SwellPeriod /\ q.wave2 \in {0} \cup SwellPeriod
      /\ q.floorWave \in {0} \cup SwellPeriod /\ q.fade \in Int
      /\ q.offset2 \in 0 .. 600 /\ q.floorOffset \in 0 .. 600
  BY Zenon DEF Normal
<1>3. q.wave \in Nat \ {0} /\ q.fade \in Int
  BY <1>1, <1>2, Zenon
<1>4. 0 \in Nat
  OBVIOUS
<1>5. q.wave2 \in Nat /\ q.floorWave \in Nat
  BY <1>1, <1>2, <1>4, Zenon
<1>6. q.offset2 \in Nat /\ q.floorOffset \in Nat
  BY <1>1, <1>2, Zenon
<1>. QED
  BY <1>3, <1>5, <1>6, Zenon
LEMMA NormalizeClamps ==
  ASSUME PresetsKnown, NEW p \in NoisePresets PROVE Normal(Chain!Normalize(p))
<1>1. /\ p.wave \in Int /\ p.wave2 \in Int /\ p.offset2 \in Int
      /\ p.floorWave \in Int /\ p.floorOffset \in Int /\ p.fade \in Int
      /\ p \in [type : STRING, type2 : STRING, floor : STRING, wave : Int, wave2 : Int,
                offset2 : Int, floorWave : Int, floorOffset : Int, fade : Int]
  BY DEF PresetsKnown
<1>2. \A v \in Int : Chain!Clamp(v, 0, 600) \in 0 .. 600
  BY DEF Chain!Clamp
<1>3. ASSUME NEW v \in Int, NEW d \in Int PROVE Chain!Period(v, d) \in SwellPeriod
  <2>. DEFINE w == IF v = 0 THEN d ELSE v
  <2>1. w \in Int
    OBVIOUS
  <2>2. Chain!Period(v, d) = Chain!Clamp(w, 10, 2000)
    BY DEF Chain!Period, Chain!MinPeriod, Chain!MaxPeriod
  <2>. HIDE DEF w
  <2>3. Chain!Clamp(w, 10, 2000) \in 10 .. 2000
    BY <2>1 DEF Chain!Clamp
  <2>. QED
    BY <2>2, <2>3 DEF SwellPeriod
<1>. DEFINE slow == IF p.wave2 = 0 /\ p.type2 # "none" THEN 100
                    ELSE IF p.wave2 = 0 THEN 0 ELSE Chain!Period(p.wave2, 0)
            breath == IF p.floor = "none" \/ p.floorWave = 0 THEN 0 ELSE Chain!Period(p.floorWave, 0)
            q == Chain!Normalize(p)
<1>30. /\ Chain!Period(p.wave2, 0) \in SwellPeriod /\ Chain!Period(p.floorWave, 0) \in SwellPeriod
       /\ Chain!Period(p.wave, 25) \in SwellPeriod
  <2>1. 0 \in Int /\ 25 \in Int
    OBVIOUS
  <2>2. \A v, d \in Int : Chain!Period(v, d) \in SwellPeriod
    BY <1>3
  <2>3. Chain!Period(p.wave2, 0) \in SwellPeriod
    BY <1>1, <2>1, <2>2
  <2>4. Chain!Period(p.floorWave, 0) \in SwellPeriod
    BY <1>1, <2>1, <2>2
  <2>5. Chain!Period(p.wave, 25) \in SwellPeriod
    BY <1>1, <2>1, <2>2
  <2>. QED
    BY <2>3, <2>4, <2>5
<1>4. slow \in {0} \cup SwellPeriod /\ (slow = 0 => p.type2 = "none")
  <2>1. 100 \in SwellPeriod /\ 0 \notin SwellPeriod
    BY DEF SwellPeriod
  <2>. QED
    BY <1>30, <2>1
<1>5. breath \in {0} \cup SwellPeriod
  BY <1>30
<1>6. /\ q.wave = Chain!Period(p.wave, 25) /\ q.wave2 = slow /\ q.type2 = p.type2
      /\ q.offset2 = IF slow = 0 THEN 0 ELSE Chain!Clamp(p.offset2, 0, 600)
      /\ q.floorWave = breath /\ q.fade = p.fade
      /\ q.floorOffset = IF breath = 0 THEN 0 ELSE Chain!Clamp(p.floorOffset, 0, 600)
  BY <1>1 DEF Chain!Normalize, Chain!MaxBuffer
<1>. HIDE DEF slow, breath, q
<1>7. q.wave \in SwellPeriod /\ q.wave2 \in {0} \cup SwellPeriod /\ q.floorWave \in {0} \cup SwellPeriod
  BY <1>4, <1>5, <1>6, <1>30
<1>8. q.offset2 \in 0 .. 600 /\ q.floorOffset \in 0 .. 600
  <2>1. Chain!Clamp(p.offset2, 0, 600) \in 0 .. 600 /\ Chain!Clamp(p.floorOffset, 0, 600) \in 0 .. 600
    BY <1>1, <1>2, Zenon
  <2>. QED
    BY <1>6, <2>1
<1>. QED
  BY <1>1, <1>4, <1>6, <1>7, <1>8 DEF Normal, q

-----------------------------------------------------------------------------
(* A whole number of periods is divided by the period, and so many replays *)
(* of a loop as fit, rounded up, reach the cap.                            *)
LEMMA Rounding ==
  ASSUME NEW a \in Nat \ {0}, NEW b \in Nat \ {0}
  PROVE  /\ Chain!CeilDiv(a, b) \in Nat \ {0}
         /\ Chain!CeilDiv(a, b) * b >= a /\ Chain!CeilDiv(a, b) * b < a + b
<1>. DEFINE k == (a + b - 1) \div b
            r == (a + b - 1) % b
<1>1. k \in Int /\ r \in 0 .. b - 1 /\ a + b - 1 = b * k + r
  OBVIOUS
<1>2. Chain!CeilDiv(a, b) = k
  BY DEF Chain!CeilDiv
<1>. HIDE DEF k, r
<1>3. b * k >= a /\ b * k < a + b
  BY <1>1
<1>4. k > 0
  <2>1. CASE k <= 0
    <3>1. b * k <= 0
      BY <1>1, <2>1
    <3>. QED
      BY <1>1, <1>3, <3>1
  <2>. QED
    BY <1>1, <2>1
<1>5. k * b = b * k
  BY <1>1
<1>. QED
  BY <1>1, <1>2, <1>3, <1>4, <1>5

LEMMA MultipleLeavesNothing ==
  ASSUME NEW k \in Nat, NEW w \in Nat \ {0}
  PROVE  (k * w) % w = 0
<1>. DEFINE q == (k * w) \div w
            r == (k * w) % w
<1>0. k * w \in Nat
  OBVIOUS
<1>1. q \in Int /\ r \in 0 .. w - 1 /\ k * w = w * q + r
  BY <1>0
<1>. HIDE DEF q, r
<1>2. CASE q >= k + 1
  <2>1. w * (q - k) >= w
    BY <1>1, <1>2
  <2>2. w * (q - k) = w * q - k * w
    BY <1>1
  <2>. QED
    BY <1>1, <2>1, <2>2
<1>3. CASE q <= k - 1
  <2>1. w * (k - q) >= w
    BY <1>1, <1>3
  <2>2. w * (k - q) = k * w - w * q
    BY <1>1
  <2>. QED
    BY <1>1, <2>1, <2>2
<1>4. CASE q = k
  <2>1. w * q = k * w
    BY <1>4
  <2>2. r = 0
    BY <1>0, <1>1, <2>1
  <2>. QED
    BY <2>2 DEF r
<1>. QED
  BY <1>1, <1>2, <1>3, <1>4

(* A loop that is a whole number of a swell. *)
Holds(n, w) == n \in Nat /\ n >= 120 /\ n % w = 0
LEMMA WholeSwells ==
  ASSUME NEW w \in SwellPeriod
  PROVE  Holds(Chain!Whole(w), w) /\ Chain!Whole(w) < 120 + w
<1>. DEFINE k == Chain!CeilDiv(120, w)
<1>0. w \in 10 .. 2000
  BY DEF SwellPeriod
<1>2. Chain!Whole(w) = k * w
  BY DEF Chain!Whole, Chain!MinBuffer
<1>10. w \in Nat \ {0} /\ 120 \in Nat \ {0}
  BY <1>0
<1>11. \A a, b \in Nat \ {0} : /\ Chain!CeilDiv(a, b) \in Nat \ {0}
                              /\ Chain!CeilDiv(a, b) * b >= a /\ Chain!CeilDiv(a, b) * b < a + b
  BY Rounding
<1>1. k \in Nat \ {0} /\ k * w >= 120 /\ k * w < 120 + w
  BY <1>10, <1>11, Zenon
<1>. HIDE DEF k
<1>3. (k * w) % w = 0
  BY <1>0, <1>1, MultipleLeavesNothing
<1>4. k * w \in Nat
  BY <1>0, <1>1
<1>. QED
  BY <1>1, <1>2, <1>3, <1>4 DEF Holds

LEMMA LeastOfChain ==
  ASSUME NEW T, T \subseteq Nat, T # {}
  PROVE  Chain!Min(T) \in T
<1>1. \E m \in T : \A n \in T : m <= n
  BY Least
<1>. QED
  BY <1>1 DEF Chain!Min

(* A loop of two swells, as it is chosen. *)
Loops(slow) == {t \in 120 .. 600 : t % slow = 0}
CommonLoops(slow, fast) == {t \in Loops(slow) : t % fast = 0}
Chosen(n, slow, fast) ==
    n = IF slow > 600 THEN Chain!Whole(fast)
        ELSE IF CommonLoops(slow, fast) # {} THEN Chain!Min(CommonLoops(slow, fast))
        ELSE Chain!Min(Loops(slow))
LEMMA LoopOfTwo ==
  ASSUME NEW slow \in SwellPeriod, NEW fast \in SwellPeriod, NEW n, Chosen(n, slow, fast)
  PROVE  /\ Holds(n, slow) \/ Holds(n, fast)
         /\ CommonLoops(slow, fast) # {} => Holds(n, slow) /\ Holds(n, fast)
         /\ slow <= 600 => Holds(n, slow)
<1>0. slow \in 10 .. 2000 /\ fast \in 10 .. 2000
  BY DEF SwellPeriod
<1>1. CASE slow > 600
  <2>1. n = Chain!Whole(fast)
    BY <1>1 DEF Chosen
  <2>2. Holds(n, fast)
    BY <2>1, WholeSwells
  <2>3. \A t \in 120 .. 600 : t % slow = t /\ t # 0
    BY <1>0, <1>1
  <2>4. CommonLoops(slow, fast) = {}
    BY <2>3 DEF CommonLoops, Loops
  <2>5. ~(slow <= 600)
    BY <1>0, <1>1
  <2>. QED
    BY <2>2, <2>4, <2>5
<1>2. CASE slow \in 10 .. 600
  <2>1. \E t \in 120 .. 600 : t % slow = 0
    <3>1. CASE slow < 120
      <4>1. Holds(Chain!Whole(slow), slow) /\ Chain!Whole(slow) < 120 + slow
        BY WholeSwells
      <4>2. Chain!Whole(slow) \in 120 .. 600 /\ Chain!Whole(slow) % slow = 0
        BY <1>2, <3>1, <4>1 DEF Holds
      <4>. QED
        BY <4>2
    <3>2. CASE slow >= 120
      <4>1. slow \in 120 .. 600 /\ slow % slow = 0
        BY <1>2, <3>2
      <4>2. \E t \in 120 .. 600 : t = slow /\ t % slow = 0
        BY <4>1
      <4>. QED
        BY <4>2
    <3>. QED
      BY <1>2, <3>1, <3>2
  <2>2. Loops(slow) \subseteq Nat /\ Loops(slow) # {} /\ CommonLoops(slow, fast) \subseteq Loops(slow)
    BY <2>1 DEF Loops, CommonLoops
  <2>3. Chain!Min(Loops(slow)) \in Loops(slow)
    BY <2>2, LeastOfChain
  <2>4. CommonLoops(slow, fast) # {} => Chain!Min(CommonLoops(slow, fast)) \in CommonLoops(slow, fast)
    BY <2>2, LeastOfChain
  <2>5. n \in Loops(slow) /\ (CommonLoops(slow, fast) # {} => n \in CommonLoops(slow, fast))
    BY <1>2, <2>2, <2>3, <2>4 DEF Chosen
  <2>6. \A t \in Loops(slow) : Holds(t, slow)
    BY DEF Loops, Holds
  <2>7. \A t \in CommonLoops(slow, fast) : Holds(t, fast)
    BY DEF CommonLoops, Loops, Holds
  <2>. QED
    BY <2>5, <2>6, <2>7
<1>. QED
  BY <1>0, <1>1, <1>2

LEMMA CommonBuffer ==
  ASSUME NEW w \in SwellPeriod, NEW v \in SwellPeriod
  PROVE  LET n == Chain!Commensurate(w, v) IN
         /\ Holds(n, w) \/ Holds(n, v)
         /\ Chain!CommonLoop({w, v}) => Holds(n, w) /\ Holds(n, v)
         /\ w <= 600 /\ v <= w => Holds(n, w)
         /\ v <= 600 /\ w <= v => Holds(n, v)
<1>. DEFINE n == Chain!Commensurate(w, v)
<1>0. w \in 10 .. 2000 /\ v \in 10 .. 2000
  BY DEF SwellPeriod
<1>1. Chosen(n, Chain!Max({w, v}), Chain!Min({w, v}))
  BY DEF Chain!Commensurate, Chain!Whole, Chain!MinBuffer, Chain!MaxBuffer, Loops, CommonLoops, Chosen
<1>2. \A slow, fast : Chain!CommonLoop({slow, fast}) => CommonLoops(slow, fast) # {}
  <2>1. ASSUME NEW slow, NEW fast, Chain!CommonLoop({slow, fast}) PROVE CommonLoops(slow, fast) # {}
    <3>1. PICK t \in 120 .. 600 : \A period \in {slow, fast} : t % period = 0
      BY <2>1 DEF Chain!CommonLoop, Chain!MinBuffer, Chain!MaxBuffer
    <3>2. t \in CommonLoops(slow, fast)
      BY <3>1 DEF CommonLoops, Loops
    <3>. QED
      BY <3>2
  <2>. QED
    BY <2>1
<1>. HIDE DEF n
<1>3. CASE v <= w
  <2>1. Chain!Max({w, v}) = w /\ Chain!Min({w, v}) = v
    BY <1>0, <1>3 DEF Chain!Max, Chain!Min
  <2>2. Chosen(n, w, v)
    BY <1>1, <2>1
  <2>3. /\ Holds(n, w) \/ Holds(n, v)
        /\ CommonLoops(w, v) # {} => Holds(n, w) /\ Holds(n, v)
        /\ w <= 600 => Holds(n, w)
    BY <2>2, LoopOfTwo, Zenon
  <2>4. w <= v => w = v
    BY <1>0, <1>3
  <2>. QED
    BY <1>2, <2>3, <2>4 DEF n
<1>4. CASE w <= v
  <2>1. Chain!Max({w, v}) = v /\ Chain!Min({w, v}) = w
    BY <1>0, <1>4 DEF Chain!Max, Chain!Min
  <2>2. Chosen(n, v, w)
    BY <1>1, <2>1
  <2>3. /\ Holds(n, v) \/ Holds(n, w)
        /\ CommonLoops(v, w) # {} => Holds(n, v) /\ Holds(n, w)
        /\ v <= 600 => Holds(n, v)
    BY <2>2, LoopOfTwo, Zenon
  <2>4. v <= w => w = v
    BY <1>0, <1>4
  <2>5. {w, v} = {v, w}
    OBVIOUS
  <2>. QED
    BY <1>2, <2>3, <2>4, <2>5 DEF n
<1>. QED
  BY <1>0, <1>3, <1>4

(* What a loop owes to the swells in it. *)
LoopFor(n, swells) ==
    /\ n \in Nat /\ n >= 120
    /\ swells # {} => \E p \in swells : n % p = 0
    /\ Chain!CommonLoop(swells) => \A p \in swells : n % p = 0
    /\ \A p \in swells : p <= 600 /\ (\A q \in swells : q <= p) => n % p = 0
LEMMA LoopOfNone == LoopFor(120, {})
BY DEF LoopFor
LEMMA LoopOfOne ==
  ASSUME NEW w \in SwellPeriod PROVE LoopFor(Chain!Whole(w), {w})
BY WholeSwells DEF Holds, LoopFor
LEMMA LoopOfBoth ==
  ASSUME NEW w \in SwellPeriod, NEW v \in SwellPeriod
  PROVE  LoopFor(Chain!Commensurate(w, v), {w, v})
<1>. DEFINE n == Chain!Commensurate(w, v)
<1>1. /\ Holds(n, w) \/ Holds(n, v)
      /\ Chain!CommonLoop({w, v}) => Holds(n, w) /\ Holds(n, v)
      /\ w <= 600 /\ v <= w => Holds(n, w)
      /\ v <= 600 /\ w <= v => Holds(n, v)
  BY CommonBuffer
<1>. HIDE DEF n
<1>2. LoopFor(n, {w, v})
  BY <1>1 DEF Holds, LoopFor
<1>. QED
  BY <1>2 DEF n

LEMMA ReplaysReachTheCap ==
  ASSUME NEW n \in Nat \ {0}
  PROVE  Chain!Repeats(n) \in Int /\ (Chain!Repeats(n) + 1) * n >= Chain!SafetyCap
<1>. DEFINE cap == Chain!SafetyCap
            k == Chain!CeilDiv(cap, n)
<1>1. cap \in Nat \ {0}
  BY DEF Chain!SafetyCap
<1>2. Chain!Repeats(n) = k - 1
  BY DEF Chain!Repeats
<1>3. \A a, b \in Nat \ {0} : Chain!CeilDiv(a, b) \in Nat \ {0} /\ Chain!CeilDiv(a, b) * b >= a
  BY Rounding
<1>. HIDE DEF cap
<1>4. k \in Nat \ {0} /\ k * n >= cap
  BY <1>1, <1>3, Zenon
<1>. HIDE DEF k
<1>5. k - 1 \in Int /\ (k - 1) + 1 = k
  BY <1>4
<1>6. Chain!Repeats(n) \in Int /\ (Chain!Repeats(n) + 1) * n >= cap
  BY <1>2, <1>4, <1>5
<1>. QED
  BY <1>6 DEF cap

(* A chain whose loop has no seam. *)
Seamless(c) ==
    LET len == Chain!LoopLen(c)
        r == c[Chain!Max(Chain!Positions(c, "repeat"))]
    IN Chain!Positions(c, "repeat") # {} =>
         /\ \A i, j \in Chain!Positions(c, "trim") : i = j
         /\ len >= Chain!MinBuffer /\ (r[2] + 1) * len >= Chain!SafetyCap
         /\ Chain!Before(c, "fade") = {}
         /\ Chain!Swells(c) # {} => \E p \in Chain!Swells(c) : len % p = 0
         /\ Chain!CommonLoop(Chain!Swells(c)) => \A p \in Chain!Swells(c) : len % p = 0
         /\ \A p \in Chain!Swells(c) :
               p <= Chain!MaxBuffer /\ (\A q \in Chain!Swells(c) : q <= p) => len % p = 0
Plain(t) ==
    /\ t \in Seq(Effects) /\ Numbers(t, "repeat") = {}
    /\ Numbers(t, "tremolo") = {} /\ Numbers(t, "trim") = {}
LEMMA UnrepeatedIsSeamless ==
  ASSUME NEW c, Numbers(c, "repeat") = {} PROVE Seamless(c)
<1>1. Chain!Positions(c, "repeat") = {}
  BY AmongNumbers
<1>. QED
  BY <1>1 DEF Seamless
LEMMA RepeatedIsSeamless ==
  ASSUME NEW B, NEW T, NEW n, NEW cut \in Nat, NEW swells,
         Piece(B, swells, Alone(cut)), B # <<>>, B[1][2] = n + cut,
         Plain(T), LoopFor(n, swells)
  PROVE  Seamless((B \o << <<"repeat", Chain!Repeats(n)>> >>) \o T)
<1>. DEFINE R == Chain!Repeats(n)
            c == (B \o << <<"repeat", R>> >>) \o T
<1>1. n \in Nat \ {0} /\ n >= 120
  BY DEF LoopFor
<1>2. R \in Int /\ (R + 1) * n >= Chain!SafetyCap
  BY <1>1, ReplaysReachTheCap
<1>. HIDE DEF R
<1>20. /\ B \in Seq(Effects) /\ Numbers(B, "repeat") = {} /\ Numbers(B, "fade") = {}
       /\ Numbers(B, "tremolo") = swells /\ Lone(B, "trim")
       /\ Numbers(B, "trim") = Alone(cut)
  BY Zenon DEF Piece
<1>21. /\ T \in Seq(Effects) /\ Numbers(T, "repeat") = {}
       /\ Numbers(T, "tremolo") = {} /\ Numbers(T, "trim") = {}
  BY Zenon DEF Plain
<1>30. Replays(c, B, R, cut)
  BY <1>2, <1>20, <1>21, RepeatedChain, Zenon
<1>3. /\ c[Chain!Max(Chain!Positions(c, "repeat"))][2] = R
      /\ \A i, j \in Chain!Positions(c, "trim") : i = j
      /\ Chain!Before(c, "fade") = {}
      /\ Chain!Swells(c) = swells
      /\ Chain!LoopLen(c) = B[1][2] - cut
  BY <1>20, <1>30 DEF Replays
<1>. HIDE DEF c
<1>4. Chain!LoopLen(c) = n
  BY <1>1, <1>3
<1>5. Seamless(c)
  BY <1>1, <1>2, <1>3, <1>4 DEF Seamless, LoopFor, Chain!MinBuffer, Chain!MaxBuffer
<1>. QED
  BY <1>5 DEF c, R

LEMMA OptionalTrim ==
  ASSUME NEW n \in Nat PROVE Piece(Chain!If(n > 0, <<"trim", n>>), {}, Alone(n))
<1>1. (n > 0) \in BOOLEAN /\ n \in Int
  OBVIOUS
<1>2. Piece(Chain!If(n > 0, <<"trim", n>>), {}, IF n > 0 THEN {n} ELSE {})
  BY <1>1, TrimPiece
<1>3. (IF n > 0 THEN {n} ELSE {}) = Alone(n)
  BY DEF Alone
<1>. QED
  BY <1>2, <1>3
LEMMA NoPiece == Piece(<<>>, {}, {})
BY NoEffect DEF Piece

(* What stands before a repeat: the synthesis and the shaping of a body.   *)
LEMMA SynthPiece ==
  ASSUME NEW q, Normal(q), Chain!BufferLen(q) \in Nat
  PROVE  LET s == Chain!Synth(q) IN
         /\ Piece(s, IF q.type2 = "none" THEN {} ELSE {q.wave2},
                     IF q.type2 = "none" THEN {} ELSE Alone(q.offset2))
         /\ s # <<>> /\ s[1][2] = Chain!BufferLen(q) + q.offset2
<1>. DEFINE h == << <<"synth", Chain!BufferLen(q) + q.offset2>> >>
            x == << <<"tremolo", q.wave2>> >> \o Chain!If(q.offset2 > 0, <<"trim", q.offset2>>)
                   \o << <<"mix", 0>> >>
            s == Chain!Synth(q)
<1>0. q.wave2 \in Int /\ q.offset2 \in Nat
  BY NormalNumbers
<1>1. /\ q.wave2 \in Int /\ q.offset2 \in Nat /\ Chain!BufferLen(q) + q.offset2 \in Int
      /\ "synth" \in Words \ {"repeat", "fade", "tremolo", "trim"}
      /\ "mix" \in Words \ {"repeat", "fade", "tremolo", "trim"}
  BY <1>0 DEF Words
<1>2. /\ Piece(h, {}, {}) /\ h \in Seq(Effects) /\ h # <<>>
      /\ h[1][2] = Chain!BufferLen(q) + q.offset2
  <2>1. Piece(h, {}, {})
    BY <1>1, PlainPieces
  <2>2. h # <<>> /\ h[1][2] = Chain!BufferLen(q) + q.offset2
    OBVIOUS
  <2>. QED
    BY <2>1, <2>2 DEF Piece
<1>3. Piece(x, {q.wave2}, Alone(q.offset2))
  <2>. DEFINE a == << <<"tremolo", q.wave2>> >>
              b == Chain!If(q.offset2 > 0, <<"trim", q.offset2>>)
              m == << <<"mix", 0>> >>
  <2>1. Piece(a, {q.wave2}, {})
    BY <1>1, SwellPiece
  <2>2. Piece(b, {}, Alone(q.offset2))
    BY <1>1, OptionalTrim
  <2>3. Piece(m, {}, {})
    BY <1>1, PlainPieces
  <2>4. x = (a \o b) \o m
    OBVIOUS
  <2>. HIDE DEF a, b, m, x
  <2>5. Piece(a \o b, {q.wave2}, Alone(q.offset2))
    <3>1. Piece(a \o b, {q.wave2} \cup {}, {} \cup Alone(q.offset2))
      BY <2>1, <2>2, PiecesJoin, Zenon
    <3>. QED
      BY <3>1
  <2>6. Piece((a \o b) \o m, {q.wave2} \cup {}, Alone(q.offset2) \cup {})
    BY <2>3, <2>5, PiecesJoin, Zenon
  <2>. QED
    BY <2>4, <2>6
<1>4. s = h \o IF q.type2 = "none" THEN <<>> ELSE x
  BY DEF Chain!Synth
<1>. HIDE DEF h, x, s
<1>5. CASE q.type2 = "none"
  <2>1. s = h
    BY <1>2, <1>4, <1>5, ConcatEmptySeq
  <2>. QED
    BY <1>2, <1>5, <2>1 DEF s
<1>6. CASE q.type2 # "none"
  <2>1. Piece(h \o x, {} \cup {q.wave2}, {} \cup Alone(q.offset2))
    BY <1>2, <1>3, PiecesJoin, Zenon
  <2>2. h \o x # <<>> /\ (h \o x)[1] = h[1]
    BY <1>2, <1>3, Joined DEF Piece
  <2>. QED
    BY <1>2, <1>4, <1>6, <2>1, <2>2 DEF s
<1>. QED
  BY <1>5, <1>6

LEMMA ShapePiece ==
  ASSUME NEW q, Normal(q)
  PROVE  Piece(Chain!Shape(q),
               {q.wave} \cup (IF q.wave2 > 0 /\ q.type2 = "none" THEN {q.wave2} ELSE {}),
               IF q.wave2 > 0 /\ q.type2 = "none" THEN Alone(q.offset2) ELSE {})
<1>. DEFINE h == << <<"band", 0>>, <<"tremolo", q.wave>> >>
            b == Chain!If(q.offset2 > 0, <<"trim", q.offset2>>)
            a == << <<"tremolo", q.wave2>> >>
            z == << <<"reverb", 0>> >>
            own == q.wave2 > 0 /\ q.type2 = "none"
            s == Chain!Shape(q)
<1>0. q.wave \in Int /\ q.wave2 \in Int /\ q.offset2 \in Nat
  BY NormalNumbers
<1>1. /\ q.wave \in Int /\ q.wave2 \in Int /\ q.offset2 \in Nat
      /\ "band" \in Words \ {"repeat", "fade", "tremolo", "trim"}
      /\ "reverb" \in Words \ {"repeat", "fade", "tremolo", "trim"}
      /\ "tremolo" \in Words \ {"repeat", "fade", "trim"}
  BY <1>0 DEF Words
<1>2. Piece(h, {q.wave}, {})
  <2>1. \A m, n \in Int : Piece(<< <<"band", m>>, <<"tremolo", n>> >>,
                                IF "tremolo" = "tremolo" THEN {n} ELSE {}, {})
    BY <1>1, TwoPlain, Zenon
  <2>. QED
    BY <1>1, <2>1
<1>3. Piece(a, {q.wave2}, {})
  BY <1>1, SwellPiece
<1>4. Piece(b, {}, Alone(q.offset2))
  BY <1>1, OptionalTrim
<1>5. Piece(z, {}, {})
  BY <1>1, PlainPieces
<1>6. s = (h \o (IF own THEN b \o a ELSE <<>>)) \o z
  BY DEF Chain!Shape
<1>. HIDE DEF h, a, b, z, s, own
<1>7. CASE own
  <2>1. Piece(b \o a, {} \cup {q.wave2}, Alone(q.offset2) \cup {})
    BY <1>3, <1>4, PiecesJoin, Zenon
  <2>2. Piece(b \o a, {q.wave2}, Alone(q.offset2))
    BY <2>1
  <2>3. Piece(h \o (b \o a), {q.wave} \cup {q.wave2}, {} \cup Alone(q.offset2))
    BY <1>2, <2>2, PiecesJoin, Zenon
  <2>4. Piece(h \o (b \o a), {q.wave} \cup {q.wave2}, Alone(q.offset2))
    BY <2>3
  <2>5. Piece((h \o (b \o a)) \o z, ({q.wave} \cup {q.wave2}) \cup {}, Alone(q.offset2) \cup {})
    BY <1>5, <2>4, PiecesJoin, Zenon
  <2>. QED
    BY <1>6, <1>7, <2>5 DEF s, own
<1>8. CASE ~own
  <2>1. Piece(h \o <<>>, {q.wave} \cup {}, {} \cup {})
    BY <1>2, NoPiece, PiecesJoin, Zenon
  <2>2. Piece(h \o <<>>, {q.wave}, {})
    BY <2>1
  <2>3. Piece((h \o <<>>) \o z, {q.wave} \cup {}, {} \cup {})
    BY <1>5, <2>2, PiecesJoin, Zenon
  <2>. QED
    BY <1>6, <1>8, <2>3 DEF s, own
<1>. QED
  BY <1>7, <1>8

(* The body before its repeat, and the floor before its own. *)
BodySwells(q) == {q.wave} \cup (IF q.wave2 > 0 THEN {q.wave2} ELSE {})
LEMMA BodyLoop ==
  ASSUME NEW q, Normal(q)
  PROVE  Chain!BufferLen(q) \in Nat /\ LoopFor(Chain!BufferLen(q), BodySwells(q))
<1>0. q.wave \in SwellPeriod /\ q.wave2 \in {0} \cup SwellPeriod /\ q.wave2 \in Nat
  BY NormalNumbers DEF Normal
<1>1. CASE q.wave2 > 0
  <2>1. q.wave2 \in SwellPeriod
    BY <1>0, <1>1
  <2>2. LoopFor(Chain!Commensurate(q.wave, q.wave2), {q.wave, q.wave2})
    BY <1>0, <2>1, LoopOfBoth, Zenon
  <2>3. Chain!BufferLen(q) = Chain!Commensurate(q.wave, q.wave2)
    BY <1>1 DEF Chain!BufferLen
  <2>4. BodySwells(q) = {q.wave, q.wave2}
    BY <1>1 DEF BodySwells
  <2>5. LoopFor(Chain!BufferLen(q), BodySwells(q))
    BY <2>2, <2>3, <2>4
  <2>. QED
    BY <2>5, Zenon DEF LoopFor
<1>2. CASE ~(q.wave2 > 0)
  <2>2. LoopFor(Chain!Whole(q.wave), {q.wave})
    BY <1>0, LoopOfOne, Zenon
  <2>3. Chain!BufferLen(q) = Chain!Whole(q.wave)
    BY <1>2 DEF Chain!BufferLen
  <2>4. BodySwells(q) = {q.wave}
    BY <1>2 DEF BodySwells
  <2>5. LoopFor(Chain!BufferLen(q), BodySwells(q))
    BY <2>2, <2>3, <2>4
  <2>. QED
    BY <2>5, Zenon DEF LoopFor
<1>. QED
  BY <1>1, <1>2

LEMMA BodyPiece ==
  ASSUME NEW q, Normal(q)
  PROVE  LET s == Chain!Synth(q) \o Chain!Shape(q) IN
         /\ Piece(s, BodySwells(q), Alone(q.offset2))
         /\ s # <<>> /\ s[1][2] = Chain!BufferLen(q) + q.offset2
<1>. DEFINE a == Chain!Synth(q)
            b == Chain!Shape(q)
            none == q.type2 = "none"
            own == q.wave2 > 0 /\ q.type2 = "none"
<1>1. /\ Piece(a, IF none THEN {} ELSE {q.wave2}, IF none THEN {} ELSE Alone(q.offset2))
      /\ a # <<>> /\ a[1][2] = Chain!BufferLen(q) + q.offset2
  BY BodyLoop, SynthPiece
<1>2. Piece(b, {q.wave} \cup (IF own THEN {q.wave2} ELSE {}), IF own THEN Alone(q.offset2) ELSE {})
  BY ShapePiece
<1>. HIDE DEF a, b
<1>3. a \o b # <<>> /\ (a \o b)[1] = a[1]
  <2>1. a \in Seq(Effects) /\ b \in Seq(Effects)
    BY <1>1, <1>2, Zenon DEF Piece
  <2>. QED
    BY <1>1, <2>1, Joined
<1>4. q.wave2 \in Nat /\ (q.wave2 = 0 => q.offset2 = 0 /\ none)
  <2>1. q.wave2 \in Nat
    BY NormalNumbers
  <2>2. q.wave2 = 0 => q.offset2 = 0 /\ q.type2 = "none"
    BY Zenon DEF Normal
  <2>. QED
    BY <2>1, <2>2
<1>5. Piece(a \o b, BodySwells(q), Alone(q.offset2))
  <2>1. CASE own
    <3>1. Piece(a, {}, {}) /\ Piece(b, {q.wave} \cup {q.wave2}, Alone(q.offset2))
      BY <1>1, <1>2, <2>1
    <3>2. Piece(a \o b, {} \cup ({q.wave} \cup {q.wave2}), {} \cup Alone(q.offset2))
      BY <3>1, PiecesJoin, Zenon
    <3>3. BodySwells(q) = {} \cup ({q.wave} \cup {q.wave2})
      BY <2>1 DEF BodySwells
    <3>. QED
      BY <3>2, <3>3
  <2>2. CASE ~none
    <3>1. Piece(a, {q.wave2}, Alone(q.offset2)) /\ Piece(b, {q.wave} \cup {}, {})
      BY <1>1, <1>2, <2>2
    <3>2. Piece(a \o b, {q.wave2} \cup ({q.wave} \cup {}), Alone(q.offset2) \cup {})
      BY <3>1, PiecesJoin, Zenon
    <3>3. q.wave2 > 0
      BY <1>4, <2>2
    <3>4. BodySwells(q) = {q.wave2} \cup ({q.wave} \cup {})
      BY <3>3 DEF BodySwells
    <3>. QED
      BY <3>2, <3>4
  <2>3. CASE none /\ ~own
    <3>1. Piece(a, {}, {}) /\ Piece(b, {q.wave} \cup {}, {})
      BY <1>1, <1>2, <2>3
    <3>2. Piece(a \o b, {} \cup ({q.wave} \cup {}), {} \cup {})
      BY <3>1, PiecesJoin, Zenon
    <3>3. ~(q.wave2 > 0) /\ q.offset2 = 0
      BY <1>4, <2>3
    <3>4. BodySwells(q) = {} \cup ({q.wave} \cup {}) /\ Alone(q.offset2) = {} \cup {}
      BY <3>3 DEF BodySwells, Alone
    <3>. QED
      BY <3>2, <3>4
  <2>. QED
    BY <2>1, <2>2, <2>3
<1>. QED
  BY <1>1, <1>3, <1>5 DEF a, b

FloorSwells(q) == IF q.floorWave > 0 THEN {q.floorWave} ELSE {}
LEMMA FloorLoop ==
  ASSUME NEW q, Normal(q)
  PROVE  Chain!FloorLen(q) \in Nat /\ LoopFor(Chain!FloorLen(q), FloorSwells(q))
<1>0. q.floorWave \in {0} \cup SwellPeriod /\ q.floorWave \in Nat
  BY NormalNumbers DEF Normal
<1>1. CASE q.floorWave > 0
  <2>1. q.floorWave \in SwellPeriod
    BY <1>0, <1>1
  <2>2. LoopFor(Chain!Whole(q.floorWave), {q.floorWave})
    BY <2>1, LoopOfOne, Zenon
  <2>3. Chain!FloorLen(q) = Chain!Whole(q.floorWave) /\ FloorSwells(q) = {q.floorWave}
    BY <1>1 DEF Chain!FloorLen, FloorSwells
  <2>4. LoopFor(Chain!FloorLen(q), FloorSwells(q))
    BY <2>2, <2>3
  <2>. QED
    BY <2>4, Zenon DEF LoopFor
<1>2. CASE q.floorWave = 0
  <2>1. Chain!FloorLen(q) = 120 /\ FloorSwells(q) = {}
    BY <1>2 DEF Chain!FloorLen, Chain!MinBuffer, FloorSwells
  <2>. QED
    BY <2>1, LoopOfNone
<1>. QED
  BY <1>0, <1>1, <1>2

(* A floor of sox's, before its repeat. *)
Raised(q) ==
    << <<"synth", Chain!FloorLen(q) + q.floorOffset>> >>
    \o << <<"gain", 0>>, <<"band", 0>> >>
    \o (IF q.floorWave > 0
        THEN << <<"tremolo", q.floorWave>> >> \o Chain!If(q.floorOffset > 0, <<"trim", q.floorOffset>>)
        ELSE <<>>)
    \o << <<"reverb", 0>> >>
LEMMA FloorPiece ==
  ASSUME NEW q, Normal(q)
  PROVE  /\ Piece(Raised(q), FloorSwells(q), Alone(q.floorOffset))
         /\ Raised(q) # <<>> /\ Raised(q)[1][2] = Chain!FloorLen(q) + q.floorOffset
<1>. DEFINE h == << <<"synth", Chain!FloorLen(q) + q.floorOffset>> >>
            g == << <<"gain", 0>>, <<"band", 0>> >>
            x == << <<"tremolo", q.floorWave>> >>
            y == Chain!If(q.floorOffset > 0, <<"trim", q.floorOffset>>)
            w == IF q.floorWave > 0 THEN x \o y ELSE <<>>
            z == << <<"reverb", 0>> >>
            P == Words \ {"repeat", "fade", "tremolo", "trim"}
<1>0. /\ q.floorWave \in Nat /\ q.floorWave \in Int /\ q.floorOffset \in Nat
      /\ Chain!FloorLen(q) \in Nat /\ (q.floorWave = 0 => q.floorOffset = 0)
  <2>1. q.floorWave = 0 => q.floorOffset = 0
    BY Zenon DEF Normal
  <2>. QED
    BY <2>1, NormalNumbers, FloorLoop
<1>1. /\ Chain!FloorLen(q) + q.floorOffset \in Int /\ 0 \in Int
      /\ "synth" \in P /\ "gain" \in P /\ "band" \in P /\ "reverb" \in P
      /\ "band" \in Words \ {"repeat", "fade", "trim"}
  BY <1>0 DEF Words
<1>2. /\ Piece(h, {}, {}) /\ h # <<>> /\ h[1][2] = Chain!FloorLen(q) + q.floorOffset
  <2>1. Piece(h, {}, {})
    BY <1>1, PlainPieces
  <2>. QED
    BY <2>1
<1>3. Piece(g, {}, {})
  <2>1. \A m, n \in Int : Piece(<< <<"gain", m>>, <<"band", n>> >>,
                                IF "band" = "tremolo" THEN {n} ELSE {}, {})
    BY <1>1, TwoPlain, Zenon
  <2>2. Piece(g, IF "band" = "tremolo" THEN {0} ELSE {}, {})
    BY <1>1, <2>1, Zenon
  <2>. QED
    BY <2>2
<1>4. Piece(x, {q.floorWave}, {}) /\ Piece(y, {}, Alone(q.floorOffset)) /\ Piece(z, {}, {})
  BY <1>0, <1>1, SwellPiece, OptionalTrim, PlainPieces
<1>5. Raised(q) = ((h \o g) \o w) \o z
  BY DEF Raised
<1>. HIDE DEF h, g, x, y, z
<1>6. Piece(w, FloorSwells(q), Alone(q.floorOffset))
  <2>1. CASE q.floorWave > 0
    <3>1. Piece(x \o y, {q.floorWave} \cup {}, {} \cup Alone(q.floorOffset))
      BY <1>4, PiecesJoin, Zenon
    <3>. QED
      BY <2>1, <3>1 DEF FloorSwells
  <2>2. CASE q.floorWave = 0
    <3>1. w = <<>> /\ FloorSwells(q) = {} /\ Alone(q.floorOffset) = {}
      BY <1>0, <2>2 DEF FloorSwells, Alone
    <3>. QED
      BY <3>1, NoPiece
  <2>. QED
    BY <1>0, <2>1, <2>2
<1>. HIDE DEF w
<1>7. Piece(h \o g, {}, {}) /\ h \o g # <<>> /\ (h \o g)[1] = h[1]
  <2>1. Piece(h \o g, {} \cup {}, {} \cup {})
    BY <1>2, <1>3, PiecesJoin, Zenon
  <2>2. h \in Seq(Effects) /\ g \in Seq(Effects)
    BY <1>2, <1>3, Zenon DEF Piece
  <2>. QED
    BY <1>2, <2>1, <2>2, Joined
<1>8. /\ Piece((h \o g) \o w, FloorSwells(q), Alone(q.floorOffset))
      /\ (h \o g) \o w # <<>> /\ ((h \o g) \o w)[1] = h[1]
  <2>1. Piece((h \o g) \o w, {} \cup FloorSwells(q), {} \cup Alone(q.floorOffset))
    BY <1>6, <1>7, PiecesJoin, Zenon
  <2>2. h \o g \in Seq(Effects) /\ w \in Seq(Effects)
    BY <1>6, <1>7, Zenon DEF Piece
  <2>. QED
    BY <1>7, <2>1, <2>2, Joined
<1>9. /\ Piece(((h \o g) \o w) \o z, FloorSwells(q), Alone(q.floorOffset))
      /\ ((h \o g) \o w) \o z # <<>> /\ (((h \o g) \o w) \o z)[1] = h[1]
  <2>1. Piece(((h \o g) \o w) \o z, FloorSwells(q) \cup {}, Alone(q.floorOffset) \cup {})
    BY <1>4, <1>8, PiecesJoin, Zenon
  <2>2. (h \o g) \o w \in Seq(Effects) /\ z \in Seq(Effects)
    BY <1>4, <1>8, Zenon DEF Piece
  <2>. QED
    BY <1>8, <2>1, <2>2, Joined
<1>. QED
  BY <1>2, <1>5, <1>9

(* What follows a repeat. *)
LEMMA Tails ==
  ASSUME NEW q, q.fade \in Int
  PROVE  /\ Plain(<< <<"gain", 0>> >>) /\ Plain(<<>>) /\ Plain(Chain!Finish(q))
         /\ Plain(Chain!If(q.fade > 0, <<"fade", q.fade>>))
<1>. DEFINE g == << <<"gain", 0>> >>
            f == << <<"fade", q.fade>> >>
            t == Chain!If(q.fade > 0, <<"fade", q.fade>>)
<1>1. <<"gain", 0>> \in Effects /\ <<"gain", 0>>[1] = "gain"
  BY AnEffect DEF Words
<1>2. <<"fade", q.fade>> \in Effects /\ <<"fade", q.fade>>[1] = "fade"
  BY AnEffect DEF Words
<1>3. Plain(g) /\ Plain(f)
  BY <1>1, <1>2, OneEffect DEF Plain
<1>4. Plain(<<>>)
  BY NoEffect DEF Plain
<1>5. Plain(t)
  BY <1>3, <1>4 DEF Chain!If
<1>6. Chain!Finish(q) = g \o t
  BY DEF Chain!Finish
<1>. HIDE DEF g, t
<1>7. Plain(g \o t)
  <2>1. g \in Seq(Effects) /\ t \in Seq(Effects)
    BY <1>3, <1>5 DEF Plain
  <2>2. g \o t \in Seq(Effects) /\ \A fx : Numbers(g \o t, fx) = Numbers(g, fx) \cup Numbers(t, fx)
    BY <2>1, Joined
  <2>. QED
    BY <1>3, <1>5, <2>2 DEF Plain
<1>. QED
  BY <1>3, <1>4, <1>5, <1>6, <1>7 DEF g, t

LEMMA BodyIsSeamless ==
  ASSUME NEW q, Normal(q), NEW t, Plain(t)
  PROVE  Seamless(Chain!Body(q) \o t)
<1>1. CASE q.type = "ffmpeg"
  <2>1. Chain!Body(q) = Chain!Shape(q)
    BY <1>1 DEF Chain!Body
  <2>2. Chain!Shape(q) \in Seq(Effects) /\ Numbers(Chain!Shape(q), "repeat") = {}
    BY ShapePiece, Zenon DEF Piece
  <2>3. t \in Seq(Effects) /\ Numbers(t, "repeat") = {}
    BY Zenon DEF Plain
  <2>4. Numbers(Chain!Shape(q) \o t, "repeat") = {}
    BY <2>2, <2>3, Joined
  <2>. QED
    BY <2>1, <2>4, UnrepeatedIsSeamless
<1>2. CASE q.type # "ffmpeg"
  <2>. DEFINE s == Chain!Synth(q) \o Chain!Shape(q)
              n == Chain!BufferLen(q)
  <2>1. Chain!Body(q) = s \o << <<"repeat", Chain!Repeats(n)>> >>
    BY <1>2 DEF Chain!Body
  <2>2. Piece(s, BodySwells(q), Alone(q.offset2)) /\ s # <<>> /\ s[1][2] = n + q.offset2
    BY BodyPiece
  <2>3. LoopFor(n, BodySwells(q)) /\ q.offset2 \in Nat
    BY BodyLoop, NormalNumbers
  <2>. HIDE DEF s, n
  <2>4. Seamless((s \o << <<"repeat", Chain!Repeats(n)>> >>) \o t)
    BY <2>2, <2>3, RepeatedIsSeamless, Zenon
  <2>. QED
    BY <2>1, <2>4
<1>. QED
  BY <1>1, <1>2

LEMMA FloorIsSeamless ==
  ASSUME NEW q, Normal(q)
  PROVE  Seamless(Chain!Floor(q))
<1>1. CASE q.floor = "sox"
  <2>. DEFINE n == Chain!FloorLen(q)
              s == Raised(q)
              r == << <<"repeat", Chain!Repeats(n)>> >>
  <2>1. Chain!Floor(q) = s \o r
    BY <1>1 DEF Chain!Floor, Chain!If, Raised
  <2>2. Piece(s, FloorSwells(q), Alone(q.floorOffset)) /\ s # <<>> /\ s[1][2] = n + q.floorOffset
    BY FloorPiece
  <2>3. LoopFor(n, FloorSwells(q)) /\ q.floorOffset \in Nat /\ Plain(<<>>)
    <3>1. <<>> \in Seq(Effects) /\ \A fx : Numbers(<<>>, fx) = {}
      BY NoEffect
    <3>. QED
      BY <3>1, FloorLoop, NormalNumbers DEF Plain
  <2>. HIDE DEF n
  <2>. HIDE DEF s
  <2>4. Seamless((s \o r) \o <<>>)
    BY <2>2, <2>3, RepeatedIsSeamless, Zenon
  <2>5. (s \o r) \o <<>> = s \o r
    <3>1. n \in Nat \ {0}
      BY <2>3 DEF LoopFor
    <3>2. Chain!Repeats(n) \in Int /\ "repeat" \in Words
      BY <3>1, ReplaysReachTheCap DEF Words
    <3>3. r \in Seq(Effects)
      BY <3>2, AnEffect, OneEffect
    <3>4. s \in Seq(Effects)
      BY <2>2, Zenon DEF Piece
    <3>5. s \o r \in Seq(Effects)
      BY <3>3, <3>4, Joined
    <3>. QED
      BY <3>5, ConcatEmptySeq
  <2>. QED
    BY <2>1, <2>4, <2>5
<1>2. CASE q.floor # "sox"
  <2>. DEFINE g == << <<"gain", 0>>, <<"band", 0>> >>
              x == << <<"tremolo", q.floorWave>> >>
              y == Chain!If(q.floorOffset > 0, <<"trim", q.floorOffset>>)
              w == IF q.floorWave > 0 THEN x \o y ELSE <<>>
              z == << <<"reverb", 0>> >>
              Quiet(s) == s \in Seq(Effects) /\ Numbers(s, "repeat") = {}
              P == Words \ {"repeat", "fade", "tremolo", "trim"}
  <2>1. Chain!Floor(q) = (((<<>> \o g) \o w) \o z) \o <<>>
    BY <1>2 DEF Chain!Floor, Chain!If
  <2>2. /\ q.floorWave \in Int /\ q.floorOffset \in Nat /\ 0 \in Int
        /\ "gain" \in P /\ "band" \in P /\ "reverb" \in P
        /\ "band" \in Words \ {"repeat", "fade", "trim"}
    <3>1. q.floorWave \in Int /\ q.floorOffset \in Nat
      BY NormalNumbers
    <3>. QED
      BY <3>1 DEF Words
  <2>3. Quiet(g)
    <3>1. \A m, n \in Int : Piece(<< <<"gain", m>>, <<"band", n>> >>,
                                  IF "band" = "tremolo" THEN {n} ELSE {}, {})
      BY <2>2, TwoPlain, Zenon
    <3>2. Piece(g, IF "band" = "tremolo" THEN {0} ELSE {}, {})
      BY <2>2, <3>1, Zenon
    <3>. QED
      BY <3>2, Zenon DEF Piece
  <2>4. Quiet(x) /\ Quiet(y) /\ Quiet(z)
    <3>1. Piece(x, {q.floorWave}, {}) /\ Piece(y, {}, Alone(q.floorOffset)) /\ Piece(z, {}, {})
      BY <2>2, SwellPiece, OptionalTrim, PlainPieces
    <3>. QED
      BY <3>1, Zenon DEF Piece
  <2>5. Quiet(<<>>)
    BY NoEffect
  <2>6. ASSUME NEW s, NEW t, Quiet(s), Quiet(t) PROVE Quiet(s \o t)
    BY <2>6, Joined
  <2>7. Quiet(w)
    <3>1. Quiet(x \o y)
      BY <2>4, <2>6, Zenon
    <3>. QED
      BY <2>5, <3>1
  <2>. HIDE DEF g, x, y, w, z
  <2>. HIDE DEF Quiet
  <2>8. Quiet((((<<>> \o g) \o w) \o z) \o <<>>)
    BY <2>3, <2>4, <2>5, <2>6, <2>7, Zenon
  <2>. QED
    BY <2>1, <2>8, UnrepeatedIsSeamless DEF Quiet
<1>. QED
  BY <1>1, <1>2

LEMMA ChainsAreSeamless ==
  ASSUME PresetsKnown, NEW p \in NoisePresets
  PROVE  \A k \in DOMAIN Chain!Chains(Chain!Normalize(p)) :
             Seamless(Chain!Chains(Chain!Normalize(p))[k])
<1>. DEFINE q == Chain!Normalize(p)
            a == Chain!Body(q) \o Chain!Finish(q)
            b == Chain!Body(q) \o << <<"gain", 0>> >>
            f == Chain!Floor(q)
            t == Chain!If(q.fade > 0, <<"fade", q.fade>>)
<1>1. Normal(q)
  BY NormalizeClamps
<1>. HIDE DEF q
<1>2. /\ Plain(<< <<"gain", 0>> >>) /\ Plain(Chain!Finish(q))
      /\ Plain(Chain!If(q.fade > 0, <<"fade", q.fade>>))
  BY <1>1, NormalNumbers, Tails
<1>3. Seamless(a) /\ Seamless(b) /\ Seamless(f)
  BY <1>1, <1>2, BodyIsSeamless, FloorIsSeamless, Zenon
<1>4. Seamless(t)
  BY <1>2, UnrepeatedIsSeamless DEF Plain
<1>5. Chain!Chains(q) = IF q.floor = "none" THEN <<a>> ELSE <<b, f, t>>
  BY Zenon DEF Chain!Chains
<1>. HIDE DEF a, b, f, t
<1>6. \A k \in DOMAIN Chain!Chains(q) : Seamless(Chain!Chains(q)[k])
  BY <1>3, <1>4, <1>5
<1>. QED
  BY <1>6 DEF q

(* The chains are those of the preset, once they are made. *)
ChainInv ==
    /\ in \in NoisePresets
    /\ out = <<>> \/ out = << <<>> >> \/ out = Chain!Chains(Chain!Normalize(in))
LEMMA ChainStep ==
  ASSUME ChainInv, [Chain!Next]_chainVars PROVE ChainInv'
BY DEF ChainInv, chainVars, Chain!Next, Chain!Evaluate
LEMMA ChainTurn ==
  ASSUME [Next]_vars, part' = "chain" PROVE part = "chain" /\ [Chain!Next]_chainVars
<1>1. CASE Next
  BY <1>1 DEF Next, Turn
<1>2. CASE UNCHANGED vars
  BY <1>2 DEF vars
<1>. QED
  BY <1>1, <1>2

(* The loop a repeat replays has no seam, for any preset a person can      *)
(* write (cmd/hesplay/noise.go): it holds whole swells wherever a loop in  *)
(* the limits can, it is replayed up to the safety cap, and the fade comes *)
(* once, after it.                                                         *)
THEOREM NoiseLoopsSeamlessly ==
  ASSUME PresetsKnown
  PROVE  Spec => []LoopsSeamlessly
<1>. DEFINE Inv == part = "chain" => ChainInv
<1>1. Init => Inv
  BY DEF Init, Begun, Chain!Init, ChainInv
<1>2. Inv /\ [Next]_vars => Inv'
  <2>1. ASSUME [Next]_vars, part' = "chain" PROVE part = "chain" /\ [Chain!Next]_chainVars
    BY <2>1, ChainTurn
  <2>. QED
    BY <2>1, ChainStep
<1>3. Inv => LoopsSeamlessly
  <2>1. ASSUME ChainInv PROVE \A k \in DOMAIN out : Seamless(out[k])
    <3>1. CASE out = <<>>
      BY <3>1
    <3>2. CASE out = << <<>> >>
      <4>1. Seamless(<<>>)
        BY NoEffect, UnrepeatedIsSeamless
      <4>. QED
        BY <3>2, <4>1
    <3>3. CASE out = Chain!Chains(Chain!Normalize(in))
      <4>1. in \in NoisePresets
        BY <2>1 DEF ChainInv
      <4>2. \A p \in NoisePresets : \A k \in DOMAIN Chain!Chains(Chain!Normalize(p)) :
                                   Seamless(Chain!Chains(Chain!Normalize(p))[k])
        BY ChainsAreSeamless
      <4>. QED
        BY <3>3, <4>1, <4>2, Zenon
    <3>. QED
      BY <2>1, <3>1, <3>2, <3>3 DEF ChainInv
  <2>2. (\A k \in DOMAIN out : Seamless(out[k])) => Chain!LoopsSeamlessly
    BY Zenon DEF Seamless, Chain!LoopsSeamlessly
  <2>. QED
    BY <2>1, <2>2 DEF LoopsSeamlessly
<1>. QED
  BY <1>1, <1>2, <1>3, PTL DEF Spec
=============================================================================
