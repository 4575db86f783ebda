---------------------------- MODULE InstanceLaunch ---------------------------
(***************************************************************************)
(* Launches of Hespera against one data directory on Linux                 *)
(* (cmd/hespera/main.go, attach.go, management_linux.go,                   *)
(* internal/singleton): whether an instance runs is asked of the address   *)
(* in app.url and of the management socket, --replace terminates every     *)
(* other process of this executable, and a lock on the directory is taken  *)
(* before the database is opened.  Each process is launched once.          *)
(***************************************************************************)
EXTENDS Naturals, FiniteSets

CONSTANTS
    Procs,
    Locks     \* whether the file system of the directory has locks

VARIABLES
    at,       \* stage of each process
    app,      \* processes in app mode: they own a window
    replace,  \* processes with --replace
    target,   \* the address a process decided to attach to, None
    lock,     \* the holder of the data directory's lock, None
    sock,     \* the process that bound the socket file, None
    url,      \* whose address app.url holds, None
    healthy,  \* history: whom each process could have found when it looked
    victims   \* history: instances that a launch from the desktop terminated

vars == <<at, app, replace, target, lock, sock, url, healthy, victims>>

None == "none"
Early == {"probe", "oracle", "replace", "wait", "lock"}
Owner == {"db", "bind", "listen", "serve", "down"}
Alive == Early \cup Owner \cup {"attach"}
To(p, s) == at' = [at EXCEPT ![p] = s]

Init ==
    /\ at = [p \in Procs |-> "new"] /\ app \in SUBSET Procs /\ replace \in SUBSET Procs
    /\ target = [p \in Procs |-> None]
    /\ lock = None /\ sock = None /\ url = None
    /\ healthy = [p \in Procs |-> {}] /\ victims = {}

-----------------------------------------------------------------------------
(* What can be asked: /healthz at the recorded address, unless it does not *)
(* answer in time, and a connection to the socket.                         *)
Answers(p) == p # None /\ at[p] \in {"listen", "serve"}
SocketAlive == sock # None /\ at[sock] \in {"listen", "serve"}
Announced == {p \in Procs : at[p] = "serve" /\ url = p /\ sock = p}

Launch(p) ==
    /\ at[p] = "new" /\ To(p, "probe") /\ healthy' = [healthy EXCEPT ![p] = Announced]
    /\ UNCHANGED <<app, replace, target, lock, sock, url, victims>>

(* launchDecision: a desktop attaches, a server refuses or takes over.     *)
Decide(p, found) ==
    /\ target' = [target EXCEPT ![p] = IF p \in app THEN found ELSE None]
    /\ To(p, IF found = None THEN (IF p \in replace THEN "replace" ELSE "lock")
             ELSE IF p \in app THEN "attach"
             ELSE IF p \in replace THEN "replace" ELSE "gone")
Probe(p, inTime) ==
    /\ at[p] = "probe"
    /\ IF inTime /\ Answers(url) THEN Decide(p, url) ELSE To(p, "oracle") /\ UNCHANGED target
    /\ UNCHANGED <<app, replace, lock, sock, url, healthy, victims>>

(* Mutated form: nothing but the probe is asked. *)
ByProbeAlone == None

BySocket == IF SocketAlive THEN url ELSE None

Oracle(p) ==
    /\ at[p] = "oracle" /\ Decide(p, BySocket)
    /\ UNCHANGED <<app, replace, lock, sock, url, healthy, victims>>
Attach(p) ==
    /\ at[p] = "attach" /\ To(p, "gone")
    /\ UNCHANGED <<app, replace, target, lock, sock, url, healthy, victims>>

(* ReplaceOthers: SIGTERM to all of them, whatever they are doing; each    *)
(* dies or shuts down, as any process may at any time, and the wait for it *)
(* is bounded.                                                             *)
Replace(p) ==
    /\ at[p] = "replace" /\ To(p, "wait")
    /\ victims' = IF p \in app THEN victims \cup {q \in healthy[p] : at[q] = "serve"} ELSE victims
    /\ UNCHANGED <<app, replace, target, lock, sock, url, healthy>>
Waited(p) ==
    /\ at[p] = "wait" /\ To(p, "lock")
    /\ UNCHANGED <<app, replace, target, lock, sock, url, healthy, victims>>

(* Mutated form: the lock is asked for and its answer not looked at. *)
RefusedNever(p) == FALSE

(* AcquireDataDirLock: without locks everybody goes on. *)
Refused(p) == Locks /\ lock # None

Lock(p) ==
    /\ at[p] = "lock"
    /\ To(p, IF Refused(p) THEN "gone" ELSE "db")
    /\ lock' = IF ~Locks \/ Refused(p) THEN lock ELSE p
    /\ UNCHANGED <<app, replace, target, sock, url, healthy, victims>>

(* serveManagementSocket: a live owner is left alone, a stale file goes.   *)
AskSocket(p) ==
    /\ at[p] = "db" /\ To(p, IF SocketAlive THEN "listen" ELSE "bind")
    /\ UNCHANGED <<app, replace, target, lock, sock, url, healthy, victims>>
Bind(p, ok) ==
    /\ at[p] = "bind" /\ To(p, "listen") /\ sock' = IF ok THEN p ELSE None
    /\ UNCHANGED <<app, replace, target, lock, url, healthy, victims>>

(* The address is bound before it is written to app.url. *)
Announce(p) ==
    /\ at[p] = "listen" /\ To(p, "serve") /\ url' = p
    /\ UNCHANGED <<app, replace, target, lock, sock, healthy, victims>>

(* A signal, the power button or the closed window; removeAppURL forgets   *)
(* an address that is its own, the lock goes with the process.             *)
ShutDown(p) ==
    /\ at[p] = "serve" /\ To(p, "down")
    /\ UNCHANGED <<app, replace, target, lock, sock, url, healthy, victims>>
Unlocked(p) == IF lock = p THEN None ELSE lock
Exit(p) ==
    /\ at[p] = "down" /\ To(p, "gone") /\ lock' = Unlocked(p)
    /\ url' = IF url = p THEN None ELSE url
    /\ UNCHANGED <<app, replace, target, sock, healthy, victims>>

(* A crash, a failed start, or a signal before anybody handles it: app.url *)
(* and the socket's file stay.                                             *)
Die(p) ==
    /\ at[p] \in Alive /\ To(p, "gone") /\ lock' = Unlocked(p)
    /\ UNCHANGED <<app, replace, target, sock, url, healthy, victims>>

Next ==
    \E p \in Procs :
        \/ Launch(p) \/ Oracle(p) \/ Attach(p) \/ Replace(p) \/ Waited(p) \/ Lock(p) \/ AskSocket(p)
        \/ Announce(p) \/ ShutDown(p) \/ Exit(p) \/ Die(p)
        \/ \E b \in BOOLEAN : Probe(p, b) \/ Bind(p, b)

Spec == Init /\ [][Next]_vars
-----------------------------------------------------------------------------
TypeOK ==
    /\ \A p \in Procs : at[p] \in Alive \cup {"new", "gone"} /\ target[p] \in Procs \cup {None}
    /\ {lock, sock, url} \subseteq Procs \cup {None} /\ victims \subseteq Procs
    /\ Locks => {p \in Procs : at[p] \in Owner} = {lock} \ {None}

(* One instance has the database, a launch finds it through app.url and    *)
(* through its socket from the time it announced itself until it stops,    *)
(* and a launch from the desktop, --replace or not, terminates no instance *)
(* that it could have found when it looked, slow as it may be to answer.   *)
(* Nothing of it holds on a file system without locks, where one instance  *)
(* may bind the socket's file over another's.                              *)
OneInstance ==
    Locks => /\ Cardinality({p \in Procs : at[p] \in Owner}) <= 1
             /\ \A p \in Procs : at[p] = "serve" => url = p /\ sock \in {p, None}
             /\ victims = {}
=============================================================================
