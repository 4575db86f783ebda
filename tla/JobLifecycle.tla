---------------------------- MODULE JobLifecycle ----------------------------
(***************************************************************************)
(* What internal/jobs promises about one scan_jobs row, whoever enqueues,  *)
(* cancels or restarts: a row is submitted once under an id never used     *)
(* before, at most one row runs at a time, a running row ends or goes back *)
(* in line, a finished row stays finished, and only a restart removes it.  *)
(***************************************************************************)
CONSTANT JobId

VARIABLES status, used

Terminal == {"done", "failed", "canceled"}
Pending == {"queued", "running"}

Init ==
    /\ status = [j \in JobId |-> "absent"]
    /\ used = {}

Submit(j) ==
    /\ j \notin used
    /\ status' = [status EXCEPT ![j] = "queued"]
    /\ used' = used \cup {j}

Start(j) ==
    /\ status[j] = "queued"
    /\ \A i \in JobId : status[i] # "running"
    /\ status' = [status EXCEPT ![j] = "running"]
    /\ UNCHANGED used

Yield(j) ==
    /\ status[j] = "running"
    /\ status' = [status EXCEPT ![j] = "queued"]
    /\ UNCHANGED used

End(j) ==
    /\ status[j] \in Pending
    /\ \E s \in Terminal : status' = [status EXCEPT ![j] = s]
    /\ UNCHANGED used

Restart ==
    /\ \E old \in SUBSET {j \in JobId : status[j] \in Terminal} :
         status' = [j \in JobId |->
                      IF j \in old THEN "absent"
                      ELSE IF status[j] \in Pending THEN "canceled" ELSE status[j]]
    /\ UNCHANGED used

Next ==
    \/ Restart
    \/ \E j \in JobId : Submit(j) \/ Start(j) \/ Yield(j) \/ End(j)

Spec == Init /\ [][Next]_<<status, used>>
=============================================================================
