------------------------------ MODULE MCDeploy ------------------------------
(* Values for the constants of Deploy, and which containers may exit. *)
EXTENDS Deploy

\* Dying at one of these steps leaves a row, a table and containers from which
\* the next daemon goes on.
SafeCrash ==
    {"lockWait", "register", "build", "plan", "migrate", "before", "start", "bringUp",
     "checking", "check", "replace", "workerRow", "watching",
     "push", "webRow", "drain", "holdPush", "watch", "await", "stopHeld", "rbRecord", "clear"}

\* A container exits by itself only where that is no outage: the worker, and a
\* replica of the old pool that is about to be stopped.
HarmlessExit ==
    /\ Dies
    /\ \A i \in Index : replicas'[i] # replicas[i] =>
            \E d \in Deploys : pc[d] = "stopHeld" /\ i \in held[d]

FailureNext ==
    \/ \E d \in Deploys : RunStep(d) \/ Command(d) \/ Resume(d)
    \/ Crash \/ Restart \/ HarmlessExit

FailureSpec == Init /\ [][FailureNext]_vars
=============================================================================
