---------------------------- MODULE MCProcesses ----------------------------
(***************************************************************************)
(* The parts whose processes die and are replaced: the host controller and *)
(* its helpers, and the Pi process of a Worker.  They share no state; the  *)
(* initial state picks one of them, and only that one steps.               *)
(***************************************************************************)
EXTENDS HostRestart, WorkerSessions

VARIABLE side

Only(s, step) == side = s /\ step /\ UNCHANGED side
processesVars == <<side, restartVars, sessionVars>>

\* A side that is not explored starts in one state only.
Init ==
    /\ side \in {"host", "worker"}
    /\ RestartInit /\ SessionInit
    /\ side # "worker" => row = "idle"

Next ==
    \/ Only("host", RestartNext) /\ UNCHANGED sessionVars
    \/ Only("worker", SessionNext) /\ UNCHANGED restartVars

\* Each side's own fairness, while it is the one that runs.
Host(step) == Only("host", step)
Worker(step) == Only("worker", step)

Fairness ==
    /\ WF_restartVars(Host(ControllerStep))
    /\ \A r \in RunIds : WF_restartVars(Host(HelperStep(r)))
    /\ \A c \in Commands : WF_restartVars(Host(CommandEnds(c)))
    /\ \A o \in Sends : WF_sessionVars(Worker(SendNext(o)))
    /\ WF_sessionVars(Worker(LoadNext)) /\ WF_sessionVars(Worker(StopNext))
    /\ WF_sessionVars(Worker(DeleteNext)) /\ WF_sessionVars(Worker(WatchNext))
    /\ SF_sessionVars(Worker(Repair)) /\ WF_sessionVars(Worker(Closing))
    /\ WF_sessionVars(Worker(Reading)) /\ WF_sessionVars(Worker(PiAnswers))
    /\ SF_sessionVars(Worker(PiFinishes))

Spec == Init /\ [][Next]_processesVars /\ Fairness

\* Both sides keep their state in its type, whichever processes die.
ProcessesTypeOK == RestartTypeOK /\ SessionTypeOK
=============================================================================
