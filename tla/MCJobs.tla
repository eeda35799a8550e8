------------------------------- MODULE MCJobs -------------------------------
(***************************************************************************)
(* The job mutation lock, on a program of nested and detached sections, and*)
(* the operations on a self-improvement request that take it together with *)
(* the request's own lock.  They share no state; the initial state picks   *)
(* one of the two, and only that one steps.                                *)
(***************************************************************************)
EXTENDS MCMutationLock, SelfImprovement

VARIABLE part

Only(p, step) == part = p /\ step /\ UNCHANGED part
jobsVars == <<part, vars, sourceVars>>

\* A part that is not explored starts in one state only.
JobsInit ==
    /\ part \in {"lock", "source"}
    /\ Init /\ SourceInit
    /\ part # "source" => worker[1] = "none"

JobsNext ==
    \/ Only("lock", Next) /\ UNCHANGED sourceVars
    \/ Only("source", SourceNext) /\ UNCHANGED vars

LockStep(step) == Only("lock", step)

JobsFairness == \A s \in Sections :
    WF_vars(LockStep(Enter(s))) /\ WF_vars(LockStep(Exit(s))) /\ WF_vars(LockStep(Call(s) \/ Skip(s)))

JobsSpec == JobsInit /\ [][JobsNext]_jobsVars /\ JobsFairness

\* The lock and the request's operations keep their state in its type, restarts
\* included.
JobsTypeOK == TypeOK /\ SourceTypeOK
=============================================================================
