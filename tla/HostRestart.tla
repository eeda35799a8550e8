---------------------------- MODULE HostRestart ----------------------------
(***************************************************************************)
(* The restart of the appliance by the host controller                     *)
(* (docker/host-controller/controller.mjs), the activation helper that     *)
(* replaces the controller's own container (controller-activation.mjs) and *)
(* the shell commands of manor.sh, around the lifecycle lock they share (a *)
(* Docker network labelled with its owner).                                *)
(*                                                                         *)
(* A run moves "running" -> "completed" or "failed".  A run that rebuilt   *)
(* the controller stays "running" with pending set while a detached helper *)
(* recreates the controller container; the controller that comes up in it  *)
(* completes the run, and when it does not come up the helper restores the *)
(* previous container (rolling).  The state file is written by the         *)
(* controller from its memory and, when the controller does not answer, by *)
(* the helper.  Container image, id and project directory are one value:   *)
(* which operation created the controller's container (box).               *)
(***************************************************************************)
EXTENDS Naturals

CONSTANTS MaxRuns,        \* bound on the restarts asked for
          Commands,       \* manor.sh processes that take the lifecycle lock
          MaxRestartFaults, \* bound on deaths of controller, helper, command
          NoOwner         \* no run, no owner

RunIds == 1..MaxRuns

ASSUME HostRestartAssumption ==
    /\ MaxRuns \in Nat /\ MaxRestartFaults \in Nat
    /\ NoOwner \notin RunIds /\ Commands \cap RunIds = {} /\ NoOwner \notin Commands

VARIABLES
    runFile,    \* latestRun in restart-status.json
    runMem,     \* latestRun in the controller's memory
    lastRun,    \* the last run id given out
    exec,       \* the run being admitted or executed, and the run before it
    ending,     \* runs whose finally block has still to release and save
    act,        \* the activation operation that holds the activation queue
    late,       \* the activation deadline has passed
    lifecycle,  \* the label of the lifecycle lock, NoOwner when there is none
    ctl,        \* the controller's process
    box,        \* what created the controller's container
    bad,        \* that container never becomes healthy
    helper,     \* the activation helper of each run
    command,    \* the manor.sh commands
    sources,    \* source directories exported from clean HEAD (state/host-controller)
    gateway,    \* the source the gateway's container was created from
    restartFaults

ctlVars     == <<runMem, exec, ending, act>>
restartVars == <<runFile, runMem, lastRun, exec, ending, act, late, lifecycle,
                 ctl, box, bad, helper, command, sources, gateway, restartFaults>>

Run(id, status, pending, rolling) ==
    [id |-> id, status |-> status, pending |-> pending, rolling |-> rolling]

NoRun     == Run(NoOwner, "completed", FALSE, FALSE)
Fresh(r)  == Run(r, "running", FALSE, FALSE)
Ended(m, status) == [m EXCEPT !.status = status, !.pending = FALSE, !.rolling = FALSE]

Activating(m) == m.status = "running" /\ m.pending

Statuses == [id : RunIds \cup {NoOwner}, status : {"running", "completed", "failed"},
             pending : BOOLEAN, rolling : BOOLEAN]

Executing == {"work", "build", "restart", "fallback", "activate", "starting"}

NoExec == [run |-> NoOwner, phase |-> "none", prev |-> NoRun]
NoAct  == [op |-> "none", run |-> NoOwner]

Boxes == {<<"first", NoOwner>>} \cup ({"up", "back"} \X RunIds) \cup ({"shell"} \X Commands)

\* The working tree, and the clean HEAD exports of a run: the one its fallback is
\* built from ("head") and the one a rollback of the controller uses ("back").
Tree       == <<"tree", 0>>
CleanHead(r)    == <<"head", r>>
Back(r)    == <<"back", r>>
Exports    == {"head", "back"} \X RunIds

HelperAlive(r) == helper[r] \notin {"none", "gone"}

\* releaseLifecycleLock: the network is removed by id when it has this label.
Released(owner) == IF lifecycle = owner THEN NoOwner ELSE lifecycle

Fault == restartFaults < MaxRestartFaults /\ restartFaults' = restartFaults + 1

RestartInit ==
    /\ runFile = NoRun /\ runMem = NoRun /\ lastRun = 0
    /\ exec = NoExec /\ ending = {} /\ act = NoAct /\ late = FALSE
    /\ lifecycle = NoOwner /\ ctl = "up" /\ box = <<"first", NoOwner>> /\ bad = FALSE
    /\ helper = [r \in RunIds |-> "none"]
    /\ command = [c \in Commands |-> "idle"]
    /\ sources = {} /\ gateway = Tree
    /\ restartFaults = 0

-----------------------------------------------------------------------------
(* The controller: admission and execution of a run.                       *)

\* POST /restart, up to the saved new run.
Admit ==
    /\ ctl = "up" /\ exec.phase = "none" /\ runMem.status # "running" /\ lastRun < MaxRuns
    /\ lastRun' = lastRun + 1
    /\ runMem' = Fresh(lastRun')
    /\ runFile' = runMem'
    /\ exec' = [run |-> lastRun', phase |-> "locking", prev |-> runMem]
    /\ UNCHANGED <<ending, act, late, lifecycle, ctl, box, bad, helper, command, sources, gateway, restartFaults>>

\* A lock the controller may take: none, that of a dead command, or that of its
\* previous run once it has ended.
Takeable(prev) ==
    \/ lifecycle = NoOwner
    \/ lifecycle \in Commands /\ command[lifecycle] = "dead"
    \/ lifecycle = prev.id /\ prev.status # "running"

AcquireLock ==
    /\ exec.phase = "locking" /\ Takeable(exec.prev)
    /\ lifecycle' = exec.run
    /\ exec' = [exec EXCEPT !.phase = "work"]
    /\ UNCHANGED <<runFile, runMem, lastRun, ending, act, late, ctl, box, bad, helper, command, sources, gateway, restartFaults>>

\* The lock, or the guard of a takeover, is held: the previous run is put back.
RefuseRun ==
    /\ exec.phase = "locking" /\ lifecycle # NoOwner
    /\ runMem' = exec.prev /\ runFile' = exec.prev
    /\ exec' = NoExec
    /\ UNCHANGED <<lastRun, ending, act, late, lifecycle, ctl, box, bad, helper, command, sources, gateway, restartFaults>>

\* executeRun ends without an activation: completed and saved, or failed in memory.
RunDone ==
    /\ runMem' = Ended(runMem, "completed") /\ runFile' = runMem'
    /\ ending' = ending \cup {exec.run} /\ exec' = NoExec

RunFails ==
    /\ runMem' = Ended(runMem, "failed")
    /\ ending' = ending \cup {exec.run} /\ exec' = NoExec

\* executeRun exports the rollback source when it builds, and updates the checkout.
Prepare ==
    /\ exec.phase = "work"
    /\ \E build \in BOOLEAN :
          /\ sources' = IF build THEN sources \cup {Back(exec.run)} ELSE sources
          /\ exec' = [exec EXCEPT !.phase = IF build THEN "build" ELSE "restart"]
    /\ UNCHANGED <<runFile, runMem, lastRun, ending, act, late, lifecycle, ctl, box, bad, helper, command, gateway, restartFaults>>

\* cleanupOtherCleanHeadSources, whose failure is ignored.
Cleaned(kept) == {sources, sources \cap kept}

\* The services come up from the working tree; with a build the controller is next.
RestartFromTree ==
    /\ exec.phase \in {"build", "restart"}
    /\ gateway' = Tree /\ sources' \in Cleaned({Back(exec.run)})
    /\ IF exec.phase = "build"
         THEN exec' = [exec EXCEPT !.phase = "activate"] /\ UNCHANGED <<runMem, runFile, ending>>
         ELSE RunDone
    /\ UNCHANGED <<lastRun, act, late, lifecycle, ctl, box, bad, helper, command, restartFaults>>

\* They do not: the run exports clean HEAD and starts over from there.  The
\* gateway is the last service; it may have been recreated already.
TreeFails ==
    /\ exec.phase \in {"build", "restart"}
    /\ gateway' \in {gateway, Tree}
    /\ sources' = sources \cup {CleanHead(exec.run)}
    /\ exec' = [exec EXCEPT !.phase = "fallback"]
    /\ UNCHANGED <<runFile, runMem, lastRun, ending, act, late, lifecycle, ctl, box, bad, helper, command, restartFaults>>

RestartFromHead ==
    /\ exec.phase = "fallback"
    /\ gateway' = CleanHead(exec.run)
    /\ sources' \in Cleaned({CleanHead(exec.run), Back(exec.run)})
    /\ RunDone
    /\ UNCHANGED <<lastRun, act, late, lifecycle, ctl, box, bad, helper, command, restartFaults>>

\* Fault: the cleanup of a failed fallback removes every export.
HeadFailsCleansAll ==
    /\ exec.phase = "fallback"
    /\ gateway' = gateway
    /\ sources' = {}
    /\ RunFails
    /\ UNCHANGED <<runFile, lastRun, act, late, lifecycle, ctl, box, bad, helper, command, restartFaults>>

HeadFails ==
    /\ exec.phase = "fallback"
    /\ gateway' \in {gateway, CleanHead(exec.run)}
    /\ sources' = sources \ {CleanHead(exec.run)}
    /\ RunFails
    /\ UNCHANGED <<runFile, lastRun, act, late, lifecycle, ctl, box, bad, helper, command, restartFaults>>

\* Any other step of the run may fail.
WorkFails ==
    /\ exec.phase \in {"work", "build", "restart", "activate", "starting"}
    /\ RunFails
    /\ UNCHANGED <<runFile, lastRun, act, late, lifecycle, ctl, box, bad, helper, command, sources, gateway, restartFaults>>

\* scheduleHostControllerActivation saves the pending run, then starts the helper.
Schedule ==
    /\ exec.phase = "activate"
    /\ runMem' = Run(exec.run, "running", TRUE, FALSE) /\ runFile' = runMem'
    /\ exec' = [exec EXCEPT !.phase = "starting"]
    /\ late' = FALSE
    /\ UNCHANGED <<lastRun, ending, act, lifecycle, ctl, box, bad, helper, command, sources, gateway, restartFaults>>

StartHelper ==
    /\ exec.phase = "starting"
    /\ helper' = [helper EXCEPT ![exec.run] = "boot"]
    /\ runFile' = runMem /\ exec' = NoExec
    /\ UNCHANGED <<runMem, lastRun, ending, act, late, lifecycle, ctl, box, bad, command, sources, gateway, restartFaults>>

\* The finally block of a run without an activation: release, then save latestRun.
EndRun(r) ==
    /\ r \in ending /\ ending' = ending \ {r}
    /\ lifecycle' = Released(r)
    /\ runFile' = runMem
    /\ sources' = sources \ {Back(r)}
    /\ UNCHANGED <<runMem, lastRun, exec, act, late, ctl, box, bad, helper, command, gateway, restartFaults>>

-----------------------------------------------------------------------------
(* The controller: start-up and the reconciliation of an activation.       *)

Stopped == ctl' = "down" /\ runMem' = NoRun /\ exec' = NoExec /\ ending' = {} /\ act' = NoAct

ControllerDies ==
    /\ Fault /\ ctl # "down" /\ Stopped
    /\ UNCHANGED <<runFile, lastRun, late, lifecycle, box, bad, helper, command, sources, gateway>>

\* Fault: a run the controller was executing goes on as if nothing had happened.
LoadedAsIs == runFile

\* loadState: a run that was executing has failed, an activation goes on.
Loaded == IF runFile.status = "running" /\ ~runFile.pending THEN Ended(runFile, "failed") ELSE runFile

\* reconcileOrphanLifecycleLock: the label of a run that neither goes on nor has a helper.
Orphan(m) ==
    lifecycle \in RunIds /\ ~(lifecycle = m.id /\ m.status = "running") /\ ~HelperAlive(lifecycle)

ControllerLoads ==
    /\ ctl = "down" /\ ~bad
    /\ ctl' = "loading" /\ runMem' = Loaded
    /\ lifecycle' = IF Orphan(Loaded) \/ (Loaded.status # "running" /\ lifecycle = Loaded.id)
                    THEN NoOwner ELSE lifecycle
    /\ UNCHANGED <<runFile, lastRun, exec, ending, act, late, box, bad, helper, command, sources, gateway, restartFaults>>

ControllerListens ==
    /\ ctl = "loading"
    /\ ctl' = "up" /\ runFile' = runMem
    /\ UNCHANGED <<runMem, lastRun, exec, ending, act, late, lifecycle, box, bad, helper, command, sources, gateway, restartFaults>>

\* Minutes away: the helper's container starts before it.
DeadlinePasses ==
    /\ Activating(runMem) /\ ~late /\ exec.phase # "starting"
    /\ late' = TRUE
    /\ UNCHANGED <<runFile, runMem, lastRun, exec, ending, act, lifecycle, ctl, box, bad, helper, command, sources, gateway, restartFaults>>

\* The helper may have written to the file what the controller did not hear.
FileDecided == runFile.id = runMem.id /\ (runFile.status = "failed" \/ runFile.rolling)
Adopted     == IF FileDecided THEN runFile ELSE runMem

ActivationOpen == ctl = "up" /\ act = NoAct /\ Activating(runMem)

AdoptFailure ==
    /\ ActivationOpen /\ FileDecided
    /\ runMem' = runFile
    /\ UNCHANGED <<runFile, lastRun, exec, ending, act, late, lifecycle, ctl, box, bad, helper, command, sources, gateway, restartFaults>>

\* The deadline passed with the helper still there: it is stopped for good.
KillHelper ==
    /\ ActivationOpen /\ Activating(Adopted) /\ late /\ HelperAlive(runMem.id)
    /\ helper' = [helper EXCEPT ![runMem.id] = "gone"]
    /\ late' = FALSE
    /\ runMem' = Adopted /\ runFile' = Adopted
    /\ UNCHANGED <<lastRun, exec, ending, act, lifecycle, ctl, box, bad, command, sources, gateway, restartFaults>>

\* completePendingActivation up to the save: the rebuilt controller runs, this
\* run is the current one, and the file does not say otherwise.
MayComplete(r) ==
    /\ ActivationOpen /\ runMem.id = r /\ ~runMem.rolling
    /\ box = <<"up", r>> /\ ~FileDecided

CompleteAlone(r) ==
    /\ MayComplete(r) /\ ~HelperAlive(r)
    /\ act' = [op |-> "completeAndRelease", run |-> r]
    /\ UNCHANGED <<runFile, runMem, lastRun, exec, ending, late, lifecycle, ctl, box, bad, helper, command, sources, gateway, restartFaults>>

CompleteSave ==
    /\ act.op \in {"complete", "completeAndRelease"}
    /\ runMem' = Ended(runMem, "completed") /\ runFile' = runMem'
    /\ act' = IF act.op = "complete" THEN NoAct ELSE [act EXCEPT !.op = "release"]
    /\ sources' = sources \ {Back(act.run)}
    /\ UNCHANGED <<lastRun, exec, ending, late, lifecycle, ctl, box, bad, helper, command, gateway, restartFaults>>

\* Fault: the recovery deadline is not looked at when no helper is left.
FailAloneRestored ==
    /\ ActivationOpen /\ Activating(Adopted) /\ ~HelperAlive(runMem.id)
    /\ Adopted.rolling /\ box = <<"back", runMem.id>>
    /\ runMem' = Ended(Adopted, "failed") /\ runFile' = runMem'
    /\ act' = [op |-> "release", run |-> runMem.id]
    /\ UNCHANGED <<lastRun, exec, ending, late, lifecycle, ctl, box, bad, helper, command, sources, gateway, restartFaults>>

\* No helper is left: the rollback is in place, or the deadline has passed.
FailAlone ==
    /\ ActivationOpen /\ Activating(Adopted) /\ ~HelperAlive(runMem.id)
    /\ \/ Adopted.rolling /\ box = <<"back", runMem.id>>
       \/ late /\ ~MayComplete(runMem.id)
    /\ runMem' = Ended(Adopted, "failed") /\ runFile' = runMem'
    /\ act' = [op |-> "release", run |-> runMem.id]
    /\ sources' = IF Adopted.rolling /\ box = <<"back", runMem.id>> THEN sources \ {Back(runMem.id)} ELSE sources
    /\ UNCHANGED <<lastRun, exec, ending, late, lifecycle, ctl, box, bad, helper, command, gateway, restartFaults>>

ReleaseAlone ==
    /\ act.op = "release"
    /\ lifecycle' = Released(act.run) /\ act' = NoAct
    /\ UNCHANGED <<runFile, runMem, lastRun, exec, ending, late, ctl, box, bad, helper, command, sources, gateway, restartFaults>>

-----------------------------------------------------------------------------
(* The activation helper of run r.                                         *)

FileCompleted(r) == runFile.id = r /\ runFile.status = "completed"

StandsAt(r, phase) == helper[r] = phase
GoTo(r, phase) == helper' = [helper EXCEPT ![r] = phase]

HelperBoot(r) ==
    /\ StandsAt(r, "boot")
    /\ GoTo(r, IF FileCompleted(r) THEN "finish"
               ELSE IF runFile.id # r \/ runFile.status = "failed" \/ runFile.rolling THEN "rollback"
               ELSE "up")
    /\ UNCHANGED <<runFile, ctlVars, lastRun, late, lifecycle, ctl, box, bad, command, sources, gateway, restartFaults>>

\* docker compose up recreates the controller; its wait may time out, and the
\* command may fail before it touched the container.
HelperUp(r) ==
    /\ StandsAt(r, "up")
    /\ \/ /\ Stopped /\ box' = <<"up", r>> /\ bad' \in BOOLEAN
          /\ \E next \in {"check"} \cup (IF bad' THEN {} ELSE {"confirm"}) : GoTo(r, next)
       \/ GoTo(r, "check") /\ UNCHANGED <<ctlVars, ctl, box, bad>>
    /\ UNCHANGED <<runFile, lastRun, late, lifecycle, command, sources, gateway, restartFaults>>

\* POST /activation/complete reaches the controller; the helper may not hear of it.
HelperConfirm(r) ==
    /\ StandsAt(r, "confirm") /\ MayComplete(r)
    /\ act' = [op |-> "complete", run |-> r]
    /\ UNCHANGED <<runFile, runMem, lastRun, exec, ending, late, lifecycle, ctl, box, bad, helper, command, sources, gateway, restartFaults>>

\* A later POST, or the answer to this one, finds the run completed.
HelperConfirmed(r) ==
    /\ StandsAt(r, "confirm") /\ ctl = "up" /\ runMem.id = r /\ runMem.status = "completed"
    /\ GoTo(r, "finish")
    /\ UNCHANGED <<runFile, ctlVars, lastRun, late, lifecycle, ctl, box, bad, command, sources, gateway, restartFaults>>

HelperGivesUp(r) ==
    /\ StandsAt(r, "confirm")
    /\ GoTo(r, "check")
    /\ UNCHANGED <<runFile, ctlVars, lastRun, late, lifecycle, ctl, box, bad, command, sources, gateway, restartFaults>>

\* activationNoLongerNeedsRollback, read again at every step before a rollback.
HelperChecks(r) ==
    /\ \/ helper[r] \in {"check", "report", "fail"} /\ FileCompleted(r) /\ GoTo(r, "finish")
       \/ StandsAt(r, "check") /\ ~FileCompleted(r) /\ GoTo(r, "report")
    /\ UNCHANGED <<runFile, ctlVars, lastRun, late, lifecycle, ctl, box, bad, command, sources, gateway, restartFaults>>

\* POST /activation/rollback: markActivationRollbackStarting.
HelperReports(r) ==
    /\ StandsAt(r, "report") /\ ActivationOpen /\ runMem.id = r
    /\ runMem' = [runMem EXCEPT !.rolling = TRUE] /\ runFile' = runMem'
    /\ late' = FALSE /\ GoTo(r, "rollback")
    /\ UNCHANGED <<lastRun, exec, ending, act, lifecycle, ctl, box, bad, command, sources, gateway, restartFaults>>

\* No answer: updateRollbackStarting reads the file and writes what it read back,
\* marked; when the file is not that of a running run, it only goes on.
HelperReportLost(r) ==
    /\ StandsAt(r, "report") /\ ~FileCompleted(r)
    /\ GoTo(r, IF runFile.id = r /\ runFile.status = "running" THEN "mark" ELSE "rollback")
    /\ UNCHANGED <<runFile, ctlVars, lastRun, late, lifecycle, ctl, box, bad, command, sources, gateway, restartFaults>>

HelperMarks(r) ==
    /\ StandsAt(r, "mark")
    /\ runFile' = Run(r, "running", TRUE, TRUE)
    /\ late' = FALSE /\ GoTo(r, "rollback")
    /\ UNCHANGED <<ctlVars, lastRun, lifecycle, ctl, box, bad, command, sources, gateway, restartFaults>>

\* The previous container is recreated, which may fail before or after it stops this one.
HelperRollsBack(r) ==
    /\ StandsAt(r, "rollback") /\ GoTo(r, "fail")
    /\ \/ Stopped /\ box' = <<"back", r>> /\ bad' \in BOOLEAN
       \/ UNCHANGED <<ctlVars, ctl, box, bad>>
    /\ UNCHANGED <<runFile, lastRun, late, lifecycle, command, sources, gateway, restartFaults>>

\* POST /activation/fail: failPendingActivation.
HelperFails(r) ==
    /\ StandsAt(r, "fail") /\ ctl = "up" /\ act = NoAct /\ runMem.id = r
    /\ Activating(runMem) \/ runMem.status = "failed"
    /\ runMem' = Ended(runMem, "failed") /\ runFile' = runMem'
    /\ GoTo(r, "finish")
    /\ UNCHANGED <<lastRun, exec, ending, act, late, lifecycle, ctl, box, bad, command, sources, gateway, restartFaults>>

\* No answer: updateFailure reads the file and writes it back as failed.
HelperFailLost(r) ==
    /\ StandsAt(r, "fail")
    /\ GoTo(r, IF runFile.id = r /\ runFile.status # "completed" THEN "markFailed" ELSE "finish")
    /\ UNCHANGED <<runFile, ctlVars, lastRun, late, lifecycle, ctl, box, bad, command, sources, gateway, restartFaults>>

HelperMarksFailed(r) ==
    /\ StandsAt(r, "markFailed")
    /\ runFile' = Run(r, "failed", FALSE, FALSE)
    /\ GoTo(r, "finish")
    /\ UNCHANGED <<ctlVars, lastRun, late, lifecycle, ctl, box, bad, command, sources, gateway, restartFaults>>

\* finish: no restart of the helper any more, then the lock is released.
HelperFinishes(r) ==
    /\ \/ StandsAt(r, "finish") /\ GoTo(r, "release") /\ sources' = sources \ {Back(r)} /\ UNCHANGED lifecycle
       \/ StandsAt(r, "release") /\ GoTo(r, "gone") /\ lifecycle' = Released(r) /\ UNCHANGED sources
    /\ UNCHANGED <<runFile, ctlVars, lastRun, late, ctl, box, bad, command, gateway, restartFaults>>

\* Docker restarts the helper unless its restart policy was removed.
HelperDies(r) ==
    /\ Fault /\ HelperAlive(r)
    /\ GoTo(r, IF StandsAt(r, "release") THEN "gone" ELSE "boot")
    /\ UNCHANGED <<runFile, ctlVars, lastRun, late, lifecycle, ctl, box, bad, command, sources, gateway>>

HelperStep(r) ==
    \/ HelperBoot(r) \/ HelperUp(r) \/ HelperConfirmed(r) \/ HelperGivesUp(r)
    \/ HelperChecks(r) \/ HelperReports(r) \/ HelperReportLost(r) \/ HelperMarks(r)
    \/ HelperRollsBack(r) \/ HelperFails(r) \/ HelperFailLost(r) \/ HelperMarksFailed(r)
    \/ HelperFinishes(r)

-----------------------------------------------------------------------------
(* The shell commands of manor.sh.                                         *)

\* Fault: the shell takes the lock of a dead controller without looking for a helper.
RunIsOverUnlessUp(r) ==
    ctl = "down" \/ (runFile.id = r /\ runFile.status # "running")

\* The lock of a run may be taken when Docker shows no helper of it and the
\* controller is gone, unhealthy, or has saved that the run ended.
RunIsOver(r) ==
    /\ ~HelperAlive(r)
    /\ ctl = "down" \/ (runFile.id = r /\ runFile.status # "running")

CommandLocks(c) ==
    /\ command[c] = "idle"
    /\ \/ lifecycle = NoOwner
       \/ lifecycle \in Commands /\ command[lifecycle] = "dead"
       \/ lifecycle \in RunIds /\ RunIsOver(lifecycle)
    /\ lifecycle' = c /\ command' = [command EXCEPT ![c] = "held"]
    /\ UNCHANGED <<runFile, ctlVars, lastRun, late, ctl, box, bad, helper, sources, gateway, restartFaults>>

\* The command recreates the services, the controller among them.
CommandRecreates(c) ==
    /\ command[c] = "held" /\ box # <<"shell", c>>
    /\ Stopped /\ box' = <<"shell", c>> /\ bad' = FALSE /\ gateway' = Tree
    /\ UNCHANGED <<runFile, lastRun, late, lifecycle, helper, command, sources, restartFaults>>

CommandEnds(c) ==
    /\ command[c] = "held"
    /\ lifecycle' = Released(c) /\ command' = [command EXCEPT ![c] = "idle"]
    /\ UNCHANGED <<runFile, ctlVars, lastRun, late, ctl, box, bad, helper, sources, gateway, restartFaults>>

\* Killed: the heartbeat of its lease stops and the lock stays.
CommandDies(c) ==
    /\ Fault /\ command[c] = "held"
    /\ command' = [command EXCEPT ![c] = "dead"]
    /\ UNCHANGED <<runFile, ctlVars, lastRun, late, lifecycle, ctl, box, bad, helper, sources, gateway>>

-----------------------------------------------------------------------------
ControllerStep ==
    \/ AcquireLock \/ RefuseRun \/ Prepare \/ RestartFromTree \/ TreeFails \/ RestartFromHead
    \/ HeadFails \/ WorkFails \/ Schedule \/ StartHelper
    \/ \E r \in RunIds : EndRun(r) \/ CompleteAlone(r)
    \/ ControllerLoads \/ ControllerListens \/ DeadlinePasses \/ AdoptFailure
    \/ KillHelper \/ CompleteSave \/ FailAlone \/ ReleaseAlone

RestartNext ==
    \/ Admit \/ ControllerStep \/ ControllerDies
    \/ \E r \in RunIds : HelperStep(r) \/ HelperConfirm(r) \/ HelperDies(r)
    \/ \E c \in Commands :
          CommandLocks(c) \/ CommandRecreates(c) \/ CommandEnds(c) \/ CommandDies(c)

RestartSpec == RestartInit /\ [][RestartNext]_restartVars

\* Promises settle, Docker restarts the controller (unless-stopped), the
\* reconciler's interval fires and the helper's calls have time limits; a
\* command ends.
RestartFairness ==
    /\ WF_restartVars(ControllerStep)
    /\ \A r \in RunIds : WF_restartVars(HelperStep(r))
    /\ \A c \in Commands : WF_restartVars(CommandEnds(c))

-----------------------------------------------------------------------------
RestartTypeOK ==
    /\ runFile \in Statuses /\ runMem \in Statuses
    /\ lastRun \in 0..MaxRuns
    /\ exec \in [run : RunIds \cup {NoOwner}, phase : {"none", "locking"} \cup Executing,
                 prev : Statuses]
    /\ ending \subseteq RunIds
    /\ act \in [op : {"none", "complete", "completeAndRelease", "release"}, run : RunIds \cup {NoOwner}]
    /\ late \in BOOLEAN /\ bad \in BOOLEAN
    /\ lifecycle \in RunIds \cup Commands \cup {NoOwner}
    /\ ctl \in {"up", "loading", "down"} /\ box \in Boxes
    /\ helper \in [RunIds -> {"none", "boot", "up", "confirm", "check", "report", "mark", "rollback",
                              "fail", "markFailed", "finish", "release", "gone"}]
    /\ command \in [Commands -> {"idle", "held", "dead"}]
    /\ sources \subseteq Exports /\ gateway \in {Tree} \cup ({"head"} \X RunIds)
    /\ restartFaults \in 0..MaxRestartFaults

\* Whoever changes the containers owns the lifecycle lock: a run that builds and
\* restarts services or schedules its activation, a shell command, and the helper
\* of a run that is not decided yet; no takeover, release or orphan removal, by a
\* controller that restarted or a shell that inspects the lock, hits one of them.
LockCoversWork ==
    /\ exec.phase \in Executing => lifecycle = exec.run
    /\ \A c \in Commands : command[c] = "held" => lifecycle = c
    /\ \A r \in RunIds :
          StandsAt(r, "up") /\ runFile.id = r /\ runFile.status = "running" => lifecycle = r

\* The export the gateway's container was created from (it mounts its
\* configuration from there) is removed by nobody but the very run whose
\* fallback failed: not by later runs, their cleanups, helpers or rollbacks.
GatewaySourceKept ==
    [][\A r \in RunIds :
        gateway = CleanHead(r) /\ CleanHead(r) \in sources /\ gateway' = gateway
            => CleanHead(r) \in sources' \/ (exec.run = r /\ exec.phase = "fallback")]_restartVars

\* A controller container that never becomes healthy, with nobody to replace it.
NoController == <>[]bad

\* Every restart ends: the saved run is decided, whichever of the controller,
\* the helper and the commands died, unless no controller comes up any more.
RunSettles ==
    NoController \/ ((runFile.status = "running") ~> (runFile.status # "running"))

\* The lock of a run is given back in the end, or left without a helper and with
\* the run decided, where the next restart, a command or the next start of the
\* controller removes it.
Abandoned(r) == ~HelperAlive(r) /\ ~(runFile.id = r /\ runFile.status = "running")

RunReleasesLock ==
    NoController \/ ((\E r \in RunIds : lifecycle = r)
                        ~> (\A r \in RunIds : lifecycle = r => Abandoned(r)))
=============================================================================
