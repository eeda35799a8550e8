---------------------------- MODULE HostRestartProofs -------------------------
(***************************************************************************)
(* Proofs about the host controller, its helpers and the shell: what it    *)
(* executes or still has to finish is covered by a lock, a gateway keeps   *)
(* the source it was started from, and the state keeps its type, whichever *)
(* process dies at whichever step.                                         *)
(***************************************************************************)
EXTENDS HostRestart, TLAPS

\* Ids are given out once.  Of a run that was not given out, or that the controller
\* still executes or ends, no helper, and so no container, is there.
RunsOfThePast ==
    /\ \A r \in RunIds : r > lastRun => helper[r] = "none" /\ r \notin ending
    /\ exec.phase # "none" => exec.run = lastRun /\ exec.run \in RunIds /\ exec.run \notin ending
                              /\ helper[exec.run] = "none"
    /\ \A r \in ending : helper[r] = "none"
    /\ \A r \in RunIds : box \in {<<"up", r>>, <<"back", r>>} => helper[r] # "none"
    /\ act.op # "none" => act.run \in 1..lastRun
    /\ \A m \in {runFile, runMem, exec.prev} : m.id \in RunIds => m.id <= lastRun
    /\ \A m \in {runFile, runMem} : m.status = "running" => m.id \in RunIds

\* A run under execution is the controller's current one, and nobody decides it in
\* the saved state; it is pending from its schedule on.
CurrentRun ==
    /\ exec.phase # "none" => ctl = "up" /\ runMem.id = exec.run /\ runMem.status = "running"
    /\ exec.phase # "none" => exec.prev.status # "running"
    /\ exec.phase # "none" => (runMem.pending <=> exec.phase = "starting") /\ ~runMem.rolling
    /\ exec.phase # "none" => runFile.rolling \/ runFile.status # "running" \/ runFile.id = exec.run
    /\ exec.phase # "none" /\ runFile.id = exec.run => runFile.status = "running" /\ ~runFile.rolling
    /\ exec.phase = "starting" => ~late
    /\ ctl = "down" => exec.phase = "none" /\ act.op = "none"

\* An activation that is about to be completed, or to be released.
ActivationRun ==
    /\ act.op \in {"complete", "completeAndRelease"} =>
          runMem.id = act.run /\ Activating(runMem) /\ exec.phase = "none"
    /\ act.op \in {"completeAndRelease", "release"} => ~HelperAlive(act.run)
    /\ act.op # "none" /\ exec.phase # "none" => act.run # exec.run

\* A run whose helper lives is pending while it runs, and has the lock until its
\* rollback begins.
Covered(m) ==
    \A r \in RunIds :
        m.id = r /\ m.status = "running" /\ HelperAlive(r) =>
            m.pending /\ (m.rolling \/ lifecycle = r)

\* A run under execution and a command at work own the lock.
Owners ==
    /\ exec.phase \in Executing => lifecycle = exec.run
    /\ \A c \in Commands : command[c] = "held" => lifecycle = c

\* A helper about to recreate the controller has not been told to roll back, and
\* what the controller knows of a rollback the file does not deny.
NotRollingYet(m) ==
    \A r \in RunIds : m.id = r /\ m.status = "running" /\ m.rolling => ~StandsAt(r, "up")

RollbackSaved ==
    runMem.status = "running" /\ runMem.rolling /\ runFile.id = runMem.id /\ runFile.status = "running"
        => runFile.rolling

HostSafe ==
    /\ RunsOfThePast /\ CurrentRun /\ ActivationRun /\ Covered(runFile) /\ Covered(runMem)
    /\ Owners /\ NotRollingYet(runFile) /\ NotRollingYet(runMem) /\ RollbackSaved

HostInv == RestartTypeOK /\ HostSafe

\* The bounds are numbers, and a run is told from nobody and from a command.
LEMMA RunIdsAre ==
    /\ MaxRuns \in Nat /\ MaxRestartFaults \in Nat /\ RunIds \subseteq Nat
    /\ NoOwner \notin RunIds /\ NoOwner \notin Commands
    /\ \A r \in RunIds : r \notin Commands /\ r \in 1..MaxRuns
  BY HostRestartAssumption DEF RunIds

\* A run as it is made, or ended, is of the right kind, and says what it says.
LEMMA RunIs ==
    ASSUME NEW id \in RunIds \cup {NoOwner}, NEW status \in {"running", "completed", "failed"},
           NEW pending \in BOOLEAN, NEW rolling \in BOOLEAN
    PROVE  LET m == Run(id, status, pending, rolling)
           IN  /\ m \in Statuses /\ m.id = id /\ m.status = status
               /\ (m.pending <=> pending) /\ (m.rolling <=> rolling)
  BY DEF Run, Statuses

\* A state that was ended keeps its id, and is pending no more.
LEMMA EndedIs ==
    ASSUME NEW m \in Statuses, NEW status \in {"completed", "failed"}
    PROVE  /\ Ended(m, status) \in Statuses /\ Ended(m, status).id = m.id
           /\ Ended(m, status).status = status /\ Ended(m, status).status # "running"
           /\ ~Ended(m, status).pending /\ ~Ended(m, status).rolling
  BY DEF Ended, Statuses

\* What a saved status is made of.
LEMMA StatusesAre ==
    ASSUME NEW m \in Statuses
    PROVE  /\ m.id \in RunIds \cup {NoOwner} /\ m.status \in {"running", "completed", "failed"}
           /\ m.pending \in BOOLEAN /\ m.rolling \in BOOLEAN
  BY DEF Statuses

\* No run is over.
LEMMA NoRunIs == NoRun \in Statuses /\ NoRun.id = NoOwner /\ NoRun.status # "running"
  BY RunIs DEF NoRun

\* Containers and sources are told apart by who made them.
LEMMA BoxesAre ==
    /\ <<"first", NoOwner>> \in Boxes
    /\ \A r \in RunIds : <<"up", r>> \in Boxes /\ <<"back", r>> \in Boxes
    /\ \A c \in Commands : <<"shell", c>> \in Boxes
    /\ \A r, q \in RunIds : /\ <<"up", r>> = <<"up", q>> => r = q
                            /\ <<"back", r>> = <<"back", q>> => r = q
                            /\ <<"up", r>> # <<"back", q>>
                            /\ <<"first", NoOwner>> # <<"up", r>> /\ <<"first", NoOwner>> # <<"back", r>>
    /\ \A r \in RunIds, c \in Commands : <<"shell", c>> # <<"up", r>> /\ <<"shell", c>> # <<"back", r>>
  BY DEF Boxes

\* A run's exported source and the one it goes back to are told apart, and from the tree.
LEMMA SourcesAre ==
    \A r, q \in RunIds : /\ CleanHead(r) \in Exports /\ Back(r) \in Exports
                         /\ CleanHead(r) # Back(q) /\ CleanHead(r) # Tree
                         /\ CleanHead(r) = CleanHead(q) => r = q
  BY DEF CleanHead, Back, Tree, Exports

\* What is released is one's own lock.
LEMMA ReleasedIs ==
    ASSUME NEW owner
    PROVE  /\ lifecycle # owner => Released(owner) = lifecycle
           /\ lifecycle = owner => Released(owner) = NoOwner
  BY DEF Released

\* A helper moves; the others stay.
LEMMA HelperMoves ==
    ASSUME RestartTypeOK, NEW r \in RunIds, NEW phase, GoTo(r, phase)
    PROVE  /\ helper'[r] = phase
           /\ \A q \in RunIds : q # r => helper'[q] = helper[q]
  BY DEF GoTo, RestartTypeOK

\* The invariant holds when the host controller begins.
LEMMA HostInitInv == RestartInit => HostInv
PROOF
  <1> SUFFICES ASSUME RestartInit PROVE HostInv
    OBVIOUS
  <1>1. NoExec \in [run : RunIds \cup {NoOwner}, phase : {"none", "locking"} \cup Executing, prev : Statuses]
        /\ NoExec.phase = "none" /\ NoExec.phase \notin Executing /\ NoExec.prev = NoRun
    BY NoRunIs DEF NoExec, Executing
  <1>2. NoAct \in [op : {"none", "complete", "completeAndRelease", "release"}, run : RunIds \cup {NoOwner}]
        /\ NoAct.op = "none"
    BY DEF NoAct
  <1>3. RestartTypeOK
    <2>1. runFile \in Statuses /\ runMem \in Statuses /\ lastRun \in 0..MaxRuns
      BY NoRunIs, RunIdsAre DEF RestartInit
    <2>2. late \in BOOLEAN /\ bad \in BOOLEAN
      BY DEF RestartInit
    <2>3. box \in Boxes /\ restartFaults \in 0..MaxRestartFaults
      BY BoxesAre, RunIdsAre DEF RestartInit
    <2> QED
      BY <1>1, <1>2, <2>1, <2>2, <2>3 DEF RestartInit, RestartTypeOK
  <1>4. RunsOfThePast
    BY <1>1, <1>2, BoxesAre, NoRunIs, RunIdsAre DEF RestartInit, RunsOfThePast
  <1>5. CurrentRun
    BY <1>1 DEF RestartInit, CurrentRun
  <1>6. ActivationRun
    BY <1>2 DEF RestartInit, ActivationRun
  <1>7. Covered(runFile) /\ Covered(runMem)
    BY NoRunIs, RunIdsAre DEF RestartInit, Covered
  <1>8. Owners /\ NotRollingYet(runFile) /\ NotRollingYet(runMem) /\ RollbackSaved
    BY <1>1, NoRunIs, RunIdsAre DEF RestartInit, Owners, NotRollingYet, RollbackSaved, StandsAt
  <1> QED
    BY <1>3, <1>4, <1>5, <1>6, <1>7, <1>8 DEF HostInv, HostSafe

ExecRecs == [run : RunIds \cup {NoOwner}, phase : {"none", "locking"} \cup Executing, prev : Statuses]
ActRecs  == [op : {"none", "complete", "completeAndRelease", "release"}, run : RunIds \cup {NoOwner}]

Stands == {"none", "boot", "up", "confirm", "check", "report", "mark", "rollback",
           "fail", "markFailed", "finish", "release", "gone"}

\* The execution after each of its changes.
LEMMA ExecIs ==
    /\ NoExec \in ExecRecs /\ NoExec.phase = "none" /\ NoExec.prev = NoRun
    /\ \A r \in RunIds \cup {NoOwner}, phase \in {"none", "locking"} \cup Executing, prev \in Statuses :
          [run |-> r, phase |-> phase, prev |-> prev] \in ExecRecs
    /\ \A e \in ExecRecs, phase \in {"none", "locking"} \cup Executing :
          LET f == [e EXCEPT !.phase = phase]
          IN  f \in ExecRecs /\ f.phase = phase /\ f.run = e.run /\ f.prev = e.prev
    /\ {"work", "build", "restart", "fallback", "activate", "starting"} = Executing
    /\ "none" \notin Executing /\ "locking" \notin Executing
  BY NoRunIs DEF NoExec, ExecRecs, Executing

\* The activation after each of its changes.
LEMMA ActIs ==
    /\ NoAct \in ActRecs /\ NoAct.op = "none"
    /\ \A r \in RunIds \cup {NoOwner}, op \in {"none", "complete", "completeAndRelease", "release"} :
          [op |-> op, run |-> r] \in ActRecs
    /\ \A a \in ActRecs, op \in {"none", "complete", "completeAndRelease", "release"} :
          LET b == [a EXCEPT !.op = op] IN b \in ActRecs /\ b.op = op /\ b.run = a.run
    /\ \A a \in ActRecs : a = NoAct => a.op = "none"
  BY DEF NoAct, ActRecs

\* What is stopped is a controller without memory of its runs.
LEMMA StoppedIs ==
    Stopped => /\ ctl' = "down" /\ runMem' = NoRun /\ exec' = NoExec /\ ending' = {} /\ act' = NoAct
  BY DEF Stopped

\* A step of the host controller keeps the types.
LEMMA HostTypeStep == HostInv /\ [RestartNext]_restartVars => RestartTypeOK'
PROOF
  <1> SUFFICES ASSUME HostInv, [RestartNext]_restartVars PROVE RestartTypeOK'
    OBVIOUS
  <1>1. /\ runFile \in Statuses /\ runMem \in Statuses
        /\ exec \in ExecRecs /\ act \in ActRecs
        /\ ending \subseteq RunIds
        /\ lifecycle \in RunIds \cup Commands \cup {NoOwner}
        /\ helper \in [RunIds -> Stands]
        /\ command \in [Commands -> {"idle", "held", "dead"}]
        /\ sources \subseteq Exports /\ gateway \in {Tree} \cup ({"head"} \X RunIds)
        /\ box \in Boxes /\ ctl \in {"up", "loading", "down"}
    BY DEF HostInv, RestartTypeOK, ExecRecs, ActRecs, Stands
  <1>2. lastRun \in 0..MaxRuns /\ restartFaults \in 0..MaxRestartFaults
    BY DEF HostInv, RestartTypeOK
  <1>3. late \in BOOLEAN /\ bad \in BOOLEAN
    BY DEF HostInv, RestartTypeOK
  <1>4. exec.phase # "none" => exec.run \in RunIds
    BY DEF HostInv, HostSafe, RunsOfThePast
  <1>5. act.op # "none" => act.run \in RunIds
    BY <1>1, <1>2, RunIdsAre DEF HostInv, HostSafe, RunsOfThePast, RunIds
  <1>6. exec.run \in RunIds \cup {NoOwner} /\ exec.prev \in Statuses
    BY <1>1 DEF ExecRecs
  <1>7. lastRun' \in 0..MaxRuns
    <2>1. CASE Admit
      BY <1>2, <2>1, RunIdsAre DEF Admit
    <2>2. CASE lastRun' = lastRun
      BY <1>2, <2>2
    <2> QED
      BY <2>1, <2>2 DEF RestartNext, ControllerStep, HelperStep, restartVars,
         AcquireLock, RefuseRun, Prepare, RestartFromTree, TreeFails, RestartFromHead, HeadFails, WorkFails,
         Schedule, StartHelper, EndRun, ControllerDies, ControllerLoads, ControllerListens, DeadlinePasses,
         AdoptFailure, KillHelper, CompleteAlone, CompleteSave, FailAlone, ReleaseAlone, HelperBoot,
         HelperUp, HelperConfirm, HelperConfirmed, HelperGivesUp, HelperChecks, HelperReports,
         HelperReportLost, HelperMarks, HelperRollsBack, HelperFails, HelperFailLost, HelperMarksFailed,
         HelperFinishes, HelperDies, CommandLocks, CommandRecreates, CommandEnds, CommandDies
  <1>20. restartFaults' \in 0..MaxRestartFaults
    <2>1. CASE Fault
      BY <1>2, <2>1, RunIdsAre DEF Fault
    <2>2. CASE restartFaults' = restartFaults
      BY <1>2, <2>2
    <2> QED
      BY <2>1, <2>2 DEF RestartNext, ControllerStep, HelperStep, restartVars,
         Admit, AcquireLock, RefuseRun, Prepare, RestartFromTree, TreeFails, RestartFromHead, HeadFails,
         WorkFails, Schedule, StartHelper, EndRun, ControllerDies, ControllerLoads, ControllerListens,
         DeadlinePasses, AdoptFailure, KillHelper, CompleteAlone, CompleteSave, FailAlone, ReleaseAlone,
         HelperBoot, HelperUp, HelperConfirm, HelperConfirmed, HelperGivesUp, HelperChecks, HelperReports,
         HelperReportLost, HelperMarks, HelperRollsBack, HelperFails, HelperFailLost, HelperMarksFailed,
         HelperFinishes, HelperDies, CommandLocks, CommandRecreates, CommandEnds, CommandDies
  <1>8. late' \in BOOLEAN /\ bad' \in BOOLEAN
    <2>1. CASE Admit \/ ControllerStep \/ ControllerDies
      BY <1>3, <2>1 DEF Stopped, ControllerStep, ctlVars,
         Admit, AcquireLock, RefuseRun, Prepare, RestartFromTree, TreeFails, RestartFromHead, HeadFails,
         WorkFails, Schedule, StartHelper, EndRun, ControllerDies, ControllerLoads, ControllerListens,
         DeadlinePasses, AdoptFailure, KillHelper, CompleteAlone, CompleteSave, FailAlone, ReleaseAlone
    <2>2. ASSUME NEW r \in RunIds, HelperStep(r) \/ HelperConfirm(r) \/ HelperDies(r)
          PROVE  late' \in BOOLEAN /\ bad' \in BOOLEAN
      BY <1>3, <2>2 DEF Stopped, HelperStep, ctlVars,
         HelperBoot, HelperUp, HelperConfirm, HelperConfirmed, HelperGivesUp, HelperChecks, HelperReports,
         HelperReportLost, HelperMarks, HelperRollsBack, HelperFails, HelperFailLost, HelperMarksFailed,
         HelperFinishes, HelperDies
    <2>3. ASSUME NEW c \in Commands, CommandLocks(c) \/ CommandRecreates(c) \/ CommandEnds(c) \/ CommandDies(c)
          PROVE  late' \in BOOLEAN /\ bad' \in BOOLEAN
      BY <1>3, <2>3 DEF Stopped, ctlVars, CommandLocks, CommandRecreates, CommandEnds, CommandDies
    <2>4. CASE UNCHANGED restartVars
      BY <1>3, <2>4 DEF restartVars, ctlVars
    <2> QED
      BY <2>1, <2>2, <2>3, <2>4 DEF RestartNext
  <1>9. ctl' \in {"up", "loading", "down"} /\ box' \in Boxes
    <2>1. CASE Admit \/ ControllerStep \/ ControllerDies
      BY <1>1, BoxesAre, <2>1 DEF Stopped, ControllerStep, ctlVars,
         Admit, AcquireLock, RefuseRun, Prepare, RestartFromTree, TreeFails, RestartFromHead, HeadFails,
         WorkFails, Schedule, StartHelper, EndRun, ControllerDies, ControllerLoads, ControllerListens,
         DeadlinePasses, AdoptFailure, KillHelper, CompleteAlone, CompleteSave, FailAlone, ReleaseAlone
    <2>2. ASSUME NEW r \in RunIds, HelperStep(r) \/ HelperConfirm(r) \/ HelperDies(r)
          PROVE  ctl' \in {"up", "loading", "down"} /\ box' \in Boxes
      BY <1>1, BoxesAre, <2>2 DEF Stopped, HelperStep, ctlVars,
         HelperBoot, HelperUp, HelperConfirm, HelperConfirmed, HelperGivesUp, HelperChecks, HelperReports,
         HelperReportLost, HelperMarks, HelperRollsBack, HelperFails, HelperFailLost, HelperMarksFailed,
         HelperFinishes, HelperDies
    <2>3. ASSUME NEW c \in Commands, CommandLocks(c) \/ CommandRecreates(c) \/ CommandEnds(c) \/ CommandDies(c)
          PROVE  ctl' \in {"up", "loading", "down"} /\ box' \in Boxes
      BY <1>1, BoxesAre, <2>3 DEF Stopped, ctlVars, CommandLocks, CommandRecreates, CommandEnds, CommandDies
    <2>4. CASE UNCHANGED restartVars
      BY <1>1, BoxesAre, <2>4 DEF restartVars, ctlVars
    <2> QED
      BY <2>1, <2>2, <2>3, <2>4 DEF RestartNext
  <1>10. ending' \subseteq RunIds
    BY <1>1, <1>4 DEF RunDone, RunFails, Executing, Stopped, RestartNext, ControllerStep, HelperStep, restartVars, ctlVars,
       Admit, AcquireLock, RefuseRun, Prepare, RestartFromTree, TreeFails, RestartFromHead, HeadFails,
       WorkFails, Schedule, StartHelper, EndRun, ControllerDies, ControllerLoads, ControllerListens,
       DeadlinePasses, AdoptFailure, KillHelper, CompleteAlone, CompleteSave, FailAlone, ReleaseAlone,
       HelperBoot, HelperUp, HelperConfirm, HelperConfirmed, HelperGivesUp, HelperChecks, HelperReports,
       HelperReportLost, HelperMarks, HelperRollsBack, HelperFails, HelperFailLost, HelperMarksFailed,
       HelperFinishes, HelperDies, CommandLocks, CommandRecreates, CommandEnds, CommandDies
  <1>11. sources' \subseteq Exports
    <2>1. CASE Prepare
      BY <2>1, <1>1, <1>4, <1>5, SourcesAre, ExecIs DEF Prepare, Cleaned, RunDone, RunFails, ActivationOpen
    <2>2. CASE RestartFromTree
      BY <2>2, <1>1, <1>4, <1>5, SourcesAre, ExecIs DEF RestartFromTree, Cleaned, RunDone, RunFails, ActivationOpen
    <2>3. CASE TreeFails
      BY <2>3, <1>1, <1>4, <1>5, SourcesAre, ExecIs DEF TreeFails, Cleaned, RunDone, RunFails, ActivationOpen
    <2>4. CASE RestartFromHead
      BY <2>4, <1>1, <1>4, <1>5, SourcesAre, ExecIs DEF RestartFromHead, Cleaned, RunDone, RunFails, ActivationOpen
    <2>5. CASE HeadFails
      BY <2>5, <1>1, <1>4, <1>5, SourcesAre, ExecIs DEF HeadFails, Cleaned, RunDone, RunFails, ActivationOpen
    <2>6. ASSUME NEW r \in RunIds, EndRun(r) PROVE sources' \subseteq Exports
      BY <2>6, <1>1, <1>4, <1>5, SourcesAre, ExecIs DEF EndRun, Cleaned, RunDone, RunFails, ActivationOpen
    <2>7. CASE CompleteSave
      BY <2>7, <1>1, <1>4, <1>5, SourcesAre, ExecIs DEF CompleteSave, Cleaned, RunDone, RunFails, ActivationOpen
    <2>8. CASE FailAlone
      BY <2>8, <1>1, <1>4, <1>5, SourcesAre, ExecIs DEF FailAlone, Cleaned, RunDone, RunFails, ActivationOpen
    <2>9. ASSUME NEW r \in RunIds, HelperFinishes(r) PROVE sources' \subseteq Exports
      BY <2>9, <1>1, <1>4, <1>5, SourcesAre, ExecIs DEF HelperFinishes, Cleaned, RunDone, RunFails, ActivationOpen
    <2>10. CASE UNCHANGED sources
      BY <1>1, <1>2, <2>10
    <2> QED
      BY <2>1, <2>2, <2>3, <2>4, <2>5, <2>6, <2>7, <2>8, <2>9, <2>10
      DEF RestartNext, ControllerStep, HelperStep, restartVars, ctlVars,
         Admit, AcquireLock, RefuseRun, WorkFails, Schedule, StartHelper, ControllerDies, ControllerLoads,
         ControllerListens, DeadlinePasses, AdoptFailure, KillHelper, CompleteAlone, ReleaseAlone,
         HelperBoot, HelperUp, HelperConfirm, HelperConfirmed, HelperGivesUp, HelperChecks, HelperReports,
         HelperReportLost, HelperMarks, HelperRollsBack, HelperFails, HelperFailLost, HelperMarksFailed,
         HelperDies, CommandLocks, CommandRecreates, CommandEnds, CommandDies
  <1>12. gateway' \in {Tree} \cup ({"head"} \X RunIds)
    <2>1. CASE RestartFromTree
      BY <2>1, <1>1, <1>4, ExecIs DEF RestartFromTree, CleanHead
    <2>2. CASE TreeFails
      BY <2>2, <1>1, <1>4, ExecIs DEF TreeFails, CleanHead
    <2>3. CASE RestartFromHead
      BY <2>3, <1>1, <1>4, ExecIs DEF RestartFromHead, CleanHead
    <2>4. CASE HeadFails
      BY <2>4, <1>1, <1>4, ExecIs DEF HeadFails, CleanHead
    <2>5. ASSUME NEW c \in Commands, CommandRecreates(c) PROVE gateway' \in {Tree} \cup ({"head"} \X RunIds)
      BY <2>5, <1>1, <1>4, ExecIs DEF CommandRecreates, CleanHead
    <2>6. CASE UNCHANGED gateway
      BY <1>1, <1>2, <2>6
    <2> QED
      BY <2>1, <2>2, <2>3, <2>4, <2>5, <2>6
      DEF RestartNext, ControllerStep, HelperStep, restartVars, ctlVars,
         Admit, AcquireLock, RefuseRun, Prepare, WorkFails, Schedule, StartHelper, EndRun, ControllerDies,
         ControllerLoads, ControllerListens, DeadlinePasses, AdoptFailure, KillHelper, CompleteAlone,
         CompleteSave, FailAlone, ReleaseAlone, HelperBoot, HelperUp, HelperConfirm, HelperConfirmed,
         HelperGivesUp, HelperChecks, HelperReports, HelperReportLost, HelperMarks, HelperRollsBack,
         HelperFails, HelperFailLost, HelperMarksFailed, HelperFinishes, HelperDies, CommandLocks,
         CommandEnds, CommandDies
  <1>13. lifecycle' \in RunIds \cup Commands \cup {NoOwner}
    <2>1. CASE AcquireLock
      BY <2>1, <1>1, <1>4, ReleasedIs, ExecIs DEF AcquireLock
    <2>2. ASSUME NEW r \in RunIds, EndRun(r) PROVE lifecycle' \in RunIds \cup Commands \cup {NoOwner}
      BY <2>2, <1>1, <1>4, ReleasedIs, ExecIs DEF EndRun
    <2>3. CASE ControllerLoads
      BY <2>3, <1>1, <1>4, ReleasedIs, ExecIs DEF ControllerLoads
    <2>4. CASE ReleaseAlone
      BY <2>4, <1>1, <1>4, ReleasedIs, ExecIs DEF ReleaseAlone
    <2>5. ASSUME NEW r \in RunIds, HelperFinishes(r) PROVE lifecycle' \in RunIds \cup Commands \cup {NoOwner}
      BY <2>5, <1>1, <1>4, ReleasedIs, ExecIs DEF HelperFinishes
    <2>6. ASSUME NEW c \in Commands, CommandLocks(c) PROVE lifecycle' \in RunIds \cup Commands \cup {NoOwner}
      BY <2>6, <1>1, <1>4, ReleasedIs, ExecIs DEF CommandLocks
    <2>7. ASSUME NEW c \in Commands, CommandEnds(c) PROVE lifecycle' \in RunIds \cup Commands \cup {NoOwner}
      BY <2>7, <1>1, <1>4, ReleasedIs, ExecIs DEF CommandEnds
    <2>8. CASE UNCHANGED lifecycle
      BY <1>1, <1>2, <2>8
    <2> QED
      BY <2>1, <2>2, <2>3, <2>4, <2>5, <2>6, <2>7, <2>8
      DEF RestartNext, ControllerStep, HelperStep, restartVars, ctlVars,
         Admit, RefuseRun, Prepare, RestartFromTree, TreeFails, RestartFromHead, HeadFails, WorkFails,
         Schedule, StartHelper, ControllerDies, ControllerListens, DeadlinePasses, AdoptFailure, KillHelper,
         CompleteAlone, CompleteSave, FailAlone, HelperBoot, HelperUp, HelperConfirm, HelperConfirmed,
         HelperGivesUp, HelperChecks, HelperReports, HelperReportLost, HelperMarks, HelperRollsBack,
         HelperFails, HelperFailLost, HelperMarksFailed, HelperDies, CommandRecreates, CommandDies
  <1>14. helper' \in [RunIds -> Stands]
    <2>1. CASE Admit \/ ControllerStep \/ ControllerDies
      BY <1>1, <1>4, <2>1 DEF GoTo, Stands, Stopped, ControllerStep, ctlVars,
         Admit, AcquireLock, RefuseRun, Prepare, RestartFromTree, TreeFails, RestartFromHead, HeadFails,
         WorkFails, Schedule, StartHelper, EndRun, ControllerDies, ControllerLoads, ControllerListens,
         DeadlinePasses, AdoptFailure, KillHelper, CompleteAlone, CompleteSave, FailAlone, ReleaseAlone
    <2>2. ASSUME NEW r \in RunIds, HelperStep(r) \/ HelperConfirm(r) \/ HelperDies(r)
          PROVE  helper' \in [RunIds -> Stands]
      BY <1>1, <1>4, <2>2 DEF GoTo, Stands, Stopped, HelperStep, ctlVars,
         HelperBoot, HelperUp, HelperConfirm, HelperConfirmed, HelperGivesUp, HelperChecks, HelperReports,
         HelperReportLost, HelperMarks, HelperRollsBack, HelperFails, HelperFailLost, HelperMarksFailed,
         HelperFinishes, HelperDies
    <2>3. ASSUME NEW c \in Commands, CommandLocks(c) \/ CommandRecreates(c) \/ CommandEnds(c) \/ CommandDies(c)
          PROVE  helper' \in [RunIds -> Stands]
      BY <1>1, <1>4, <2>3 DEF Stopped, ctlVars, CommandLocks, CommandRecreates, CommandEnds, CommandDies
    <2>4. CASE UNCHANGED restartVars
      BY <1>1, <1>4, <2>4 DEF restartVars, ctlVars
    <2> QED
      BY <2>1, <2>2, <2>3, <2>4 DEF RestartNext
  <1>15. command' \in [Commands -> {"idle", "held", "dead"}]
    BY <1>1 DEF Stopped, RestartNext, ControllerStep, HelperStep, restartVars, ctlVars,
       Admit, AcquireLock, RefuseRun, Prepare, RestartFromTree, TreeFails, RestartFromHead, HeadFails,
       WorkFails, Schedule, StartHelper, EndRun, ControllerDies, ControllerLoads, ControllerListens,
       DeadlinePasses, AdoptFailure, KillHelper, CompleteAlone, CompleteSave, FailAlone, ReleaseAlone,
       HelperBoot, HelperUp, HelperConfirm, HelperConfirmed, HelperGivesUp, HelperChecks, HelperReports,
       HelperReportLost, HelperMarks, HelperRollsBack, HelperFails, HelperFailLost, HelperMarksFailed,
       HelperFinishes, HelperDies, CommandLocks, CommandRecreates, CommandEnds, CommandDies
  <1>16. exec' \in ExecRecs
    <2>1. CASE Admit
      <3>1. lastRun' \in RunIds
        BY <1>2, <2>1, RunIdsAre DEF Admit, RunIds
      <3> QED
        BY <1>1, <2>1, <3>1, ExecIs DEF Admit
    <2>2. CASE AcquireLock
      BY <2>2, <1>1, <1>4, <1>6, ExecIs, RunIdsAre DEF AcquireLock, RunDone, RunFails, Stopped, ctlVars
    <2>3. CASE RefuseRun
      BY <2>3, <1>1, <1>4, <1>6, ExecIs, RunIdsAre DEF RefuseRun, RunDone, RunFails, Stopped, ctlVars
    <2>4. CASE Prepare
      BY <2>4, <1>1, <1>4, <1>6, ExecIs, RunIdsAre DEF Prepare, RunDone, RunFails, Stopped, ctlVars
    <2>5. CASE RestartFromTree
      BY <2>5, <1>1, <1>4, <1>6, ExecIs, RunIdsAre DEF RestartFromTree, RunDone, RunFails, Stopped, ctlVars
    <2>6. CASE TreeFails
      BY <2>6, <1>1, <1>4, <1>6, ExecIs, RunIdsAre DEF TreeFails, RunDone, RunFails, Stopped, ctlVars
    <2>7. CASE RestartFromHead
      BY <2>7, <1>1, <1>4, <1>6, ExecIs, RunIdsAre DEF RestartFromHead, RunDone, RunFails, Stopped, ctlVars
    <2>8. CASE HeadFails
      BY <2>8, <1>1, <1>4, <1>6, ExecIs, RunIdsAre DEF HeadFails, RunDone, RunFails, Stopped, ctlVars
    <2>9. CASE WorkFails
      BY <2>9, <1>1, <1>4, <1>6, ExecIs, RunIdsAre DEF WorkFails, RunDone, RunFails, Stopped, ctlVars
    <2>10. CASE Schedule
      BY <2>10, <1>1, <1>4, <1>6, ExecIs, RunIdsAre DEF Schedule, RunDone, RunFails, Stopped, ctlVars
    <2>11. CASE StartHelper
      BY <2>11, <1>1, <1>4, <1>6, ExecIs, RunIdsAre DEF StartHelper, RunDone, RunFails, Stopped, ctlVars
    <2>12. CASE ControllerDies
      BY <2>12, <1>1, <1>4, <1>6, ExecIs, RunIdsAre DEF ControllerDies, RunDone, RunFails, Stopped, ctlVars
    <2>13. ASSUME NEW r \in RunIds, HelperUp(r) PROVE exec' \in ExecRecs
      BY <2>13, <1>1, <1>4, <1>6, ExecIs, RunIdsAre DEF HelperUp, RunDone, RunFails, Stopped, ctlVars
    <2>14. ASSUME NEW r \in RunIds, HelperRollsBack(r) PROVE exec' \in ExecRecs
      BY <2>14, <1>1, <1>4, <1>6, ExecIs, RunIdsAre DEF HelperRollsBack, RunDone, RunFails, Stopped, ctlVars
    <2>15. ASSUME NEW c \in Commands, CommandRecreates(c) PROVE exec' \in ExecRecs
      BY <2>15, <1>1, <1>4, <1>6, ExecIs, RunIdsAre DEF CommandRecreates, RunDone, RunFails, Stopped, ctlVars
    <2>16. CASE UNCHANGED exec
      BY <1>1, <1>2, <2>16
    <2> QED
      BY <2>1, <2>2, <2>3, <2>4, <2>5, <2>6, <2>7, <2>8, <2>9, <2>10, <2>11, <2>12, <2>13, <2>14, <2>15, <2>16
      DEF RestartNext, ControllerStep, HelperStep, restartVars, ctlVars,
         EndRun, ControllerLoads, ControllerListens, DeadlinePasses, AdoptFailure, KillHelper, CompleteAlone,
         CompleteSave, FailAlone, ReleaseAlone, HelperBoot, HelperConfirm, HelperConfirmed, HelperGivesUp,
         HelperChecks, HelperReports, HelperReportLost, HelperMarks, HelperFails, HelperFailLost,
         HelperMarksFailed, HelperFinishes, HelperDies, CommandLocks, CommandEnds, CommandDies
  <1>17. act' \in ActRecs
    <2>1. CASE ControllerDies
      BY <2>1, <1>1, <1>5, ActIs, StatusesAre DEF ControllerDies, Stopped, ActivationOpen, MayComplete, ctlVars
    <2>2. ASSUME NEW r \in RunIds, CompleteAlone(r) PROVE act' \in ActRecs
      BY <2>2, <1>1, <1>5, ActIs, StatusesAre DEF CompleteAlone, Stopped, ActivationOpen, MayComplete, ctlVars
    <2>3. CASE CompleteSave
      BY <2>3, <1>1, <1>5, ActIs, StatusesAre DEF CompleteSave, Stopped, ActivationOpen, MayComplete, ctlVars
    <2>4. CASE FailAlone
      BY <2>4, <1>1, <1>5, ActIs, StatusesAre DEF FailAlone, Stopped, ActivationOpen, MayComplete, ctlVars
    <2>5. CASE ReleaseAlone
      BY <2>5, <1>1, <1>5, ActIs, StatusesAre DEF ReleaseAlone, Stopped, ActivationOpen, MayComplete, ctlVars
    <2>6. ASSUME NEW r \in RunIds, HelperUp(r) PROVE act' \in ActRecs
      BY <2>6, <1>1, <1>5, ActIs, StatusesAre DEF HelperUp, Stopped, ActivationOpen, MayComplete, ctlVars
    <2>7. ASSUME NEW r \in RunIds, HelperConfirm(r) PROVE act' \in ActRecs
      BY <2>7, <1>1, <1>5, ActIs, StatusesAre DEF HelperConfirm, Stopped, ActivationOpen, MayComplete, ctlVars
    <2>8. ASSUME NEW r \in RunIds, HelperRollsBack(r) PROVE act' \in ActRecs
      BY <2>8, <1>1, <1>5, ActIs, StatusesAre DEF HelperRollsBack, Stopped, ActivationOpen, MayComplete, ctlVars
    <2>9. ASSUME NEW c \in Commands, CommandRecreates(c) PROVE act' \in ActRecs
      BY <2>9, <1>1, <1>5, ActIs, StatusesAre DEF CommandRecreates, Stopped, ActivationOpen, MayComplete, ctlVars
    <2>10. CASE UNCHANGED act
      BY <1>1, <1>2, <2>10
    <2> QED
      BY <2>1, <2>2, <2>3, <2>4, <2>5, <2>6, <2>7, <2>8, <2>9, <2>10
      DEF RestartNext, ControllerStep, HelperStep, restartVars, ctlVars,
         Admit, AcquireLock, RefuseRun, Prepare, RestartFromTree, TreeFails, RestartFromHead, HeadFails,
         WorkFails, Schedule, StartHelper, EndRun, ControllerLoads, ControllerListens, DeadlinePasses,
         AdoptFailure, KillHelper, HelperBoot, HelperConfirmed, HelperGivesUp, HelperChecks, HelperReports,
         HelperReportLost, HelperMarks, HelperFails, HelperFailLost, HelperMarksFailed, HelperFinishes,
         HelperDies, CommandLocks, CommandEnds, CommandDies
  <1>18. runMem' \in Statuses
    <2>1. CASE Admit
      <3>1. lastRun' \in RunIds
        BY <1>2, <2>1, RunIdsAre DEF Admit, RunIds
      <3> QED
        BY <2>1, <3>1, RunIs DEF Admit, Fresh
    <2>2. CASE RefuseRun
      BY <2>2, <1>1, <1>4, <1>5, <1>6, RunIs, EndedIs, NoRunIs, RunIdsAre, ExecIs DEF RefuseRun, RunDone, RunFails, Stopped, ctlVars, Fresh, Adopted, Loaded
    <2>3. CASE RestartFromTree
      BY <2>3, <1>1, <1>4, <1>5, <1>6, RunIs, EndedIs, NoRunIs, RunIdsAre, ExecIs DEF RestartFromTree, RunDone, RunFails, Stopped, ctlVars, Fresh, Adopted, Loaded
    <2>4. CASE RestartFromHead
      BY <2>4, <1>1, <1>4, <1>5, <1>6, RunIs, EndedIs, NoRunIs, RunIdsAre, ExecIs DEF RestartFromHead, RunDone, RunFails, Stopped, ctlVars, Fresh, Adopted, Loaded
    <2>5. CASE HeadFails
      BY <2>5, <1>1, <1>4, <1>5, <1>6, RunIs, EndedIs, NoRunIs, RunIdsAre, ExecIs DEF HeadFails, RunDone, RunFails, Stopped, ctlVars, Fresh, Adopted, Loaded
    <2>6. CASE WorkFails
      BY <2>6, <1>1, <1>4, <1>5, <1>6, RunIs, EndedIs, NoRunIs, RunIdsAre, ExecIs DEF WorkFails, RunDone, RunFails, Stopped, ctlVars, Fresh, Adopted, Loaded
    <2>7. CASE Schedule
      BY <2>7, <1>1, <1>4, <1>5, <1>6, RunIs, EndedIs, NoRunIs, RunIdsAre, ExecIs DEF Schedule, RunDone, RunFails, Stopped, ctlVars, Fresh, Adopted, Loaded
    <2>8. CASE ControllerDies
      BY <2>8, <1>1, <1>4, <1>5, <1>6, RunIs, EndedIs, NoRunIs, RunIdsAre, ExecIs DEF ControllerDies, RunDone, RunFails, Stopped, ctlVars, Fresh, Adopted, Loaded
    <2>9. CASE ControllerLoads
      BY <2>9, <1>1, <1>4, <1>5, <1>6, RunIs, EndedIs, NoRunIs, RunIdsAre, ExecIs DEF ControllerLoads, RunDone, RunFails, Stopped, ctlVars, Fresh, Adopted, Loaded
    <2>10. CASE AdoptFailure
      BY <2>10, <1>1, <1>4, <1>5, <1>6, RunIs, EndedIs, NoRunIs, RunIdsAre, ExecIs DEF AdoptFailure, RunDone, RunFails, Stopped, ctlVars, Fresh, Adopted, Loaded
    <2>11. CASE KillHelper
      BY <2>11, <1>1, <1>4, <1>5, <1>6, RunIs, EndedIs, NoRunIs, RunIdsAre, ExecIs DEF KillHelper, RunDone, RunFails, Stopped, ctlVars, Fresh, Adopted, Loaded
    <2>12. CASE CompleteSave
      BY <2>12, <1>1, <1>4, <1>5, <1>6, RunIs, EndedIs, NoRunIs, RunIdsAre, ExecIs DEF CompleteSave, RunDone, RunFails, Stopped, ctlVars, Fresh, Adopted, Loaded
    <2>13. CASE FailAlone
      BY <2>13, <1>1, <1>4, <1>5, <1>6, RunIs, EndedIs, NoRunIs, RunIdsAre, ExecIs DEF FailAlone, RunDone, RunFails, Stopped, ctlVars, Fresh, Adopted, Loaded
    <2>14. ASSUME NEW r \in RunIds, HelperUp(r) PROVE runMem' \in Statuses
      BY <2>14, <1>1, <1>4, <1>5, <1>6, RunIs, EndedIs, NoRunIs, RunIdsAre, ExecIs DEF HelperUp, RunDone, RunFails, Stopped, ctlVars, Fresh, Adopted, Loaded
    <2>15. ASSUME NEW r \in RunIds, HelperReports(r) PROVE runMem' \in Statuses
      BY <1>1, <2>15 DEF HelperReports, Statuses
    <2>16. ASSUME NEW r \in RunIds, HelperRollsBack(r) PROVE runMem' \in Statuses
      BY <2>16, <1>1, <1>4, <1>5, <1>6, RunIs, EndedIs, NoRunIs, RunIdsAre, ExecIs DEF HelperRollsBack, RunDone, RunFails, Stopped, ctlVars, Fresh, Adopted, Loaded
    <2>17. ASSUME NEW r \in RunIds, HelperFails(r) PROVE runMem' \in Statuses
      BY <2>17, <1>1, <1>4, <1>5, <1>6, RunIs, EndedIs, NoRunIs, RunIdsAre, ExecIs DEF HelperFails, RunDone, RunFails, Stopped, ctlVars, Fresh, Adopted, Loaded
    <2>18. ASSUME NEW c \in Commands, CommandRecreates(c) PROVE runMem' \in Statuses
      BY <2>18, <1>1, <1>4, <1>5, <1>6, RunIs, EndedIs, NoRunIs, RunIdsAre, ExecIs DEF CommandRecreates, RunDone, RunFails, Stopped, ctlVars, Fresh, Adopted, Loaded
    <2>19. CASE UNCHANGED runMem
      BY <1>1, <1>2, <2>19
    <2> QED
      BY <2>1, <2>2, <2>3, <2>4, <2>5, <2>6, <2>7, <2>8, <2>9, <2>10, <2>11, <2>12, <2>13, <2>14, <2>15, <2>16, <2>17, <2>18, <2>19
      DEF RestartNext, ControllerStep, HelperStep, restartVars, ctlVars,
         AcquireLock, Prepare, TreeFails, StartHelper, EndRun, ControllerListens, DeadlinePasses,
         CompleteAlone, ReleaseAlone, HelperBoot, HelperConfirm, HelperConfirmed, HelperGivesUp,
         HelperChecks, HelperReportLost, HelperMarks, HelperFailLost, HelperMarksFailed, HelperFinishes,
         HelperDies, CommandLocks, CommandEnds, CommandDies
  <1>19. runFile' \in Statuses
    <2>1. CASE Admit
      BY <2>1, <1>1, <1>4, <1>5, <1>6, RunIs, EndedIs, NoRunIs, RunIdsAre, ExecIs, <1>18 DEF Admit, RunDone, RunFails, Stopped, ctlVars, Fresh, Adopted, Loaded
    <2>2. CASE RefuseRun
      BY <2>2, <1>1, <1>4, <1>5, <1>6, RunIs, EndedIs, NoRunIs, RunIdsAre, ExecIs, <1>18 DEF RefuseRun, RunDone, RunFails, Stopped, ctlVars, Fresh, Adopted, Loaded
    <2>3. CASE RestartFromTree
      BY <2>3, <1>1, <1>4, <1>5, <1>6, RunIs, EndedIs, NoRunIs, RunIdsAre, ExecIs, <1>18 DEF RestartFromTree, RunDone, RunFails, Stopped, ctlVars, Fresh, Adopted, Loaded
    <2>4. CASE RestartFromHead
      BY <2>4, <1>1, <1>4, <1>5, <1>6, RunIs, EndedIs, NoRunIs, RunIdsAre, ExecIs, <1>18 DEF RestartFromHead, RunDone, RunFails, Stopped, ctlVars, Fresh, Adopted, Loaded
    <2>5. CASE Schedule
      BY <2>5, <1>1, <1>4, <1>5, <1>6, RunIs, EndedIs, NoRunIs, RunIdsAre, ExecIs, <1>18 DEF Schedule, RunDone, RunFails, Stopped, ctlVars, Fresh, Adopted, Loaded
    <2>6. CASE StartHelper
      BY <2>6, <1>1, <1>4, <1>5, <1>6, RunIs, EndedIs, NoRunIs, RunIdsAre, ExecIs, <1>18 DEF StartHelper, RunDone, RunFails, Stopped, ctlVars, Fresh, Adopted, Loaded
    <2>7. ASSUME NEW r \in RunIds, EndRun(r) PROVE runFile' \in Statuses
      BY <2>7, <1>1, <1>4, <1>5, <1>6, RunIs, EndedIs, NoRunIs, RunIdsAre, ExecIs, <1>18 DEF EndRun, RunDone, RunFails, Stopped, ctlVars, Fresh, Adopted, Loaded
    <2>8. CASE ControllerListens
      BY <2>8, <1>1, <1>4, <1>5, <1>6, RunIs, EndedIs, NoRunIs, RunIdsAre, ExecIs, <1>18 DEF ControllerListens, RunDone, RunFails, Stopped, ctlVars, Fresh, Adopted, Loaded
    <2>9. CASE KillHelper
      BY <2>9, <1>1, <1>4, <1>5, <1>6, RunIs, EndedIs, NoRunIs, RunIdsAre, ExecIs, <1>18 DEF KillHelper, RunDone, RunFails, Stopped, ctlVars, Fresh, Adopted, Loaded
    <2>10. CASE CompleteSave
      BY <2>10, <1>1, <1>4, <1>5, <1>6, RunIs, EndedIs, NoRunIs, RunIdsAre, ExecIs, <1>18 DEF CompleteSave, RunDone, RunFails, Stopped, ctlVars, Fresh, Adopted, Loaded
    <2>11. CASE FailAlone
      BY <2>11, <1>1, <1>4, <1>5, <1>6, RunIs, EndedIs, NoRunIs, RunIdsAre, ExecIs, <1>18 DEF FailAlone, RunDone, RunFails, Stopped, ctlVars, Fresh, Adopted, Loaded
    <2>12. ASSUME NEW r \in RunIds, HelperReports(r) PROVE runFile' \in Statuses
      BY <2>12, <1>1, <1>4, <1>5, <1>6, RunIs, EndedIs, NoRunIs, RunIdsAre, ExecIs, <1>18 DEF HelperReports, RunDone, RunFails, Stopped, ctlVars, Fresh, Adopted, Loaded
    <2>13. ASSUME NEW r \in RunIds, HelperMarks(r) PROVE runFile' \in Statuses
      BY <2>13, <1>1, <1>4, <1>5, <1>6, RunIs, EndedIs, NoRunIs, RunIdsAre, ExecIs, <1>18 DEF HelperMarks, RunDone, RunFails, Stopped, ctlVars, Fresh, Adopted, Loaded
    <2>14. ASSUME NEW r \in RunIds, HelperFails(r) PROVE runFile' \in Statuses
      BY <2>14, <1>1, <1>4, <1>5, <1>6, RunIs, EndedIs, NoRunIs, RunIdsAre, ExecIs, <1>18 DEF HelperFails, RunDone, RunFails, Stopped, ctlVars, Fresh, Adopted, Loaded
    <2>15. ASSUME NEW r \in RunIds, HelperMarksFailed(r) PROVE runFile' \in Statuses
      BY <2>15, <1>1, <1>4, <1>5, <1>6, RunIs, EndedIs, NoRunIs, RunIdsAre, ExecIs, <1>18 DEF HelperMarksFailed, RunDone, RunFails, Stopped, ctlVars, Fresh, Adopted, Loaded
    <2>16. CASE UNCHANGED runFile
      BY <1>1, <1>2, <2>16
    <2> QED
      BY <2>1, <2>2, <2>3, <2>4, <2>5, <2>6, <2>7, <2>8, <2>9, <2>10, <2>11, <2>12, <2>13, <2>14, <2>15, <2>16
      DEF RestartNext, ControllerStep, HelperStep, restartVars, ctlVars,
         AcquireLock, Prepare, TreeFails, HeadFails, WorkFails, ControllerDies, ControllerLoads,
         DeadlinePasses, AdoptFailure, CompleteAlone, ReleaseAlone, HelperBoot, HelperUp, HelperConfirm,
         HelperConfirmed, HelperGivesUp, HelperChecks, HelperReportLost, HelperRollsBack, HelperFailLost,
         HelperFinishes, HelperDies, CommandLocks, CommandRecreates, CommandEnds, CommandDies
  <1> QED
    BY <1>7, <1>8, <1>9, <1>10, <1>11, <1>12, <1>13, <1>14, <1>15, <1>16, <1>17, <1>18, <1>19, <1>20
    DEF RestartTypeOK, ExecRecs, ActRecs, Stands

HostTypes ==
    /\ runFile \in Statuses /\ runMem \in Statuses /\ exec.prev \in Statuses
    /\ runFile.id \in RunIds \cup {NoOwner} /\ runMem.id \in RunIds \cup {NoOwner}
    /\ exec.prev.id \in RunIds \cup {NoOwner}
    /\ exec \in ExecRecs /\ act \in ActRecs
    /\ helper \in [RunIds -> Stands] /\ command \in [Commands -> {"idle", "held", "dead"}]
    /\ ending \subseteq RunIds /\ lastRun \in Nat
    /\ lifecycle \in RunIds \cup Commands \cup {NoOwner}
    /\ "none" \notin Executing /\ "locking" \notin Executing /\ NoOwner \notin RunIds
    /\ \A r \in 1..lastRun : r \in RunIds
    /\ ctl \in {"up", "loading", "down"}

\* The invariant says of what type the parts of the state are.
LEMMA HostTyped == HostInv => HostTypes
PROOF
  <1> SUFFICES ASSUME HostInv PROVE HostTypes
    OBVIOUS
  <1>1. lastRun \in Nat /\ \A r \in 1..lastRun : r \in RunIds
    BY RunIdsAre DEF HostInv, RestartTypeOK, RunIds
  <1> QED
    BY <1>1, StatusesAre, ExecIs, RunIdsAre DEF HostInv, HostTypes, RestartTypeOK, ExecRecs, ActRecs, Stands

\* The runs that are made, in words.
LEMMA RunningIs ==
    ASSUME NEW r \in RunIds
    PROVE  /\ Fresh(r).id = r /\ Fresh(r).status = "running" /\ ~Fresh(r).pending /\ ~Fresh(r).rolling
           /\ Run(r, "running", TRUE, FALSE).id = r /\ Run(r, "running", TRUE, FALSE).status = "running"
           /\ Run(r, "running", TRUE, FALSE).pending /\ ~Run(r, "running", TRUE, FALSE).rolling
           /\ Run(r, "running", TRUE, TRUE).id = r /\ Run(r, "running", TRUE, TRUE).status = "running"
           /\ Run(r, "running", TRUE, TRUE).pending /\ Run(r, "running", TRUE, TRUE).rolling
           /\ Run(r, "failed", FALSE, FALSE).id = r /\ Run(r, "failed", FALSE, FALSE).status = "failed"
  BY DEF Fresh, Run

\* A run with a helper, or with a container, was given out.
LEMMA HelperIsOfARun ==
    HostInv => \A r \in RunIds : helper[r] # "none" => r <= lastRun /\ r \in 1..lastRun
  BY RunIdsAre DEF HostInv, HostSafe, RunsOfThePast, RestartTypeOK, RunIds

\* The id given out next is one.
LEMMA NextRun == HostInv /\ lastRun < MaxRuns => lastRun + 1 \in RunIds
  BY RunIdsAre DEF HostInv, RestartTypeOK, RunIds

\* While the controller may decide an activation, it executes no run, unless the
\* helper is just being started, before the deadline and with nothing decided.
LEMMA OpenIsIdle ==
    HostInv /\ ActivationOpen =>
        /\ ctl = "up" /\ act.op = "none" /\ runMem.status = "running" /\ runMem.pending
        /\ runMem.id \in RunIds => runMem.id \in 1..lastRun
        /\ runMem.id \in RunIds
        /\ exec.phase # "none" => ~FileDecided /\ ~runMem.rolling /\ ~late /\ ~HelperAlive(runMem.id)
PROOF
  <1> SUFFICES ASSUME HostInv, ActivationOpen
               PROVE  /\ ctl = "up" /\ act.op = "none" /\ runMem.status = "running" /\ runMem.pending
                      /\ runMem.id \in RunIds => runMem.id \in 1..lastRun
                      /\ runMem.id \in RunIds
                      /\ exec.phase # "none" => ~FileDecided /\ ~runMem.rolling /\ ~late /\ ~HelperAlive(runMem.id)
    OBVIOUS
  <1>1. HostTypes
    BY HostTyped
  <1>2. ctl = "up" /\ act.op = "none" /\ runMem.status = "running" /\ runMem.pending
    BY ActIs DEF ActivationOpen, Activating
  <1>3. runMem.id \in RunIds => runMem.id \in 1..lastRun
    BY RunIdsAre DEF HostInv, HostSafe, RunsOfThePast, RunIds
  <1>4. runMem.id \in RunIds
    BY <1>2 DEF HostInv, HostSafe, RunsOfThePast
  <1>5. exec.phase # "none" => ~FileDecided /\ ~runMem.rolling /\ ~late /\ ~HelperAlive(runMem.id)
    <2>1. CASE exec.phase = "none"
      BY <2>1
    <2>2. CASE exec.phase # "none"
      <3>1. exec.phase = "starting" /\ runMem.id = exec.run /\ ~runMem.rolling
        BY <1>2, <2>2 DEF HostInv, HostSafe, CurrentRun
      <3>2. ~FileDecided
        BY <2>2, <3>1 DEF HostInv, HostSafe, CurrentRun, FileDecided
      <3>3. ~late /\ ~HelperAlive(runMem.id)
        BY <2>2, <3>1 DEF HostInv, HostSafe, CurrentRun, RunsOfThePast, HelperAlive
      <3> QED
        BY <3>1, <3>2, <3>3
    <2> QED
      BY <2>1, <2>2
  <1> QED
    BY <1>2, <1>3, <1>4, <1>5

\* A helper that lives takes a step that nothing but itself sees.
LEMMA HelperWalks ==
    ASSUME HostInv, NEW r \in RunIds, NEW phase \in Stands \ {"none"}, GoTo(r, phase), HelperAlive(r),
           UNCHANGED <<runFile, ctlVars, lastRun, late, lifecycle, ctl, box, command>>,
           phase = "up" => runFile.id = r /\ runFile.status = "running" /\ ~runFile.rolling
    PROVE  HostSafe'
PROOF
  <1>1. HostTypes /\ HostSafe
    BY HostTyped DEF HostInv
  <1>2. /\ helper'[r] = phase /\ phase # "none" /\ helper[r] # "none" /\ HelperAlive(r)
        /\ phase = "up" => runFile.id = r /\ runFile.status = "running" /\ ~runFile.rolling
        /\ \A q \in RunIds : q # r => helper'[q] = helper[q]
        /\ UNCHANGED <<runFile, runMem, exec, ending, act, lastRun, late, lifecycle, ctl, box, command>>
    BY <1>1 DEF GoTo, HelperAlive, ctlVars, HostTypes
  <1>3. RunsOfThePast'
    BY <1>1, <1>2, RunIdsAre
    DEF HostSafe, HostTypes, RunsOfThePast, CurrentRun
  <1>4. CurrentRun'
    BY <1>1, <1>2, RunIdsAre
    DEF HostSafe, HostTypes, CurrentRun, RunsOfThePast, ActivationRun
  <1>5. ActivationRun'
    BY <1>1, <1>2, RunIdsAre
    DEF HostSafe, HostTypes, ActivationRun, HelperAlive, Activating, RunsOfThePast, CurrentRun
  <1>6. Covered(runFile)'
    BY <1>1, <1>2, RunIdsAre
    DEF HostSafe, HostTypes, Covered, HelperAlive, RunsOfThePast, CurrentRun, ActivationRun, Owners
  <1>7. Covered(runMem)'
    BY <1>1, <1>2, RunIdsAre
    DEF HostSafe, HostTypes, Covered, HelperAlive, RunsOfThePast, CurrentRun, ActivationRun, Owners
  <1>8. Owners'
    BY <1>1, <1>2, RunIdsAre
    DEF HostSafe, HostTypes, Owners, HelperAlive, RunsOfThePast, CurrentRun, ActivationRun
  <1>9. NotRollingYet(runFile)'
    BY <1>1, <1>2, RunIdsAre
    DEF HostSafe, HostTypes, NotRollingYet, StandsAt, RollbackSaved, CurrentRun
  <1>10. NotRollingYet(runMem)'
    BY <1>1, <1>2, RunIdsAre
    DEF HostSafe, HostTypes, NotRollingYet, StandsAt, RollbackSaved, CurrentRun
  <1>11. RollbackSaved'
    BY <1>1, <1>2, RunIdsAre
    DEF HostSafe, HostTypes, RollbackSaved, CurrentRun
  <1> QED
    BY <1>3, <1>4, <1>5, <1>6, <1>7, <1>8, <1>9, <1>10, <1>11 DEF HostSafe

\* The controller's container is stopped or replaced, by a helper that is there or by a command.
LEMMA ControllerStops ==
    ASSUME HostInv, Stopped, UNCHANGED <<runFile, lastRun, late, lifecycle, command>>,
           \A q \in RunIds : helper'[q] = helper[q] \/ (HelperAlive(q) /\ helper'[q] \notin {"none", "up"}),
           \A q \in RunIds : box' \in {<<"up", q>>, <<"back", q>>} => helper'[q] # "none"
    PROVE  HostSafe'
PROOF
  <1>1. HostTypes /\ HostSafe
    BY HostTyped DEF HostInv
  <1>2. /\ ctl' = "down" /\ runMem'.status # "running" /\ runMem'.id = NoOwner /\ ending' = {}
        /\ exec'.phase = "none" /\ exec'.prev.id = NoOwner /\ act'.op = "none"
        /\ \A q \in RunIds : helper'[q] = helper[q] \/ (HelperAlive(q) /\ helper'[q] \notin {"none", "up"})
        /\ \A q \in RunIds : box' \in {<<"up", q>>, <<"back", q>>} => helper'[q] # "none"
        /\ UNCHANGED <<runFile, lastRun, late, lifecycle, command>>
    BY NoRunIs, ExecIs, ActIs DEF Stopped
  <1>3. RunsOfThePast'
    BY <1>1, <1>2, RunIdsAre
    DEF HostSafe, HostTypes, RunsOfThePast, CurrentRun, HelperAlive
  <1>4. CurrentRun'
    BY <1>1, <1>2, RunIdsAre
    DEF HostSafe, HostTypes, CurrentRun, RunsOfThePast, ActivationRun
  <1>5. ActivationRun'
    BY <1>1, <1>2, RunIdsAre
    DEF HostSafe, HostTypes, ActivationRun, HelperAlive, Activating, RunsOfThePast, CurrentRun
  <1>6. Covered(runFile)'
    BY <1>1, <1>2, RunIdsAre
    DEF HostSafe, HostTypes, Covered, HelperAlive, RunsOfThePast, CurrentRun, ActivationRun, Owners
  <1>7. Covered(runMem)'
    BY <1>1, <1>2, RunIdsAre
    DEF HostSafe, HostTypes, Covered, HelperAlive, RunsOfThePast, CurrentRun, ActivationRun, Owners
  <1>8. Owners'
    BY <1>1, <1>2, RunIdsAre
    DEF HostSafe, HostTypes, Owners, HelperAlive, RunsOfThePast, CurrentRun, ActivationRun
  <1>9. NotRollingYet(runFile)'
    BY <1>1, <1>2, RunIdsAre
    DEF HostSafe, HostTypes, NotRollingYet, StandsAt, RollbackSaved, CurrentRun
  <1>10. NotRollingYet(runMem)'
    BY <1>1, <1>2, RunIdsAre
    DEF HostSafe, HostTypes, NotRollingYet, StandsAt, RollbackSaved, CurrentRun
  <1>11. RollbackSaved'
    BY <1>1, <1>2, RunIdsAre
    DEF HostSafe, HostTypes, RollbackSaved, CurrentRun
  <1> QED
    BY <1>3, <1>4, <1>5, <1>6, <1>7, <1>8, <1>9, <1>10, <1>11 DEF HostSafe

\* A run ends without an activation.
LEMMA RunEnds ==
    ASSUME HostInv, exec.phase \in Executing, RunDone \/ (RunFails /\ UNCHANGED runFile),
           UNCHANGED <<lastRun, act, late, lifecycle, ctl, box, helper, command>>
    PROVE  HostSafe'
PROOF
  <1>1. HostTypes /\ HostSafe
    BY HostTyped DEF HostInv
  <1>2. /\ exec.phase # "none" /\ exec.run \in RunIds /\ ending' = ending \cup {exec.run}
        /\ runMem'.status # "running" /\ runMem'.id = runMem.id
        /\ exec'.phase = "none" /\ exec'.prev.id = NoOwner
        /\ runFile' = runFile \/ runFile' = runMem'
        /\ UNCHANGED <<lastRun, act, late, lifecycle, ctl, box, helper, command>>
    BY <1>1, NoRunIs, ExecIs, EndedIs DEF RunDone, RunFails, HostSafe, RunsOfThePast, HostTypes
  <1>3. RunsOfThePast'
    BY <1>1, <1>2, RunIdsAre
    DEF HostSafe, HostTypes, RunsOfThePast, CurrentRun
  <1>4. CurrentRun'
    BY <1>1, <1>2, RunIdsAre
    DEF HostSafe, HostTypes, CurrentRun, RunsOfThePast, ActivationRun
  <1>5. ActivationRun'
    BY <1>1, <1>2, RunIdsAre
    DEF HostSafe, HostTypes, ActivationRun, HelperAlive, Activating, RunsOfThePast, CurrentRun
  <1>6. Covered(runFile)'
    BY <1>1, <1>2, RunIdsAre
    DEF HostSafe, HostTypes, Covered, HelperAlive, RunsOfThePast, CurrentRun, ActivationRun, Owners
  <1>7. Covered(runMem)'
    BY <1>1, <1>2, RunIdsAre
    DEF HostSafe, HostTypes, Covered, HelperAlive, RunsOfThePast, CurrentRun, ActivationRun, Owners
  <1>8. Owners'
    BY <1>1, <1>2, RunIdsAre
    DEF HostSafe, HostTypes, Owners, HelperAlive, RunsOfThePast, CurrentRun, ActivationRun
  <1>9. NotRollingYet(runFile)'
    BY <1>1, <1>2, RunIdsAre
    DEF HostSafe, HostTypes, NotRollingYet, StandsAt, RollbackSaved, CurrentRun
  <1>10. NotRollingYet(runMem)'
    BY <1>1, <1>2, RunIdsAre
    DEF HostSafe, HostTypes, NotRollingYet, StandsAt, RollbackSaved, CurrentRun
  <1>11. RollbackSaved'
    BY <1>1, <1>2, RunIdsAre
    DEF HostSafe, HostTypes, RollbackSaved, CurrentRun
  <1> QED
    BY <1>3, <1>4, <1>5, <1>6, <1>7, <1>8, <1>9, <1>10, <1>11 DEF HostSafe

\* A run under execution reaches its next phase.
LEMMA RunGoesOn ==
    ASSUME HostInv, NEW phase \in Executing \ {"starting"}, exec.phase \in Executing \ {"starting"},
           exec' = [exec EXCEPT !.phase = phase],
           UNCHANGED <<runFile, runMem, lastRun, ending, act, late, lifecycle, ctl, box, helper, command>>
    PROVE  HostSafe'
PROOF
  <1>1. HostTypes /\ HostSafe
    BY HostTyped DEF HostInv
  <1>2. /\ exec.phase # "none" /\ exec'.phase # "none" /\ exec.phase # "starting" /\ exec'.phase # "starting"
        /\ exec.phase \in Executing /\ exec'.run = exec.run /\ exec'.prev = exec.prev
        /\ UNCHANGED <<runFile, runMem, lastRun, ending, act, late, lifecycle, ctl, box, helper, command>>
    BY <1>1, ExecIs DEF HostTypes
  <1>3. RunsOfThePast'
    BY <1>1, <1>2, RunIdsAre
    DEF HostSafe, HostTypes, RunsOfThePast, CurrentRun
  <1>4. CurrentRun'
    BY <1>1, <1>2, RunIdsAre
    DEF HostSafe, HostTypes, CurrentRun, RunsOfThePast, ActivationRun
  <1>5. ActivationRun'
    BY <1>1, <1>2, RunIdsAre
    DEF HostSafe, HostTypes, ActivationRun, HelperAlive, Activating, RunsOfThePast, CurrentRun
  <1>6. Covered(runFile)'
    BY <1>1, <1>2, RunIdsAre
    DEF HostSafe, HostTypes, Covered, HelperAlive, RunsOfThePast, CurrentRun, ActivationRun, Owners
  <1>7. Covered(runMem)'
    BY <1>1, <1>2, RunIdsAre
    DEF HostSafe, HostTypes, Covered, HelperAlive, RunsOfThePast, CurrentRun, ActivationRun, Owners
  <1>8. Owners'
    BY <1>1, <1>2, RunIdsAre
    DEF HostSafe, HostTypes, Owners, HelperAlive, RunsOfThePast, CurrentRun, ActivationRun
  <1>9. NotRollingYet(runFile)'
    BY <1>1, <1>2, RunIdsAre
    DEF HostSafe, HostTypes, NotRollingYet, StandsAt, RollbackSaved, CurrentRun
  <1>10. NotRollingYet(runMem)'
    BY <1>1, <1>2, RunIdsAre
    DEF HostSafe, HostTypes, NotRollingYet, StandsAt, RollbackSaved, CurrentRun
  <1>11. RollbackSaved'
    BY <1>1, <1>2, RunIdsAre
    DEF HostSafe, HostTypes, RollbackSaved, CurrentRun
  <1> QED
    BY <1>3, <1>4, <1>5, <1>6, <1>7, <1>8, <1>9, <1>10, <1>11 DEF HostSafe

\* The new run is admitted.
LEMMA AdmitSafe ==
    ASSUME HostInv, Admit
    PROVE  HostSafe'
PROOF
  <1>1. HostTypes /\ HostSafe
    BY HostTyped DEF HostInv
  <1>2. /\ ctl = "up" /\ exec.phase = "none" /\ runMem.status # "running"
        /\ lastRun' = lastRun + 1 /\ lastRun' \in RunIds /\ runFile' = runMem'
        /\ runMem'.id = lastRun' /\ runMem'.status = "running"
        /\ ~runMem'.pending /\ ~runMem'.rolling
        /\ exec'.phase = "locking" /\ exec'.run = lastRun' /\ exec'.prev = runMem
        /\ UNCHANGED <<ending, act, late, lifecycle, ctl, box, helper, command>>
    BY <1>1, RunningIs, NextRun DEF Admit, HostTypes
  <1>3. RunsOfThePast'
    <2>1. \A r \in RunIds : r > lastRun' => helper'[r] = "none" /\ r \notin ending'
      BY <1>1, <1>2, RunIdsAre DEF HostSafe, HostTypes, RunsOfThePast
    <2>2. exec'.phase # "none" => /\ exec'.run = lastRun' /\ exec'.run \in RunIds
                                  /\ exec'.run \notin ending' /\ helper'[exec'.run] = "none"
      BY <1>1, <1>2, RunIdsAre DEF HostSafe, HostTypes, RunsOfThePast
    <2>3. \A r \in ending' : helper'[r] = "none"
      BY <1>1, <1>2 DEF HostSafe, HostTypes, RunsOfThePast
    <2>4. \A r \in RunIds : box' \in {<<"up", r>>, <<"back", r>>} => helper'[r] # "none"
      BY <1>1, <1>2 DEF HostSafe, HostTypes, RunsOfThePast
    <2>5. act'.op # "none" => act'.run \in 1..lastRun'
      BY <1>1, <1>2 DEF HostSafe, HostTypes, RunsOfThePast
    <2>6. \A m \in {runFile', runMem', exec'.prev} : m.id \in RunIds => m.id <= lastRun'
      BY <1>1, <1>2, RunIdsAre DEF HostSafe, HostTypes, RunsOfThePast
    <2>7. \A m \in {runFile', runMem'} : m.status = "running" => m.id \in RunIds
      BY <1>1, <1>2 DEF HostSafe, HostTypes, RunsOfThePast
    <2> QED
      BY <2>1, <2>2, <2>3, <2>4, <2>5, <2>6, <2>7 DEF RunsOfThePast
  <1>4. CurrentRun'
    BY <1>1, <1>2, RunIdsAre
    DEF HostSafe, HostTypes, CurrentRun, RunsOfThePast, ActivationRun
  <1>5. ActivationRun'
    BY <1>1, <1>2, RunIdsAre
    DEF HostSafe, HostTypes, ActivationRun, HelperAlive, Activating, RunsOfThePast, CurrentRun
  <1>6. Covered(runFile)'
    BY <1>1, <1>2, RunIdsAre
    DEF HostSafe, HostTypes, Covered, HelperAlive, RunsOfThePast, CurrentRun, ActivationRun, Owners
  <1>7. Covered(runMem)'
    BY <1>1, <1>2, RunIdsAre
    DEF HostSafe, HostTypes, Covered, HelperAlive, RunsOfThePast, CurrentRun, ActivationRun, Owners
  <1>8. Owners'
    BY <1>1, <1>2, RunIdsAre
    DEF HostSafe, HostTypes, Owners, HelperAlive, RunsOfThePast, CurrentRun, ActivationRun
  <1>9. NotRollingYet(runFile)'
    BY <1>1, <1>2, RunIdsAre
    DEF HostSafe, HostTypes, NotRollingYet, StandsAt, RollbackSaved, CurrentRun
  <1>10. NotRollingYet(runMem)'
    BY <1>1, <1>2, RunIdsAre
    DEF HostSafe, HostTypes, NotRollingYet, StandsAt, RollbackSaved, CurrentRun
  <1>11. RollbackSaved'
    BY <1>1, <1>2, RunIdsAre
    DEF HostSafe, HostTypes, RollbackSaved, CurrentRun
  <1> QED
    BY <1>3, <1>4, <1>5, <1>6, <1>7, <1>8, <1>9, <1>10, <1>11 DEF HostSafe

\* The lock is taken for the run that was admitted.
LEMMA AcquireLockSafe ==
    ASSUME HostInv, AcquireLock
    PROVE  HostSafe'
PROOF
  <1>1. HostTypes /\ HostSafe
    BY HostTyped DEF HostInv
  <1>2. /\ exec.phase = "locking" /\ exec'.phase \in Executing \ {"starting"} /\ exec'.phase # "none"
        /\ exec'.run = exec.run /\ exec'.prev = exec.prev /\ lifecycle' = exec.run
        /\ Takeable(exec.prev)
        /\ UNCHANGED <<runFile, runMem, lastRun, ending, act, late, ctl, box, helper, command>>
    BY <1>1, ExecIs DEF AcquireLock, HostTypes, Executing
  <1>3. RunsOfThePast'
    BY <1>1, <1>2, RunIdsAre
    DEF HostSafe, HostTypes, RunsOfThePast, CurrentRun
  <1>4. CurrentRun'
    BY <1>1, <1>2, RunIdsAre
    DEF HostSafe, HostTypes, CurrentRun, RunsOfThePast, ActivationRun
  <1>5. ActivationRun'
    BY <1>1, <1>2, RunIdsAre
    DEF HostSafe, HostTypes, ActivationRun, HelperAlive, Activating, RunsOfThePast, CurrentRun
  <1>6. Covered(runFile)'
    BY <1>1, <1>2, RunIdsAre
    DEF HostSafe, HostTypes, Covered, HelperAlive, RunsOfThePast, CurrentRun, ActivationRun, Owners,
        Takeable
  <1>7. Covered(runMem)'
    BY <1>1, <1>2, RunIdsAre
    DEF HostSafe, HostTypes, Covered, HelperAlive, RunsOfThePast, CurrentRun, ActivationRun, Owners,
        Takeable
  <1>8. Owners'
    BY <1>1, <1>2, RunIdsAre
    DEF HostSafe, HostTypes, Owners, HelperAlive, RunsOfThePast, CurrentRun, ActivationRun, Takeable
  <1>9. NotRollingYet(runFile)'
    BY <1>1, <1>2, RunIdsAre
    DEF HostSafe, HostTypes, NotRollingYet, StandsAt, RollbackSaved, CurrentRun
  <1>10. NotRollingYet(runMem)'
    BY <1>1, <1>2, RunIdsAre
    DEF HostSafe, HostTypes, NotRollingYet, StandsAt, RollbackSaved, CurrentRun
  <1>11. RollbackSaved'
    BY <1>1, <1>2, RunIdsAre
    DEF HostSafe, HostTypes, RollbackSaved, CurrentRun
  <1> QED
    BY <1>3, <1>4, <1>5, <1>6, <1>7, <1>8, <1>9, <1>10, <1>11 DEF HostSafe

\* The lock is held: the run before is put back.
LEMMA RefuseRunSafe ==
    ASSUME HostInv, RefuseRun
    PROVE  HostSafe'
PROOF
  <1>1. HostTypes /\ HostSafe
    BY HostTyped DEF HostInv
  <1>2. /\ exec.phase = "locking" /\ exec.phase # "none" /\ runMem' = exec.prev /\ runFile' = exec.prev
        /\ exec.prev.status # "running" /\ exec'.phase = "none" /\ exec'.prev.id = NoOwner
        /\ UNCHANGED <<lastRun, ending, act, late, lifecycle, ctl, box, helper, command>>
    BY <1>1, ExecIs, NoRunIs DEF RefuseRun, HostTypes, HostSafe, CurrentRun
  <1>3. RunsOfThePast'
    BY <1>1, <1>2, RunIdsAre
    DEF HostSafe, HostTypes, RunsOfThePast, CurrentRun
  <1>4. CurrentRun'
    BY <1>1, <1>2, RunIdsAre
    DEF HostSafe, HostTypes, CurrentRun, RunsOfThePast, ActivationRun
  <1>5. ActivationRun'
    BY <1>1, <1>2, RunIdsAre
    DEF HostSafe, HostTypes, ActivationRun, HelperAlive, Activating, RunsOfThePast, CurrentRun
  <1>6. Covered(runFile)'
    BY <1>1, <1>2, RunIdsAre
    DEF HostSafe, HostTypes, Covered, HelperAlive, RunsOfThePast, CurrentRun, ActivationRun, Owners
  <1>7. Covered(runMem)'
    BY <1>1, <1>2, RunIdsAre
    DEF HostSafe, HostTypes, Covered, HelperAlive, RunsOfThePast, CurrentRun, ActivationRun, Owners
  <1>8. Owners'
    BY <1>1, <1>2, RunIdsAre
    DEF HostSafe, HostTypes, Owners, HelperAlive, RunsOfThePast, CurrentRun, ActivationRun
  <1>9. NotRollingYet(runFile)'
    BY <1>1, <1>2, RunIdsAre
    DEF HostSafe, HostTypes, NotRollingYet, StandsAt, RollbackSaved, CurrentRun
  <1>10. NotRollingYet(runMem)'
    BY <1>1, <1>2, RunIdsAre
    DEF HostSafe, HostTypes, NotRollingYet, StandsAt, RollbackSaved, CurrentRun
  <1>11. RollbackSaved'
    BY <1>1, <1>2, RunIdsAre
    DEF HostSafe, HostTypes, RollbackSaved, CurrentRun
  <1> QED
    BY <1>3, <1>4, <1>5, <1>6, <1>7, <1>8, <1>9, <1>10, <1>11 DEF HostSafe

\* The pending run is saved.
LEMMA ScheduleSafe ==
    ASSUME HostInv, Schedule
    PROVE  HostSafe'
PROOF
  <1>1. HostTypes /\ HostSafe
    BY HostTyped DEF HostInv
  <1>2. /\ exec.phase \in Executing /\ exec.phase # "starting" /\ exec.phase # "none" /\ exec'.phase = "starting"
        /\ exec'.run = exec.run /\ exec'.prev = exec.prev /\ exec.run \in RunIds /\ runFile' = runMem' /\ ~late'
        /\ runMem'.id = exec.run /\ runMem'.status = "running"
        /\ runMem'.pending /\ ~runMem'.rolling
        /\ UNCHANGED <<lastRun, ending, act, lifecycle, ctl, box, helper, command>>
    <2>1. exec.phase = "activate" /\ exec' = [exec EXCEPT !.phase = "starting"]
      BY DEF Schedule
    <2>2. exec.phase # "none" /\ exec.run \in RunIds
      BY <1>1, <2>1 DEF HostSafe, RunsOfThePast
    <2>3. exec'.phase = "starting" /\ exec'.run = exec.run /\ exec'.prev = exec.prev /\ exec.phase \in Executing
      BY <1>1, <2>1, ExecIs DEF HostTypes
    <2>4. runMem' = Run(exec.run, "running", TRUE, FALSE) /\ runFile' = runMem' /\ late' = FALSE
      BY DEF Schedule
    <2>5. UNCHANGED <<lastRun, ending, act, lifecycle, ctl, box, helper, command>>
      BY DEF Schedule
    <2> QED
      BY <2>1, <2>2, <2>3, <2>4, <2>5, RunningIs
  <1>3. RunsOfThePast'
    BY <1>1, <1>2, RunIdsAre
    DEF HostSafe, HostTypes, RunsOfThePast, CurrentRun
  <1>4. CurrentRun'
    BY <1>1, <1>2, RunIdsAre
    DEF HostSafe, HostTypes, CurrentRun, RunsOfThePast, ActivationRun
  <1>5. ActivationRun'
    BY <1>1, <1>2, RunIdsAre
    DEF HostSafe, HostTypes, ActivationRun, HelperAlive, Activating, RunsOfThePast, CurrentRun
  <1>6. Covered(runFile)'
    BY <1>1, <1>2, RunIdsAre
    DEF HostSafe, HostTypes, Covered, HelperAlive, RunsOfThePast, CurrentRun, ActivationRun, Owners
  <1>7. Covered(runMem)'
    BY <1>1, <1>2, RunIdsAre
    DEF HostSafe, HostTypes, Covered, HelperAlive, RunsOfThePast, CurrentRun, ActivationRun, Owners
  <1>8. Owners'
    BY <1>1, <1>2, RunIdsAre
    DEF HostSafe, HostTypes, Owners, HelperAlive, RunsOfThePast, CurrentRun, ActivationRun
  <1>9. NotRollingYet(runFile)'
    BY <1>1, <1>2, RunIdsAre
    DEF HostSafe, HostTypes, NotRollingYet, StandsAt, RollbackSaved, CurrentRun
  <1>10. NotRollingYet(runMem)'
    BY <1>1, <1>2, RunIdsAre
    DEF HostSafe, HostTypes, NotRollingYet, StandsAt, RollbackSaved, CurrentRun
  <1>11. RollbackSaved'
    BY <1>1, <1>2, RunIdsAre
    DEF HostSafe, HostTypes, RollbackSaved, CurrentRun
  <1> QED
    BY <1>3, <1>4, <1>5, <1>6, <1>7, <1>8, <1>9, <1>10, <1>11 DEF HostSafe

\* The helper of the pending run is started.
LEMMA StartHelperSafe ==
    ASSUME HostInv, StartHelper
    PROVE  HostSafe'
PROOF
  <1>1. HostTypes /\ HostSafe
    BY HostTyped DEF HostInv
  <1>2. /\ exec.phase = "starting" /\ exec.phase \in Executing /\ exec.phase # "none" /\ exec.run \in RunIds
        /\ helper'[exec.run] = "boot" /\ \A q \in RunIds : q # exec.run => helper'[q] = helper[q]
        /\ runFile' = runMem /\ exec'.phase = "none" /\ exec'.prev.id = NoOwner
        /\ UNCHANGED <<runMem, lastRun, ending, act, late, lifecycle, ctl, box, command>>
    BY <1>1, ExecIs, NoRunIs DEF StartHelper, HostTypes, Executing, HostSafe, RunsOfThePast
  <1>3. RunsOfThePast'
    BY <1>1, <1>2, RunIdsAre
    DEF HostSafe, HostTypes, RunsOfThePast, CurrentRun
  <1>4. CurrentRun'
    BY <1>1, <1>2, RunIdsAre
    DEF HostSafe, HostTypes, CurrentRun, RunsOfThePast, ActivationRun
  <1>5. ActivationRun'
    BY <1>1, <1>2, RunIdsAre
    DEF HostSafe, HostTypes, ActivationRun, HelperAlive, Activating, RunsOfThePast, CurrentRun
  <1>6. Covered(runFile)'
    BY <1>1, <1>2, RunIdsAre
    DEF HostSafe, HostTypes, Covered, HelperAlive, RunsOfThePast, CurrentRun, ActivationRun, Owners
  <1>7. Covered(runMem)'
    BY <1>1, <1>2, RunIdsAre
    DEF HostSafe, HostTypes, Covered, HelperAlive, RunsOfThePast, CurrentRun, ActivationRun, Owners
  <1>8. Owners'
    BY <1>1, <1>2, RunIdsAre
    DEF HostSafe, HostTypes, Owners, HelperAlive, RunsOfThePast, CurrentRun, ActivationRun
  <1>9. NotRollingYet(runFile)'
    BY <1>1, <1>2, RunIdsAre
    DEF HostSafe, HostTypes, NotRollingYet, StandsAt, RollbackSaved, CurrentRun
  <1>10. NotRollingYet(runMem)'
    BY <1>1, <1>2, RunIdsAre
    DEF HostSafe, HostTypes, NotRollingYet, StandsAt, RollbackSaved, CurrentRun
  <1>11. RollbackSaved'
    BY <1>1, <1>2, RunIdsAre
    DEF HostSafe, HostTypes, RollbackSaved, CurrentRun
  <1> QED
    BY <1>3, <1>4, <1>5, <1>6, <1>7, <1>8, <1>9, <1>10, <1>11 DEF HostSafe

\* A run that ended gives the lock back and is saved.
LEMMA EndRunSafe ==
    ASSUME HostInv, NEW r \in RunIds, EndRun(r)
    PROVE  HostSafe'
PROOF
  <1>1. HostTypes /\ HostSafe
    BY HostTyped DEF HostInv
  <1>2. /\ r \in ending /\ ending' = ending \ {r} /\ runFile' = runMem
        /\ lifecycle' = lifecycle \/ lifecycle = r
        /\ UNCHANGED <<runMem, lastRun, exec, act, late, ctl, box, helper, command>>
    BY <1>1 DEF EndRun, Released
  <1>3. RunsOfThePast'
    BY <1>1, <1>2, RunIdsAre
    DEF HostSafe, HostTypes, RunsOfThePast, CurrentRun
  <1>4. CurrentRun'
    BY <1>1, <1>2, RunIdsAre
    DEF HostSafe, HostTypes, CurrentRun, RunsOfThePast, ActivationRun
  <1>5. ActivationRun'
    BY <1>1, <1>2, RunIdsAre
    DEF HostSafe, HostTypes, ActivationRun, HelperAlive, Activating, RunsOfThePast, CurrentRun
  <1>6. Covered(runFile)'
    BY <1>1, <1>2, RunIdsAre
    DEF HostSafe, HostTypes, Covered, HelperAlive, RunsOfThePast, CurrentRun, ActivationRun, Owners
  <1>7. Covered(runMem)'
    BY <1>1, <1>2, RunIdsAre
    DEF HostSafe, HostTypes, Covered, HelperAlive, RunsOfThePast, CurrentRun, ActivationRun, Owners
  <1>8. Owners'
    BY <1>1, <1>2, RunIdsAre
    DEF HostSafe, HostTypes, Owners, HelperAlive, RunsOfThePast, CurrentRun, ActivationRun
  <1>9. NotRollingYet(runFile)'
    BY <1>1, <1>2, RunIdsAre
    DEF HostSafe, HostTypes, NotRollingYet, StandsAt, RollbackSaved, CurrentRun
  <1>10. NotRollingYet(runMem)'
    BY <1>1, <1>2, RunIdsAre
    DEF HostSafe, HostTypes, NotRollingYet, StandsAt, RollbackSaved, CurrentRun
  <1>11. RollbackSaved'
    BY <1>1, <1>2, RunIdsAre
    DEF HostSafe, HostTypes, RollbackSaved, CurrentRun
  <1> QED
    BY <1>3, <1>4, <1>5, <1>6, <1>7, <1>8, <1>9, <1>10, <1>11 DEF HostSafe

\* The controller starts over from the file.
LEMMA ControllerLoadsSafe ==
    ASSUME HostInv, ControllerLoads
    PROVE  HostSafe'
PROOF
  <1>1. HostTypes /\ HostSafe
    BY HostTyped DEF HostInv
  <1>2. /\ ctl = "down" /\ ctl' = "loading" /\ exec.phase = "none" /\ act.op = "none"
        /\ runMem'.id = runFile.id /\ (runMem' = runFile \/ runMem'.status # "running")
        /\ runFile.status = "running" => runFile.pending \/ runMem'.status # "running"
        /\ runFile.status = "running" /\ runFile.pending => runMem' = runFile
        /\ lifecycle' # lifecycle => ((lifecycle \in RunIds /\ ~HelperAlive(lifecycle)) \/ (runMem'.status # "running" /\ lifecycle = runMem'.id))
        /\ UNCHANGED <<runFile, lastRun, exec, ending, act, late, box, helper, command>>
    BY <1>1, EndedIs DEF ControllerLoads, Loaded, Orphan, HostSafe, CurrentRun, HostTypes
  <1>3. RunsOfThePast'
    BY <1>1, <1>2, RunIdsAre
    DEF HostSafe, HostTypes, RunsOfThePast, CurrentRun
  <1>4. CurrentRun'
    BY <1>1, <1>2, RunIdsAre
    DEF HostSafe, HostTypes, CurrentRun, RunsOfThePast, ActivationRun
  <1>5. ActivationRun'
    BY <1>1, <1>2, RunIdsAre
    DEF HostSafe, HostTypes, ActivationRun, HelperAlive, Activating, RunsOfThePast, CurrentRun
  <1>6. Covered(runFile)'
    BY <1>1, <1>2, RunIdsAre
    DEF HostSafe, HostTypes, Covered, HelperAlive, RunsOfThePast, CurrentRun, ActivationRun, Owners
  <1>7. Covered(runMem)'
    BY <1>1, <1>2, RunIdsAre
    DEF HostSafe, HostTypes, Covered, HelperAlive, RunsOfThePast, CurrentRun, ActivationRun, Owners
  <1>8. Owners'
    BY <1>1, <1>2, RunIdsAre
    DEF HostSafe, HostTypes, Owners, HelperAlive, RunsOfThePast, CurrentRun, ActivationRun
  <1>9. NotRollingYet(runFile)'
    BY <1>1, <1>2, RunIdsAre
    DEF HostSafe, HostTypes, NotRollingYet, StandsAt, RollbackSaved, CurrentRun
  <1>10. NotRollingYet(runMem)'
    BY <1>1, <1>2, RunIdsAre
    DEF HostSafe, HostTypes, NotRollingYet, StandsAt, RollbackSaved, CurrentRun
  <1>11. RollbackSaved'
    BY <1>1, <1>2, RunIdsAre
    DEF HostSafe, HostTypes, RollbackSaved, CurrentRun
  <1> QED
    BY <1>3, <1>4, <1>5, <1>6, <1>7, <1>8, <1>9, <1>10, <1>11 DEF HostSafe

\* The controller that started over saves what it found.
LEMMA ControllerListensSafe ==
    ASSUME HostInv, ControllerListens
    PROVE  HostSafe'
PROOF
  <1>1. HostTypes /\ HostSafe
    BY HostTyped DEF HostInv
  <1>2. /\ ctl = "loading" /\ ctl' = "up" /\ exec.phase = "none" /\ runFile' = runMem
        /\ UNCHANGED <<runMem, lastRun, exec, ending, act, late, lifecycle, box, helper, command>>
    BY <1>1 DEF ControllerListens, HostSafe, CurrentRun
  <1>3. RunsOfThePast'
    BY <1>1, <1>2, RunIdsAre
    DEF HostSafe, HostTypes, RunsOfThePast, CurrentRun
  <1>4. CurrentRun'
    BY <1>1, <1>2, RunIdsAre
    DEF HostSafe, HostTypes, CurrentRun, RunsOfThePast, ActivationRun
  <1>5. ActivationRun'
    BY <1>1, <1>2, RunIdsAre
    DEF HostSafe, HostTypes, ActivationRun, HelperAlive, Activating, RunsOfThePast, CurrentRun
  <1>6. Covered(runFile)'
    BY <1>1, <1>2, RunIdsAre
    DEF HostSafe, HostTypes, Covered, HelperAlive, RunsOfThePast, CurrentRun, ActivationRun, Owners
  <1>7. Covered(runMem)'
    BY <1>1, <1>2, RunIdsAre
    DEF HostSafe, HostTypes, Covered, HelperAlive, RunsOfThePast, CurrentRun, ActivationRun, Owners
  <1>8. Owners'
    BY <1>1, <1>2, RunIdsAre
    DEF HostSafe, HostTypes, Owners, HelperAlive, RunsOfThePast, CurrentRun, ActivationRun
  <1>9. NotRollingYet(runFile)'
    BY <1>1, <1>2, RunIdsAre
    DEF HostSafe, HostTypes, NotRollingYet, StandsAt, RollbackSaved, CurrentRun
  <1>10. NotRollingYet(runMem)'
    BY <1>1, <1>2, RunIdsAre
    DEF HostSafe, HostTypes, NotRollingYet, StandsAt, RollbackSaved, CurrentRun
  <1>11. RollbackSaved'
    BY <1>1, <1>2, RunIdsAre
    DEF HostSafe, HostTypes, RollbackSaved, CurrentRun
  <1> QED
    BY <1>3, <1>4, <1>5, <1>6, <1>7, <1>8, <1>9, <1>10, <1>11 DEF HostSafe

\* The deadline passes.
LEMMA DeadlinePassesSafe ==
    ASSUME HostInv, DeadlinePasses
    PROVE  HostSafe'
PROOF
  <1>1. HostTypes /\ HostSafe
    BY HostTyped DEF HostInv
  <1>2. /\ exec.phase # "starting"
        /\ UNCHANGED <<runFile, runMem, lastRun, exec, ending, act, lifecycle, ctl, box, helper, command>>
    BY DEF DeadlinePasses
  <1>3. RunsOfThePast'
    BY <1>1, <1>2, RunIdsAre
    DEF HostSafe, HostTypes, RunsOfThePast, CurrentRun
  <1>4. CurrentRun'
    BY <1>1, <1>2, RunIdsAre
    DEF HostSafe, HostTypes, CurrentRun, RunsOfThePast, ActivationRun
  <1>5. ActivationRun'
    BY <1>1, <1>2, RunIdsAre
    DEF HostSafe, HostTypes, ActivationRun, HelperAlive, Activating, RunsOfThePast, CurrentRun
  <1>6. Covered(runFile)'
    BY <1>1, <1>2, RunIdsAre
    DEF HostSafe, HostTypes, Covered, HelperAlive, RunsOfThePast, CurrentRun, ActivationRun, Owners
  <1>7. Covered(runMem)'
    BY <1>1, <1>2, RunIdsAre
    DEF HostSafe, HostTypes, Covered, HelperAlive, RunsOfThePast, CurrentRun, ActivationRun, Owners
  <1>8. Owners'
    BY <1>1, <1>2, RunIdsAre
    DEF HostSafe, HostTypes, Owners, HelperAlive, RunsOfThePast, CurrentRun, ActivationRun
  <1>9. NotRollingYet(runFile)'
    BY <1>1, <1>2, RunIdsAre
    DEF HostSafe, HostTypes, NotRollingYet, StandsAt, RollbackSaved, CurrentRun
  <1>10. NotRollingYet(runMem)'
    BY <1>1, <1>2, RunIdsAre
    DEF HostSafe, HostTypes, NotRollingYet, StandsAt, RollbackSaved, CurrentRun
  <1>11. RollbackSaved'
    BY <1>1, <1>2, RunIdsAre
    DEF HostSafe, HostTypes, RollbackSaved, CurrentRun
  <1> QED
    BY <1>3, <1>4, <1>5, <1>6, <1>7, <1>8, <1>9, <1>10, <1>11 DEF HostSafe

\* The controller adopts what the helper wrote.
LEMMA AdoptFailureSafe ==
    ASSUME HostInv, AdoptFailure
    PROVE  HostSafe'
PROOF
  <1>1. HostTypes /\ HostSafe
    BY HostTyped DEF HostInv
  <1>2. /\ act.op = "none" /\ exec.phase = "none" /\ runMem' = runFile /\ runFile.id = runMem.id
        /\ UNCHANGED <<runFile, lastRun, exec, ending, act, late, lifecycle, ctl, box, helper, command>>
    BY <1>1, ActIs DEF AdoptFailure, ActivationOpen, Activating, FileDecided, HostSafe, CurrentRun, NoAct
  <1>3. RunsOfThePast'
    BY <1>1, <1>2, RunIdsAre
    DEF HostSafe, HostTypes, RunsOfThePast, CurrentRun
  <1>4. CurrentRun'
    BY <1>1, <1>2, RunIdsAre
    DEF HostSafe, HostTypes, CurrentRun, RunsOfThePast, ActivationRun
  <1>5. ActivationRun'
    BY <1>1, <1>2, RunIdsAre
    DEF HostSafe, HostTypes, ActivationRun, HelperAlive, Activating, RunsOfThePast, CurrentRun
  <1>6. Covered(runFile)'
    BY <1>1, <1>2, RunIdsAre
    DEF HostSafe, HostTypes, Covered, HelperAlive, RunsOfThePast, CurrentRun, ActivationRun, Owners
  <1>7. Covered(runMem)'
    BY <1>1, <1>2, RunIdsAre
    DEF HostSafe, HostTypes, Covered, HelperAlive, RunsOfThePast, CurrentRun, ActivationRun, Owners
  <1>8. Owners'
    BY <1>1, <1>2, RunIdsAre
    DEF HostSafe, HostTypes, Owners, HelperAlive, RunsOfThePast, CurrentRun, ActivationRun
  <1>9. NotRollingYet(runFile)'
    BY <1>1, <1>2, RunIdsAre
    DEF HostSafe, HostTypes, NotRollingYet, StandsAt, RollbackSaved, CurrentRun
  <1>10. NotRollingYet(runMem)'
    BY <1>1, <1>2, RunIdsAre
    DEF HostSafe, HostTypes, NotRollingYet, StandsAt, RollbackSaved, CurrentRun
  <1>11. RollbackSaved'
    BY <1>1, <1>2, RunIdsAre
    DEF HostSafe, HostTypes, RollbackSaved, CurrentRun
  <1> QED
    BY <1>3, <1>4, <1>5, <1>6, <1>7, <1>8, <1>9, <1>10, <1>11 DEF HostSafe

\* A helper past the deadline is stopped for good.
LEMMA KillHelperSafe ==
    ASSUME HostInv, KillHelper
    PROVE  HostSafe'
PROOF
  <1>1. HostTypes /\ HostSafe
    BY HostTyped DEF HostInv
  <1>2. /\ act.op = "none" /\ exec.phase = "none" /\ runMem.id \in RunIds /\ HelperAlive(runMem.id)
        /\ helper'[runMem.id] = "gone" /\ \A q \in RunIds : q # runMem.id => helper'[q] = helper[q]
        /\ runFile' = runMem' /\ runMem'.id = runMem.id /\ runMem' \in {runFile, runMem}
        /\ UNCHANGED <<lastRun, exec, ending, act, lifecycle, ctl, box, command>>
    BY <1>1, ActIs, OpenIsIdle DEF KillHelper, ActivationOpen, Activating, Adopted, FileDecided, HostTypes, HelperAlive
  <1>3. RunsOfThePast'
    <2>1. \A r \in RunIds : r > lastRun' => helper'[r] = "none" /\ r \notin ending'
      BY <1>1, <1>2, RunIdsAre DEF HostSafe, HostTypes, RunsOfThePast, HelperAlive
    <2>2. exec'.phase # "none" => /\ exec'.run = lastRun' /\ exec'.run \in RunIds
                                  /\ exec'.run \notin ending' /\ helper'[exec'.run] = "none"
      BY <1>1, <1>2, RunIdsAre DEF HostSafe, HostTypes, RunsOfThePast
    <2>3. \A r \in ending' : helper'[r] = "none"
      BY <1>1, <1>2 DEF HostSafe, HostTypes, RunsOfThePast, HelperAlive
    <2>4. \A r \in RunIds : box' \in {<<"up", r>>, <<"back", r>>} => helper'[r] # "none"
      BY <1>1, <1>2 DEF HostSafe, HostTypes, RunsOfThePast
    <2>5. act'.op # "none" => act'.run \in 1..lastRun'
      BY <1>1, <1>2 DEF HostSafe, HostTypes, RunsOfThePast
    <2>6. \A m \in {runFile', runMem', exec'.prev} : m.id \in RunIds => m.id <= lastRun'
      BY <1>1, <1>2, RunIdsAre DEF HostSafe, HostTypes, RunsOfThePast
    <2>7. \A m \in {runFile', runMem'} : m.status = "running" => m.id \in RunIds
      BY <1>1, <1>2 DEF HostSafe, HostTypes, RunsOfThePast
    <2> QED
      BY <2>1, <2>2, <2>3, <2>4, <2>5, <2>6, <2>7 DEF RunsOfThePast
  <1>4. CurrentRun'
    BY <1>1, <1>2, RunIdsAre
    DEF HostSafe, HostTypes, CurrentRun, RunsOfThePast, ActivationRun
  <1>5. ActivationRun'
    BY <1>1, <1>2, RunIdsAre
    DEF HostSafe, HostTypes, ActivationRun, HelperAlive, Activating, RunsOfThePast, CurrentRun
  <1>6. Covered(runFile)'
    BY <1>1, <1>2, RunIdsAre
    DEF HostSafe, HostTypes, Covered, HelperAlive, RunsOfThePast, CurrentRun, ActivationRun, Owners
  <1>7. Covered(runMem)'
    BY <1>1, <1>2, RunIdsAre
    DEF HostSafe, HostTypes, Covered, HelperAlive, RunsOfThePast, CurrentRun, ActivationRun, Owners
  <1>8. Owners'
    BY <1>1, <1>2, RunIdsAre
    DEF HostSafe, HostTypes, Owners, HelperAlive, RunsOfThePast, CurrentRun, ActivationRun
  <1>9. NotRollingYet(runFile)'
    BY <1>1, <1>2, RunIdsAre
    DEF HostSafe, HostTypes, NotRollingYet, StandsAt, RollbackSaved, CurrentRun
  <1>10. NotRollingYet(runMem)'
    BY <1>1, <1>2, RunIdsAre
    DEF HostSafe, HostTypes, NotRollingYet, StandsAt, RollbackSaved, CurrentRun
  <1>11. RollbackSaved'
    BY <1>1, <1>2, RunIdsAre
    DEF HostSafe, HostTypes, RollbackSaved, CurrentRun
  <1> QED
    BY <1>3, <1>4, <1>5, <1>6, <1>7, <1>8, <1>9, <1>10, <1>11 DEF HostSafe

\* The controller begins to complete a run that has no helper.
LEMMA CompleteAloneSafe ==
    ASSUME HostInv, NEW r \in RunIds, CompleteAlone(r)
    PROVE  HostSafe'
PROOF
  <1>1. HostTypes /\ HostSafe
    BY HostTyped DEF HostInv
  <1>2. /\ ctl = "up" /\ act.op = "none" /\ exec.phase = "none" /\ runMem.id = r /\ Activating(runMem) /\ r <= lastRun /\ ~HelperAlive(r)
        /\ act'.op = "completeAndRelease" /\ act'.run = r
        /\ UNCHANGED <<runFile, runMem, lastRun, exec, ending, late, lifecycle, ctl, box, helper, command>>
    BY <1>1, ActIs DEF CompleteAlone, MayComplete, ActivationOpen, HostSafe, CurrentRun, RunsOfThePast, HostTypes, NoAct, RunIds
  <1>3. RunsOfThePast'
    BY <1>1, <1>2, RunIdsAre
    DEF HostSafe, HostTypes, RunsOfThePast, CurrentRun
  <1>4. CurrentRun'
    BY <1>1, <1>2, RunIdsAre
    DEF HostSafe, HostTypes, CurrentRun, RunsOfThePast, ActivationRun
  <1>5. ActivationRun'
    BY <1>1, <1>2, RunIdsAre
    DEF HostSafe, HostTypes, ActivationRun, HelperAlive, Activating, RunsOfThePast, CurrentRun
  <1>6. Covered(runFile)'
    BY <1>1, <1>2, RunIdsAre
    DEF HostSafe, HostTypes, Covered, HelperAlive, RunsOfThePast, CurrentRun, ActivationRun, Owners
  <1>7. Covered(runMem)'
    BY <1>1, <1>2, RunIdsAre
    DEF HostSafe, HostTypes, Covered, HelperAlive, RunsOfThePast, CurrentRun, ActivationRun, Owners
  <1>8. Owners'
    BY <1>1, <1>2, RunIdsAre
    DEF HostSafe, HostTypes, Owners, HelperAlive, RunsOfThePast, CurrentRun, ActivationRun
  <1>9. NotRollingYet(runFile)'
    BY <1>1, <1>2, RunIdsAre
    DEF HostSafe, HostTypes, NotRollingYet, StandsAt, RollbackSaved, CurrentRun
  <1>10. NotRollingYet(runMem)'
    BY <1>1, <1>2, RunIdsAre
    DEF HostSafe, HostTypes, NotRollingYet, StandsAt, RollbackSaved, CurrentRun
  <1>11. RollbackSaved'
    BY <1>1, <1>2, RunIdsAre
    DEF HostSafe, HostTypes, RollbackSaved, CurrentRun
  <1> QED
    BY <1>3, <1>4, <1>5, <1>6, <1>7, <1>8, <1>9, <1>10, <1>11 DEF HostSafe

\* The controller begins to complete the run its helper confirms.
LEMMA HelperConfirmSafe ==
    ASSUME HostInv, NEW r \in RunIds, HelperConfirm(r)
    PROVE  HostSafe'
PROOF
  <1>1. HostTypes /\ HostSafe
    BY HostTyped DEF HostInv
  <1>2. /\ ctl = "up" /\ act.op = "none" /\ exec.phase = "none" /\ runMem.id = r /\ Activating(runMem) /\ r <= lastRun
        /\ act'.op = "complete" /\ act'.run = r
        /\ UNCHANGED <<runFile, runMem, lastRun, exec, ending, late, lifecycle, ctl, box, helper, command>>
    BY <1>1, ActIs DEF HelperConfirm, StandsAt, MayComplete, ActivationOpen, HostSafe, CurrentRun, RunsOfThePast, HostTypes, NoAct, RunIds
  <1>3. RunsOfThePast'
    BY <1>1, <1>2, RunIdsAre
    DEF HostSafe, HostTypes, RunsOfThePast, CurrentRun
  <1>4. CurrentRun'
    BY <1>1, <1>2, RunIdsAre
    DEF HostSafe, HostTypes, CurrentRun, RunsOfThePast, ActivationRun
  <1>5. ActivationRun'
    BY <1>1, <1>2, RunIdsAre
    DEF HostSafe, HostTypes, ActivationRun, HelperAlive, Activating, RunsOfThePast, CurrentRun
  <1>6. Covered(runFile)'
    BY <1>1, <1>2, RunIdsAre
    DEF HostSafe, HostTypes, Covered, HelperAlive, RunsOfThePast, CurrentRun, ActivationRun, Owners
  <1>7. Covered(runMem)'
    BY <1>1, <1>2, RunIdsAre
    DEF HostSafe, HostTypes, Covered, HelperAlive, RunsOfThePast, CurrentRun, ActivationRun, Owners
  <1>8. Owners'
    BY <1>1, <1>2, RunIdsAre
    DEF HostSafe, HostTypes, Owners, HelperAlive, RunsOfThePast, CurrentRun, ActivationRun
  <1>9. NotRollingYet(runFile)'
    BY <1>1, <1>2, RunIdsAre
    DEF HostSafe, HostTypes, NotRollingYet, StandsAt, RollbackSaved, CurrentRun
  <1>10. NotRollingYet(runMem)'
    BY <1>1, <1>2, RunIdsAre
    DEF HostSafe, HostTypes, NotRollingYet, StandsAt, RollbackSaved, CurrentRun
  <1>11. RollbackSaved'
    BY <1>1, <1>2, RunIdsAre
    DEF HostSafe, HostTypes, RollbackSaved, CurrentRun
  <1> QED
    BY <1>3, <1>4, <1>5, <1>6, <1>7, <1>8, <1>9, <1>10, <1>11 DEF HostSafe

\* The completed run is saved.
LEMMA CompleteSaveSafe ==
    ASSUME HostInv, CompleteSave
    PROVE  HostSafe'
PROOF
  <1>1. HostTypes /\ HostSafe
    BY HostTyped DEF HostInv
  <1>2. /\ exec.phase = "none" /\ runMem'.status # "running" /\ runMem'.id = runMem.id /\ runFile' = runMem'
        /\ act.op \in {"complete", "completeAndRelease"} /\ act.op # "none"
        /\ act'.op = "none" \/ (act.op = "completeAndRelease" /\ act'.op = "release" /\ act'.run = act.run)
        /\ UNCHANGED <<lastRun, exec, ending, late, lifecycle, ctl, box, helper, command>>
    BY <1>1, ActIs, EndedIs DEF CompleteSave, HostSafe, ActivationRun, HostTypes
  <1>3. RunsOfThePast'
    BY <1>1, <1>2, RunIdsAre
    DEF HostSafe, HostTypes, RunsOfThePast, CurrentRun
  <1>4. CurrentRun'
    BY <1>1, <1>2, RunIdsAre
    DEF HostSafe, HostTypes, CurrentRun, RunsOfThePast, ActivationRun
  <1>5. ActivationRun'
    BY <1>1, <1>2, RunIdsAre
    DEF HostSafe, HostTypes, ActivationRun, HelperAlive, Activating, RunsOfThePast, CurrentRun
  <1>6. Covered(runFile)'
    BY <1>1, <1>2, RunIdsAre
    DEF HostSafe, HostTypes, Covered, HelperAlive, RunsOfThePast, CurrentRun, ActivationRun, Owners
  <1>7. Covered(runMem)'
    BY <1>1, <1>2, RunIdsAre
    DEF HostSafe, HostTypes, Covered, HelperAlive, RunsOfThePast, CurrentRun, ActivationRun, Owners
  <1>8. Owners'
    BY <1>1, <1>2, RunIdsAre
    DEF HostSafe, HostTypes, Owners, HelperAlive, RunsOfThePast, CurrentRun, ActivationRun
  <1>9. NotRollingYet(runFile)'
    BY <1>1, <1>2, RunIdsAre
    DEF HostSafe, HostTypes, NotRollingYet, StandsAt, RollbackSaved, CurrentRun
  <1>10. NotRollingYet(runMem)'
    BY <1>1, <1>2, RunIdsAre
    DEF HostSafe, HostTypes, NotRollingYet, StandsAt, RollbackSaved, CurrentRun
  <1>11. RollbackSaved'
    BY <1>1, <1>2, RunIdsAre
    DEF HostSafe, HostTypes, RollbackSaved, CurrentRun
  <1> QED
    BY <1>3, <1>4, <1>5, <1>6, <1>7, <1>8, <1>9, <1>10, <1>11 DEF HostSafe

\* The controller fails a run that has no helper.
LEMMA FailAloneSafe ==
    ASSUME HostInv, FailAlone
    PROVE  HostSafe'
PROOF
  <1>1. HostTypes /\ HostSafe
    BY HostTyped DEF HostInv
  <1>2. /\ ctl = "up" /\ act.op = "none" /\ exec.phase = "none" /\ runMem.id \in 1..lastRun /\ ~HelperAlive(runMem.id)
        /\ act'.op = "release" /\ act'.run = runMem.id
        /\ runMem'.status # "running" /\ runMem'.id = runMem.id /\ runFile' = runMem'
        /\ UNCHANGED <<lastRun, exec, ending, late, lifecycle, ctl, box, helper, command>>
    BY <1>1, ActIs, EndedIs, OpenIsIdle DEF FailAlone, ActivationOpen, Adopted, FileDecided, HostTypes
  <1>3. RunsOfThePast'
    BY <1>1, <1>2, RunIdsAre
    DEF HostSafe, HostTypes, RunsOfThePast, CurrentRun
  <1>4. CurrentRun'
    BY <1>1, <1>2, RunIdsAre
    DEF HostSafe, HostTypes, CurrentRun, RunsOfThePast, ActivationRun
  <1>5. ActivationRun'
    BY <1>1, <1>2, RunIdsAre
    DEF HostSafe, HostTypes, ActivationRun, HelperAlive, Activating, RunsOfThePast, CurrentRun
  <1>6. Covered(runFile)'
    BY <1>1, <1>2, RunIdsAre
    DEF HostSafe, HostTypes, Covered, HelperAlive, RunsOfThePast, CurrentRun, ActivationRun, Owners
  <1>7. Covered(runMem)'
    BY <1>1, <1>2, RunIdsAre
    DEF HostSafe, HostTypes, Covered, HelperAlive, RunsOfThePast, CurrentRun, ActivationRun, Owners
  <1>8. Owners'
    BY <1>1, <1>2, RunIdsAre
    DEF HostSafe, HostTypes, Owners, HelperAlive, RunsOfThePast, CurrentRun, ActivationRun
  <1>9. NotRollingYet(runFile)'
    BY <1>1, <1>2, RunIdsAre
    DEF HostSafe, HostTypes, NotRollingYet, StandsAt, RollbackSaved, CurrentRun
  <1>10. NotRollingYet(runMem)'
    BY <1>1, <1>2, RunIdsAre
    DEF HostSafe, HostTypes, NotRollingYet, StandsAt, RollbackSaved, CurrentRun
  <1>11. RollbackSaved'
    BY <1>1, <1>2, RunIdsAre
    DEF HostSafe, HostTypes, RollbackSaved, CurrentRun
  <1> QED
    BY <1>3, <1>4, <1>5, <1>6, <1>7, <1>8, <1>9, <1>10, <1>11 DEF HostSafe

\* The controller gives back the lock of a run without a helper.
LEMMA ReleaseAloneSafe ==
    ASSUME HostInv, ReleaseAlone
    PROVE  HostSafe'
PROOF
  <1>1. HostTypes /\ HostSafe
    BY HostTyped DEF HostInv
  <1>2. /\ act.op = "release" /\ act'.op = "none" /\ ~HelperAlive(act.run)
        /\ lifecycle' = lifecycle \/ lifecycle = act.run
        /\ UNCHANGED <<runFile, runMem, lastRun, exec, ending, late, ctl, box, helper, command>>
    BY <1>1, ActIs DEF ReleaseAlone, Released, HostSafe, ActivationRun
  <1>3. RunsOfThePast'
    BY <1>1, <1>2, RunIdsAre
    DEF HostSafe, HostTypes, RunsOfThePast, CurrentRun
  <1>4. CurrentRun'
    BY <1>1, <1>2, RunIdsAre
    DEF HostSafe, HostTypes, CurrentRun, RunsOfThePast, ActivationRun
  <1>5. ActivationRun'
    BY <1>1, <1>2, RunIdsAre
    DEF HostSafe, HostTypes, ActivationRun, HelperAlive, Activating, RunsOfThePast, CurrentRun
  <1>6. Covered(runFile)'
    BY <1>1, <1>2, RunIdsAre
    DEF HostSafe, HostTypes, Covered, HelperAlive, RunsOfThePast, CurrentRun, ActivationRun, Owners
  <1>7. Covered(runMem)'
    BY <1>1, <1>2, RunIdsAre
    DEF HostSafe, HostTypes, Covered, HelperAlive, RunsOfThePast, CurrentRun, ActivationRun, Owners
  <1>8. Owners'
    BY <1>1, <1>2, RunIdsAre
    DEF HostSafe, HostTypes, Owners, HelperAlive, RunsOfThePast, CurrentRun, ActivationRun
  <1>9. NotRollingYet(runFile)'
    BY <1>1, <1>2, RunIdsAre
    DEF HostSafe, HostTypes, NotRollingYet, StandsAt, RollbackSaved, CurrentRun
  <1>10. NotRollingYet(runMem)'
    BY <1>1, <1>2, RunIdsAre
    DEF HostSafe, HostTypes, NotRollingYet, StandsAt, RollbackSaved, CurrentRun
  <1>11. RollbackSaved'
    BY <1>1, <1>2, RunIdsAre
    DEF HostSafe, HostTypes, RollbackSaved, CurrentRun
  <1> QED
    BY <1>3, <1>4, <1>5, <1>6, <1>7, <1>8, <1>9, <1>10, <1>11 DEF HostSafe

\* The helper tells the controller that it rolls back.
LEMMA HelperReportsSafe ==
    ASSUME HostInv, NEW r \in RunIds, HelperReports(r)
    PROVE  HostSafe'
PROOF
  <1>1. HostTypes /\ HostSafe
    BY HostTyped DEF HostInv
  <1>2. /\ act.op = "none" /\ exec.phase = "none" /\ runMem.id = r /\ HelperAlive(r) /\ helper[r] # "none"
        /\ runMem'.id = r /\ runMem'.status = "running" /\ runMem'.pending /\ runMem'.rolling /\ runFile' = runMem'
        /\ helper'[r] = "rollback" /\ \A q \in RunIds : q # r => helper'[q] = helper[q]
        /\ UNCHANGED <<lastRun, exec, ending, act, lifecycle, ctl, box, command>>
    BY <1>1 DEF HelperReports, StandsAt, ActivationOpen, HostSafe, CurrentRun, RunsOfThePast, HostTypes, HelperAlive, GoTo, NoAct, Activating, Statuses
  <1>3. RunsOfThePast'
    BY <1>1, <1>2, RunIdsAre
    DEF HostSafe, HostTypes, RunsOfThePast, CurrentRun
  <1>4. CurrentRun'
    BY <1>1, <1>2, RunIdsAre
    DEF HostSafe, HostTypes, CurrentRun, RunsOfThePast, ActivationRun
  <1>5. ActivationRun'
    BY <1>1, <1>2, RunIdsAre
    DEF HostSafe, HostTypes, ActivationRun, HelperAlive, Activating, RunsOfThePast, CurrentRun
  <1>6. Covered(runFile)'
    BY <1>1, <1>2, RunIdsAre
    DEF HostSafe, HostTypes, Covered, HelperAlive, RunsOfThePast, CurrentRun, ActivationRun, Owners
  <1>7. Covered(runMem)'
    BY <1>1, <1>2, RunIdsAre
    DEF HostSafe, HostTypes, Covered, HelperAlive, RunsOfThePast, CurrentRun, ActivationRun, Owners
  <1>8. Owners'
    BY <1>1, <1>2, RunIdsAre
    DEF HostSafe, HostTypes, Owners, HelperAlive, RunsOfThePast, CurrentRun, ActivationRun
  <1>9. NotRollingYet(runFile)'
    BY <1>1, <1>2, RunIdsAre
    DEF HostSafe, HostTypes, NotRollingYet, StandsAt, RollbackSaved, CurrentRun
  <1>10. NotRollingYet(runMem)'
    BY <1>1, <1>2, RunIdsAre
    DEF HostSafe, HostTypes, NotRollingYet, StandsAt, RollbackSaved, CurrentRun
  <1>11. RollbackSaved'
    BY <1>1, <1>2, RunIdsAre
    DEF HostSafe, HostTypes, RollbackSaved, CurrentRun
  <1> QED
    BY <1>3, <1>4, <1>5, <1>6, <1>7, <1>8, <1>9, <1>10, <1>11 DEF HostSafe

\* The helper writes that it rolls back.
LEMMA HelperMarksSafe ==
    ASSUME HostInv, NEW r \in RunIds, HelperMarks(r)
    PROVE  HostSafe'
PROOF
  <1>1. HostTypes /\ HostSafe
    BY HostTyped DEF HostInv
  <1>2. /\ HelperAlive(r) /\ helper[r] # "none" /\ r <= lastRun
        /\ runFile'.id = r /\ runFile'.status = "running"
        /\ runFile'.pending /\ runFile'.rolling
        /\ helper'[r] = "rollback" /\ \A q \in RunIds : q # r => helper'[q] = helper[q]
        /\ ~late'
        /\ UNCHANGED <<runMem, exec, ending, act, lastRun, lifecycle, ctl, box, command>>
    <2>1. runFile' = Run(r, "running", TRUE, TRUE) /\ late' = FALSE
      BY DEF HelperMarks
    <2>2. helper[r] = "mark" /\ helper'[r] = "rollback" /\ \A q \in RunIds : q # r => helper'[q] = helper[q]
      BY <1>1 DEF HelperMarks, StandsAt, HostTypes, GoTo
    <2>3. UNCHANGED <<runMem, exec, ending, act, lastRun, lifecycle, ctl, box, command>>
      BY DEF HelperMarks, ctlVars
    <2>4. HelperAlive(r) /\ r <= lastRun
      BY <2>2, HelperIsOfARun DEF HelperAlive
    <2> QED
      BY <2>1, <2>2, <2>3, <2>4, RunningIs
  <1>3. RunsOfThePast'
    BY <1>1, <1>2, RunIdsAre
    DEF HostSafe, HostTypes, RunsOfThePast, CurrentRun
  <1>4. CurrentRun'
    BY <1>1, <1>2, RunIdsAre
    DEF HostSafe, HostTypes, CurrentRun, RunsOfThePast, ActivationRun
  <1>5. ActivationRun'
    BY <1>1, <1>2, RunIdsAre
    DEF HostSafe, HostTypes, ActivationRun, HelperAlive, Activating, RunsOfThePast, CurrentRun
  <1>6. Covered(runFile)'
    BY <1>1, <1>2, RunIdsAre
    DEF HostSafe, HostTypes, Covered, HelperAlive, RunsOfThePast, CurrentRun, ActivationRun, Owners
  <1>7. Covered(runMem)'
    BY <1>1, <1>2, RunIdsAre
    DEF HostSafe, HostTypes, Covered, HelperAlive, RunsOfThePast, CurrentRun, ActivationRun, Owners
  <1>8. Owners'
    BY <1>1, <1>2, RunIdsAre
    DEF HostSafe, HostTypes, Owners, HelperAlive, RunsOfThePast, CurrentRun, ActivationRun
  <1>9. NotRollingYet(runFile)'
    BY <1>1, <1>2, RunIdsAre
    DEF HostSafe, HostTypes, NotRollingYet, StandsAt, RollbackSaved, CurrentRun
  <1>10. NotRollingYet(runMem)'
    BY <1>1, <1>2, RunIdsAre
    DEF HostSafe, HostTypes, NotRollingYet, StandsAt, RollbackSaved, CurrentRun
  <1>11. RollbackSaved'
    BY <1>1, <1>2, RunIdsAre
    DEF HostSafe, HostTypes, RollbackSaved, CurrentRun
  <1> QED
    BY <1>3, <1>4, <1>5, <1>6, <1>7, <1>8, <1>9, <1>10, <1>11 DEF HostSafe

\* The helper tells the controller that the run failed.
LEMMA HelperFailsSafe ==
    ASSUME HostInv, NEW r \in RunIds, HelperFails(r)
    PROVE  HostSafe'
PROOF
  <1>1. HostTypes /\ HostSafe
    BY HostTyped DEF HostInv
  <1>2. /\ act.op = "none" /\ exec.phase = "none" /\ runMem.id = r /\ HelperAlive(r) /\ helper[r] # "none"
        /\ runMem'.id = r /\ runMem'.status # "running" /\ runFile' = runMem'
        /\ helper'[r] = "finish" /\ \A q \in RunIds : q # r => helper'[q] = helper[q]
        /\ UNCHANGED <<lastRun, exec, ending, act, late, lifecycle, ctl, box, command>>
    BY <1>1, EndedIs, ActIs DEF HelperFails, StandsAt, HostSafe, CurrentRun, RunsOfThePast, HostTypes, HelperAlive, GoTo, NoAct
  <1>3. RunsOfThePast'
    BY <1>1, <1>2, RunIdsAre
    DEF HostSafe, HostTypes, RunsOfThePast, CurrentRun
  <1>4. CurrentRun'
    BY <1>1, <1>2, RunIdsAre
    DEF HostSafe, HostTypes, CurrentRun, RunsOfThePast, ActivationRun
  <1>5. ActivationRun'
    BY <1>1, <1>2, RunIdsAre
    DEF HostSafe, HostTypes, ActivationRun, HelperAlive, Activating, RunsOfThePast, CurrentRun
  <1>6. Covered(runFile)'
    BY <1>1, <1>2, RunIdsAre
    DEF HostSafe, HostTypes, Covered, HelperAlive, RunsOfThePast, CurrentRun, ActivationRun, Owners
  <1>7. Covered(runMem)'
    BY <1>1, <1>2, RunIdsAre
    DEF HostSafe, HostTypes, Covered, HelperAlive, RunsOfThePast, CurrentRun, ActivationRun, Owners
  <1>8. Owners'
    BY <1>1, <1>2, RunIdsAre
    DEF HostSafe, HostTypes, Owners, HelperAlive, RunsOfThePast, CurrentRun, ActivationRun
  <1>9. NotRollingYet(runFile)'
    BY <1>1, <1>2, RunIdsAre
    DEF HostSafe, HostTypes, NotRollingYet, StandsAt, RollbackSaved, CurrentRun
  <1>10. NotRollingYet(runMem)'
    BY <1>1, <1>2, RunIdsAre
    DEF HostSafe, HostTypes, NotRollingYet, StandsAt, RollbackSaved, CurrentRun
  <1>11. RollbackSaved'
    BY <1>1, <1>2, RunIdsAre
    DEF HostSafe, HostTypes, RollbackSaved, CurrentRun
  <1> QED
    BY <1>3, <1>4, <1>5, <1>6, <1>7, <1>8, <1>9, <1>10, <1>11 DEF HostSafe

\* The helper writes that the run failed.
LEMMA HelperMarksFailedSafe ==
    ASSUME HostInv, NEW r \in RunIds, HelperMarksFailed(r)
    PROVE  HostSafe'
PROOF
  <1>1. HostTypes /\ HostSafe
    BY HostTyped DEF HostInv
  <1>2. /\ HelperAlive(r) /\ helper[r] # "none" /\ r <= lastRun
        /\ runFile'.id = r /\ runFile'.status # "running"
        /\ helper'[r] = "finish" /\ \A q \in RunIds : q # r => helper'[q] = helper[q]
        /\ UNCHANGED <<runMem, exec, ending, act, lastRun, late, lifecycle, ctl, box, command>>
    <2>1. runFile' = Run(r, "failed", FALSE, FALSE)
      BY DEF HelperMarksFailed
    <2>2. helper[r] = "markFailed" /\ helper'[r] = "finish" /\ \A q \in RunIds : q # r => helper'[q] = helper[q]
      BY <1>1 DEF HelperMarksFailed, StandsAt, HostTypes, GoTo
    <2>3. UNCHANGED <<runMem, exec, ending, act, lastRun, late, lifecycle, ctl, box, command>>
      BY DEF HelperMarksFailed, ctlVars
    <2>4. HelperAlive(r) /\ r <= lastRun
      BY <2>2, HelperIsOfARun DEF HelperAlive
    <2> QED
      BY <2>1, <2>2, <2>3, <2>4, RunningIs
  <1>3. RunsOfThePast'
    BY <1>1, <1>2, RunIdsAre
    DEF HostSafe, HostTypes, RunsOfThePast, CurrentRun
  <1>4. CurrentRun'
    BY <1>1, <1>2, RunIdsAre
    DEF HostSafe, HostTypes, CurrentRun, RunsOfThePast, ActivationRun
  <1>5. ActivationRun'
    BY <1>1, <1>2, RunIdsAre
    DEF HostSafe, HostTypes, ActivationRun, HelperAlive, Activating, RunsOfThePast, CurrentRun
  <1>6. Covered(runFile)'
    BY <1>1, <1>2, RunIdsAre
    DEF HostSafe, HostTypes, Covered, HelperAlive, RunsOfThePast, CurrentRun, ActivationRun, Owners
  <1>7. Covered(runMem)'
    BY <1>1, <1>2, RunIdsAre
    DEF HostSafe, HostTypes, Covered, HelperAlive, RunsOfThePast, CurrentRun, ActivationRun, Owners
  <1>8. Owners'
    BY <1>1, <1>2, RunIdsAre
    DEF HostSafe, HostTypes, Owners, HelperAlive, RunsOfThePast, CurrentRun, ActivationRun
  <1>9. NotRollingYet(runFile)'
    BY <1>1, <1>2, RunIdsAre
    DEF HostSafe, HostTypes, NotRollingYet, StandsAt, RollbackSaved, CurrentRun
  <1>10. NotRollingYet(runMem)'
    BY <1>1, <1>2, RunIdsAre
    DEF HostSafe, HostTypes, NotRollingYet, StandsAt, RollbackSaved, CurrentRun
  <1>11. RollbackSaved'
    BY <1>1, <1>2, RunIdsAre
    DEF HostSafe, HostTypes, RollbackSaved, CurrentRun
  <1> QED
    BY <1>3, <1>4, <1>5, <1>6, <1>7, <1>8, <1>9, <1>10, <1>11 DEF HostSafe

\* A helper that is done gives the lock back and is gone.
LEMMA HelperGoesSafe ==
    ASSUME HostInv, NEW r \in RunIds, StandsAt(r, "release"), HelperFinishes(r)
    PROVE  HostSafe'
PROOF
  <1>1. HostTypes /\ HostSafe
    BY HostTyped DEF HostInv
  <1>2. /\ HelperAlive(r) /\ helper[r] # "none"
        /\ lifecycle' = lifecycle \/ lifecycle = r
        /\ helper'[r] = "gone" /\ \A q \in RunIds : q # r => helper'[q] = helper[q]
        /\ UNCHANGED <<runFile, runMem, exec, ending, act, lastRun, late, ctl, box, command>>
    BY <1>1 DEF HelperFinishes, StandsAt, Released, HostTypes, HelperAlive, GoTo, ctlVars
  <1>3. RunsOfThePast'
    BY <1>1, <1>2, RunIdsAre
    DEF HostSafe, HostTypes, RunsOfThePast, CurrentRun
  <1>4. CurrentRun'
    BY <1>1, <1>2, RunIdsAre
    DEF HostSafe, HostTypes, CurrentRun, RunsOfThePast, ActivationRun
  <1>5. ActivationRun'
    BY <1>1, <1>2, RunIdsAre
    DEF HostSafe, HostTypes, ActivationRun, HelperAlive, Activating, RunsOfThePast, CurrentRun
  <1>6. Covered(runFile)'
    BY <1>1, <1>2, RunIdsAre
    DEF HostSafe, HostTypes, Covered, HelperAlive, RunsOfThePast, CurrentRun, ActivationRun, Owners
  <1>7. Covered(runMem)'
    BY <1>1, <1>2, RunIdsAre
    DEF HostSafe, HostTypes, Covered, HelperAlive, RunsOfThePast, CurrentRun, ActivationRun, Owners
  <1>8. Owners'
    BY <1>1, <1>2, RunIdsAre
    DEF HostSafe, HostTypes, Owners, HelperAlive, RunsOfThePast, CurrentRun, ActivationRun
  <1>9. NotRollingYet(runFile)'
    BY <1>1, <1>2, RunIdsAre
    DEF HostSafe, HostTypes, NotRollingYet, StandsAt, RollbackSaved, CurrentRun
  <1>10. NotRollingYet(runMem)'
    BY <1>1, <1>2, RunIdsAre
    DEF HostSafe, HostTypes, NotRollingYet, StandsAt, RollbackSaved, CurrentRun
  <1>11. RollbackSaved'
    BY <1>1, <1>2, RunIdsAre
    DEF HostSafe, HostTypes, RollbackSaved, CurrentRun
  <1> QED
    BY <1>3, <1>4, <1>5, <1>6, <1>7, <1>8, <1>9, <1>10, <1>11 DEF HostSafe

\* A command takes a lock that nobody works under.
LEMMA CommandLocksSafe ==
    ASSUME HostInv, NEW c \in Commands, CommandLocks(c)
    PROVE  HostSafe'
PROOF
  <1>1. HostTypes /\ HostSafe
    BY HostTyped DEF HostInv
  <1>2. /\ c \notin RunIds /\ lifecycle' = c
        /\ command'[c] = "held" /\ \A d \in Commands : d # c => command'[d] = command[d]
        /\ \/ lifecycle = NoOwner
           \/ lifecycle \in Commands /\ command[lifecycle] = "dead"
           \/ lifecycle \in RunIds /\ RunIsOver(lifecycle)
        /\ UNCHANGED <<runFile, runMem, exec, ending, act, lastRun, late, ctl, box, helper>>
    BY <1>1, RunIdsAre DEF CommandLocks, HostTypes, ctlVars
  <1>3. RunsOfThePast'
    BY <1>1, <1>2, RunIdsAre
    DEF HostSafe, HostTypes, RunsOfThePast, CurrentRun
  <1>4. CurrentRun'
    BY <1>1, <1>2, RunIdsAre
    DEF HostSafe, HostTypes, CurrentRun, RunsOfThePast, ActivationRun
  <1>5. ActivationRun'
    BY <1>1, <1>2, RunIdsAre
    DEF HostSafe, HostTypes, ActivationRun, HelperAlive, Activating, RunsOfThePast, CurrentRun
  <1>6. Covered(runFile)'
    BY <1>1, <1>2, RunIdsAre
    DEF HostSafe, HostTypes, Covered, HelperAlive, RunsOfThePast, CurrentRun, ActivationRun, Owners,
        RunIsOver
  <1>7. Covered(runMem)'
    BY <1>1, <1>2, RunIdsAre
    DEF HostSafe, HostTypes, Covered, HelperAlive, RunsOfThePast, CurrentRun, ActivationRun, Owners,
        RunIsOver
  <1>8. Owners'
    BY <1>1, <1>2, RunIdsAre
    DEF HostSafe, HostTypes, Owners, HelperAlive, RunsOfThePast, CurrentRun, ActivationRun, RunIsOver
  <1>9. NotRollingYet(runFile)'
    BY <1>1, <1>2, RunIdsAre
    DEF HostSafe, HostTypes, NotRollingYet, StandsAt, RollbackSaved, CurrentRun
  <1>10. NotRollingYet(runMem)'
    BY <1>1, <1>2, RunIdsAre
    DEF HostSafe, HostTypes, NotRollingYet, StandsAt, RollbackSaved, CurrentRun
  <1>11. RollbackSaved'
    BY <1>1, <1>2, RunIdsAre
    DEF HostSafe, HostTypes, RollbackSaved, CurrentRun
  <1> QED
    BY <1>3, <1>4, <1>5, <1>6, <1>7, <1>8, <1>9, <1>10, <1>11 DEF HostSafe

\* A command gives its lock back.
LEMMA CommandEndsSafe ==
    ASSUME HostInv, NEW c \in Commands, CommandEnds(c)
    PROVE  HostSafe'
PROOF
  <1>1. HostTypes /\ HostSafe
    BY HostTyped DEF HostInv
  <1>2. /\ c \notin RunIds /\ command'[c] = "idle" /\ \A d \in Commands : d # c => command'[d] = command[d]
        /\ lifecycle' = lifecycle \/ lifecycle = c
        /\ UNCHANGED <<runFile, runMem, exec, ending, act, lastRun, late, ctl, box, helper>>
    BY <1>1, RunIdsAre DEF CommandEnds, Released, HostTypes, ctlVars
  <1>3. RunsOfThePast'
    BY <1>1, <1>2, RunIdsAre
    DEF HostSafe, HostTypes, RunsOfThePast, CurrentRun
  <1>4. CurrentRun'
    BY <1>1, <1>2, RunIdsAre
    DEF HostSafe, HostTypes, CurrentRun, RunsOfThePast, ActivationRun
  <1>5. ActivationRun'
    BY <1>1, <1>2, RunIdsAre
    DEF HostSafe, HostTypes, ActivationRun, HelperAlive, Activating, RunsOfThePast, CurrentRun
  <1>6. Covered(runFile)' /\ Covered(runMem)'
    <2>1. Covered(runFile) /\ Covered(runMem)
      BY <1>1 DEF HostSafe
    <2>2. \A r \in RunIds : lifecycle = r => lifecycle' = r
      BY <1>2
    <2>3. runFile' = runFile /\ runMem' = runMem /\ \A r \in RunIds : HelperAlive(r)' <=> HelperAlive(r)
      BY <1>2 DEF HelperAlive, StandsAt
    <2> QED
      BY <2>1, <2>2, <2>3 DEF Covered
  <1>8. Owners'
    BY <1>1, <1>2, RunIdsAre
    DEF HostSafe, HostTypes, Owners, HelperAlive, RunsOfThePast, CurrentRun, ActivationRun
  <1>9. NotRollingYet(runFile)'
    BY <1>1, <1>2, RunIdsAre
    DEF HostSafe, HostTypes, NotRollingYet, StandsAt, RollbackSaved, CurrentRun
  <1>10. NotRollingYet(runMem)'
    BY <1>1, <1>2, RunIdsAre
    DEF HostSafe, HostTypes, NotRollingYet, StandsAt, RollbackSaved, CurrentRun
  <1>11. RollbackSaved'
    BY <1>1, <1>2, RunIdsAre
    DEF HostSafe, HostTypes, RollbackSaved, CurrentRun
  <1> QED
    BY <1>3, <1>4, <1>5, <1>6, <1>8, <1>9, <1>10, <1>11 DEF HostSafe

\* A command is killed.
LEMMA CommandDiesSafe ==
    ASSUME HostInv, NEW c \in Commands, CommandDies(c)
    PROVE  HostSafe'
PROOF
  <1>1. HostTypes /\ HostSafe
    BY HostTyped DEF HostInv
  <1>2. /\ command'[c] = "dead" /\ \A d \in Commands : d # c => command'[d] = command[d]
        /\ UNCHANGED <<runFile, runMem, exec, ending, act, lastRun, late, lifecycle, ctl, box, helper>>
    BY <1>1 DEF CommandDies, HostTypes, ctlVars
  <1>3. RunsOfThePast'
    BY <1>1, <1>2, RunIdsAre
    DEF HostSafe, HostTypes, RunsOfThePast, CurrentRun
  <1>4. CurrentRun'
    BY <1>1, <1>2, RunIdsAre
    DEF HostSafe, HostTypes, CurrentRun, RunsOfThePast, ActivationRun
  <1>5. ActivationRun'
    BY <1>1, <1>2, RunIdsAre
    DEF HostSafe, HostTypes, ActivationRun, HelperAlive, Activating, RunsOfThePast, CurrentRun
  <1>6. Covered(runFile)'
    BY <1>1, <1>2, RunIdsAre
    DEF HostSafe, HostTypes, Covered, HelperAlive, RunsOfThePast, CurrentRun, ActivationRun, Owners
  <1>7. Covered(runMem)'
    BY <1>1, <1>2, RunIdsAre
    DEF HostSafe, HostTypes, Covered, HelperAlive, RunsOfThePast, CurrentRun, ActivationRun, Owners
  <1>8. Owners'
    BY <1>1, <1>2, RunIdsAre
    DEF HostSafe, HostTypes, Owners, HelperAlive, RunsOfThePast, CurrentRun, ActivationRun
  <1>9. NotRollingYet(runFile)'
    BY <1>1, <1>2, RunIdsAre
    DEF HostSafe, HostTypes, NotRollingYet, StandsAt, RollbackSaved, CurrentRun
  <1>10. NotRollingYet(runMem)'
    BY <1>1, <1>2, RunIdsAre
    DEF HostSafe, HostTypes, NotRollingYet, StandsAt, RollbackSaved, CurrentRun
  <1>11. RollbackSaved'
    BY <1>1, <1>2, RunIdsAre
    DEF HostSafe, HostTypes, RollbackSaved, CurrentRun
  <1> QED
    BY <1>3, <1>4, <1>5, <1>6, <1>7, <1>8, <1>9, <1>10, <1>11 DEF HostSafe

\* Each step of the host keeps the invariant.
LEMMA HostSafeStep == HostInv /\ [RestartNext]_restartVars => HostSafe'
PROOF
  <1> SUFFICES ASSUME HostInv, [RestartNext]_restartVars PROVE HostSafe'
    OBVIOUS
  <1>1. HostTypes /\ HostSafe
    BY HostTyped DEF HostInv
  <1>2. CASE UNCHANGED restartVars
    BY <1>1, <1>2 DEF restartVars, HostSafe, RunsOfThePast, CurrentRun, ActivationRun, Covered, Owners,
       NotRollingYet, RollbackSaved, StandsAt, HelperAlive, Activating
  <1>3. CASE Prepare \/ TreeFails \/ RestartFromTree
    <2>1. CASE RunDone /\ RestartFromTree
      BY <2>1, RunEnds, ExecIs DEF RestartFromTree
    <2>2. ASSUME NEW phase \in Executing \ {"starting"}, exec.phase \in Executing \ {"starting"},
                 exec' = [exec EXCEPT !.phase = phase], Prepare \/ TreeFails \/ RestartFromTree,
                 UNCHANGED <<runFile, runMem, ending>>
          PROVE  HostSafe'
      <3>1. UNCHANGED <<runFile, runMem, lastRun, ending, act, late, lifecycle, ctl, box, helper, command>>
        BY <2>2 DEF Prepare, TreeFails, RestartFromTree
      <3> QED
        BY <2>2, <3>1, RunGoesOn
    <2> QED
      BY <1>3, <2>1, <2>2, ExecIs DEF Prepare, TreeFails, RestartFromTree
  <1>4. CASE RestartFromHead \/ HeadFails \/ WorkFails
    <2>1. exec.phase \in Executing /\ (RunDone \/ (RunFails /\ UNCHANGED runFile))
      BY <1>4, ExecIs DEF RestartFromHead, HeadFails, WorkFails
    <2>2. UNCHANGED <<lastRun, act, late, lifecycle, ctl, box, helper, command>>
      BY <1>4 DEF RestartFromHead, HeadFails, WorkFails
    <2> QED
      BY <2>1, <2>2, RunEnds
  <1>5. CASE ControllerDies
    <2>1. Stopped /\ UNCHANGED <<runFile, lastRun, late, lifecycle, command, helper, box>>
      BY <1>5 DEF ControllerDies
    <2>2. \A q \in RunIds : box' \in {<<"up", q>>, <<"back", q>>} => helper'[q] # "none"
      BY <1>1, <2>1 DEF HostSafe, RunsOfThePast
    <2> QED
      BY <2>1, <2>2, ControllerStops
  <1>6. ASSUME NEW r \in RunIds, HelperUp(r) PROVE HostSafe'
    <2>1. CASE Stopped /\ box' = <<"up", r>> /\ UNCHANGED <<runFile, lastRun, late, lifecycle, command>>
      <3>1. \E next \in {"check", "confirm"} : helper' = [helper EXCEPT ![r] = next] /\ helper[r] = "up"
        BY <1>6, <2>1 DEF HelperUp, GoTo, StandsAt
      <3>2. \A q \in RunIds : helper'[q] = helper[q] \/ (HelperAlive(q) /\ helper'[q] \notin {"none", "up"})
        BY <1>1, <3>1 DEF HelperAlive, HostTypes
      <3>3. \A q \in RunIds : box' \in {<<"up", q>>, <<"back", q>>} => helper'[q] # "none"
        BY <1>1, <2>1, <3>1, BoxesAre DEF HostTypes
      <3> QED
        BY <2>1, <3>2, <3>3, ControllerStops
    <2>2. CASE GoTo(r, "check") /\ UNCHANGED <<ctlVars, ctl, box, bad>>
      <3>1. HelperAlive(r) /\ UNCHANGED <<runFile, ctlVars, lastRun, late, lifecycle, ctl, box, command>>
        BY <1>6, <2>2 DEF HelperUp, StandsAt, HelperAlive
      <3> QED
        BY <2>2, <3>1, HelperWalks DEF Stands
    <2> QED
      BY <1>6, <2>1, <2>2 DEF HelperUp
  <1>7. ASSUME NEW r \in RunIds, HelperRollsBack(r) PROVE HostSafe'
    <2>1. CASE Stopped /\ box' = <<"back", r>> /\ UNCHANGED <<runFile, lastRun, late, lifecycle, command>>
      <3>1. helper' = [helper EXCEPT ![r] = "fail"] /\ helper[r] = "rollback"
        BY <1>7 DEF HelperRollsBack, GoTo, StandsAt
      <3>2. \A q \in RunIds : helper'[q] = helper[q] \/ (HelperAlive(q) /\ helper'[q] \notin {"none", "up"})
        BY <1>1, <3>1 DEF HelperAlive, HostTypes
      <3>3. \A q \in RunIds : box' \in {<<"up", q>>, <<"back", q>>} => helper'[q] # "none"
        BY <1>1, <2>1, <3>1, BoxesAre DEF HostTypes
      <3> QED
        BY <2>1, <3>2, <3>3, ControllerStops
    <2>2. CASE UNCHANGED <<ctlVars, ctl, box, bad>>
      <3>1. /\ HelperAlive(r) /\ GoTo(r, "fail")
            /\ UNCHANGED <<runFile, ctlVars, lastRun, late, lifecycle, ctl, box, command>>
        BY <1>7, <2>2 DEF HelperRollsBack, StandsAt, HelperAlive
      <3> QED
        BY <3>1, HelperWalks DEF Stands
    <2> QED
      BY <1>7, <2>1, <2>2 DEF HelperRollsBack
  <1>8. ASSUME NEW c \in Commands, CommandRecreates(c) PROVE HostSafe'
    <2>1. Stopped /\ box' = <<"shell", c>> /\ UNCHANGED <<runFile, lastRun, late, lifecycle, command, helper>>
      BY <1>8 DEF CommandRecreates
    <2>2. \A q \in RunIds : box' \in {<<"up", q>>, <<"back", q>>} => helper'[q] # "none"
      BY <2>1, BoxesAre
    <2> QED
      BY <2>1, <2>2, ControllerStops
  <1>9. ASSUME NEW r \in RunIds, HelperBoot(r) PROVE HostSafe'
    <2>1. HelperAlive(r) /\ UNCHANGED <<runFile, ctlVars, lastRun, late, lifecycle, ctl, box, command>>
      BY <1>9 DEF HelperBoot, StandsAt, HelperAlive
    <2>2. runFile.status \in {"running", "completed", "failed"}
      BY <1>1, StatusesAre DEF HostTypes
    <2>3. \E phase \in Stands \ {"none"} :
             /\ GoTo(r, phase)
             /\ phase = "up" => runFile.id = r /\ runFile.status = "running" /\ ~runFile.rolling
      BY <1>9, <2>2 DEF HelperBoot, FileCompleted, Stands
    <2> QED
      BY <2>1, <2>3, HelperWalks
  <1>10. ASSUME NEW r \in RunIds,
                HelperConfirmed(r) \/ HelperGivesUp(r) \/ HelperChecks(r) \/ HelperReportLost(r)
                    \/ HelperFailLost(r) \/ HelperDies(r)
         PROVE  HostSafe'
    <2>1. HelperAlive(r) /\ UNCHANGED <<runFile, ctlVars, lastRun, late, lifecycle, ctl, box, command>>
      BY <1>10 DEF HelperConfirmed, HelperGivesUp, HelperChecks, HelperReportLost, HelperFailLost, HelperDies,
         StandsAt, HelperAlive
    <2>2. \E phase \in Stands \ {"none"} : GoTo(r, phase) /\ phase # "up"
      BY <1>10 DEF HelperConfirmed, HelperGivesUp, HelperChecks, HelperReportLost, HelperFailLost, HelperDies,
         Stands
    <2> QED
      BY <2>1, <2>2, HelperWalks
  <1>11. ASSUME NEW r \in RunIds, HelperFinishes(r) PROVE HostSafe'
    <2>1. CASE StandsAt(r, "release")
      BY <1>11, <2>1, HelperGoesSafe
    <2>2. CASE StandsAt(r, "finish") /\ GoTo(r, "release") /\ UNCHANGED lifecycle
      <3>1. HelperAlive(r) /\ UNCHANGED <<runFile, ctlVars, lastRun, late, lifecycle, ctl, box, command>>
        BY <1>11, <2>2 DEF HelperFinishes, StandsAt, HelperAlive
      <3> QED
        BY <2>2, <3>1, HelperWalks DEF Stands
    <2> QED
      BY <1>11, <2>1, <2>2 DEF HelperFinishes
  <1>12. CASE Admit \/ AcquireLock \/ RefuseRun \/ Schedule \/ StartHelper
    BY <1>12, AdmitSafe, AcquireLockSafe, RefuseRunSafe, ScheduleSafe, StartHelperSafe
  <1>13. CASE ControllerLoads \/ ControllerListens \/ DeadlinePasses \/ AdoptFailure \/ KillHelper
    BY <1>13, ControllerLoadsSafe, ControllerListensSafe, DeadlinePassesSafe, AdoptFailureSafe, KillHelperSafe
  <1>14. CASE CompleteSave \/ FailAlone \/ ReleaseAlone
    BY <1>14, CompleteSaveSafe, FailAloneSafe, ReleaseAloneSafe
  <1>15. ASSUME NEW r \in RunIds,
                EndRun(r) \/ CompleteAlone(r) \/ HelperConfirm(r) \/ HelperReports(r) \/ HelperMarks(r)
                    \/ HelperFails(r) \/ HelperMarksFailed(r)
         PROVE  HostSafe'
    BY <1>15, EndRunSafe, CompleteAloneSafe, HelperConfirmSafe, HelperReportsSafe, HelperMarksSafe,
       HelperFailsSafe, HelperMarksFailedSafe
  <1>16. ASSUME NEW c \in Commands, CommandLocks(c) \/ CommandEnds(c) \/ CommandDies(c) PROVE HostSafe'
    BY <1>16, CommandLocksSafe, CommandEndsSafe, CommandDiesSafe
  <1> QED
    BY <1>2, <1>3, <1>4, <1>5, <1>6, <1>7, <1>8, <1>9, <1>10, <1>11, <1>12, <1>13, <1>14, <1>15, <1>16
    DEF RestartNext, ControllerStep, HelperStep

\* The invariant of the host holds of everything it can come to.
LEMMA HostInvariant == RestartInit /\ [][RestartNext]_restartVars => []HostInv
PROOF
  <1>1. HostInv /\ [RestartNext]_restartVars => HostInv'
    BY HostTypeStep, HostSafeStep DEF HostInv
  <1> QED
    BY <1>1, HostInitInv, PTL

\* The invariant covers the work that is under way.
LEMMA HostInvCovers == HostInv => LockCoversWork
PROOF
  <1> SUFFICES ASSUME HostInv PROVE LockCoversWork
    OBVIOUS
  <1>1. Owners /\ Covered(runFile) /\ NotRollingYet(runFile)
    BY DEF HostInv, HostSafe
  <1>2. ASSUME NEW r \in RunIds, StandsAt(r, "up"), runFile.id = r, runFile.status = "running"
        PROVE  lifecycle = r
    <2>1. HelperAlive(r)
      BY <1>2 DEF StandsAt, HelperAlive
    <2> QED
      BY <1>1, <1>2, <2>1 DEF Covered, NotRollingYet
  <1> QED
    BY <1>1, <1>2 DEF LockCoversWork, Owners

\* Whoever changes the containers of the appliance owns the lifecycle lock while it
\* does: the run the controller executes, a command of manor.sh, the helper that
\* recreates the controller; whichever of them died before.
THEOREM WorkIsCovered == RestartSpec => []LockCoversWork
  BY HostInvariant, HostInvCovers, PTL DEF RestartSpec

\* One step of the host keeps the export the gateway's container was created from.
LEMMA GatewayStep ==
    ASSUME HostInv, [RestartNext]_restartVars, NEW r \in RunIds,
           gateway = CleanHead(r), CleanHead(r) \in sources, gateway' = gateway
    PROVE  CleanHead(r) \in sources' \/ (exec.run = r /\ exec.phase = "fallback")
PROOF
  <1>1. HostTypes /\ (exec.phase # "none" => exec.run \in RunIds)
    BY HostTyped DEF HostInv, HostSafe, RunsOfThePast
  <1>2. \A q : Back(q) # CleanHead(r)
    BY DEF Back, CleanHead
  <1>3. CASE RestartFromTree
    BY <1>3, SourcesAre DEF RestartFromTree
  <1>4. CASE RestartFromHead
    BY <1>1, <1>4, SourcesAre DEF RestartFromHead, Cleaned
  <1>5. CASE HeadFails
    BY <1>1, <1>5, SourcesAre DEF HeadFails
  <1>6. CASE \E owner : sources' = sources \ {Back(owner)}
    BY <1>2, <1>6
  <1>7. CASE \E more : sources' = sources \cup more
    BY <1>7
  <1>8. CASE UNCHANGED sources
    BY <1>8
  <1>9. Prepare \/ TreeFails => \E more : sources' = sources \cup more
    BY DEF Prepare, TreeFails
  <1>10. CASE CompleteSave \/ FailAlone \/ \E q \in RunIds : EndRun(q) \/ HelperFinishes(q)
    BY <1>6, <1>8, <1>10 DEF CompleteSave, FailAlone, EndRun, HelperFinishes
  <1> QED
    BY <1>3, <1>4, <1>5, <1>7, <1>8, <1>9, <1>10
    DEF RestartNext, ControllerStep, HelperStep, restartVars, Admit, AcquireLock, RefuseRun, WorkFails, Schedule,
        StartHelper, ControllerDies, ControllerLoads, ControllerListens, DeadlinePasses, AdoptFailure,
        KillHelper, CompleteAlone, ReleaseAlone, HelperBoot, HelperUp, HelperConfirm, HelperConfirmed,
        HelperGivesUp, HelperChecks, HelperReports, HelperReportLost, HelperMarks, HelperRollsBack,
        HelperFails, HelperFailLost, HelperMarksFailed, HelperDies, CommandLocks, CommandRecreates,
        CommandEnds, CommandDies

\* The same of every behaviour the invariant is kept by.
LEMMA GatewayIsKept == RestartInit /\ [][RestartNext]_restartVars => GatewaySourceKept
PROOF
  <1>1. HostInv /\ [RestartNext]_restartVars =>
           [\A r \in RunIds :
               gateway = CleanHead(r) /\ CleanHead(r) \in sources /\ gateway' = gateway
                   => CleanHead(r) \in sources' \/ (exec.run = r /\ exec.phase = "fallback")]_restartVars
    BY GatewayStep
  <1> QED
    BY <1>1, HostInvariant, PTL DEF GatewaySourceKept

\* The export the gateway's container was created from is removed by nobody but the
\* very run whose fallback failed.
THEOREM GatewayKeepsItsSource == RestartSpec => GatewaySourceKept
  BY GatewayIsKept, PTL DEF RestartSpec

\* The host keeps its state in its type.
THEOREM HostKeepsTypes == RestartSpec => []RestartTypeOK
PROOF
  <1>1. HostInv => RestartTypeOK
    BY DEF HostInv
  <1> QED
    BY <1>1, HostInvariant, PTL DEF RestartSpec
=============================================================================
