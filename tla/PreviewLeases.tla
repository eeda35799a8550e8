--------------------------- MODULE PreviewLeases ---------------------------
(***************************************************************************)
(* A preview lease of the runtime broker (docker/runtime-broker): its      *)
(* creation by POST /leases, its deletion by DELETE /leases/:id, the       *)
(* bootstrap monitor that waits for the preview to answer, the reconcile   *)
(* pass that adopts running containers, and the broker's restart.  Every   *)
(* await of a handler is a point where the other handlers may run.  Lease  *)
(* ids are fresh, and leases share no state, so one lease is modelled.     *)
(***************************************************************************)
EXTENDS Naturals

CONSTANTS MaxDeletes,      \* bound on the deletions asked for
          MaxLeaseFaults   \* bound on broker restarts and failed removals

ASSUME PreviewLeasesAssumption == MaxDeletes \in Nat /\ MaxLeaseFaults \in Nat

VARIABLES
    lease,       \* what the broker holds of the lease
    creating,    \* where the POST that creates it stands
    policyNamed, \* that POST knows of its egress policy (dynamicPolicyName)
    deleting,    \* where a DELETE stands
    deletes,     \* deletions asked for
    monitor,     \* the bootstrap monitor
    listed,      \* a reconcile pass saw the container running and is about to adopt it
    container,   \* the preview's container
    policy,      \* the lease's egress policy exists in the egress proxy
    gone,        \* a deletion was answered
    kept,        \* history: what a swallowed error left behind, until a removal takes it
    leaseFaults

brokerVars == <<creating, policyNamed, deleting, deletes, monitor, listed>>
worldVars  == <<container, policy, kept>>
leaseVars  == <<lease, brokerVars, worldVars, gone, leaseFaults>>

Settled   == {"ready", "failed"}
Bootstrap == {"none", "starting", "waiting"} \cup Settled

LeaseInit ==
    /\ lease = [transition |-> "none", bootstrap |-> "none", pending |-> FALSE, retained |-> FALSE]
    /\ creating = "idle" /\ policyNamed = FALSE
    /\ deleting = "idle" /\ deletes = 0
    /\ monitor = "off" /\ listed = FALSE
    /\ container = "none" /\ policy = FALSE
    /\ gone = FALSE /\ kept = {} /\ leaseFaults = 0

Stopping == lease.transition = "stopping"

\* mergeLeaseBootstrapState: nothing is merged into a state that is not there.
Merged(phase) == IF lease.bootstrap = "none" THEN "none" ELSE phase

-----------------------------------------------------------------------------
(* POST /leases.                                                           *)

CreateLease ==
    /\ creating = "idle"
    /\ lease' = [transition |-> "starting", bootstrap |-> "starting", pending |-> TRUE, retained |-> FALSE]
    /\ creating' \in {"policy", "image"}
    /\ UNCHANGED <<policyNamed, deleting, deletes, monitor, listed, worldVars, gone, leaseFaults>>

\* Go on to the next step, unless the creation was cancelled meanwhile.
UnlessCancelled(next) == creating' = IF Stopping THEN "failing" ELSE next

\* The egress proxy creates the policy; the POST has yet to see the answer.
CreatePolicy ==
    /\ creating = "policy"
    /\ policy' = TRUE
    /\ creating' = "naming"
    /\ UNCHANGED <<lease, policyNamed, deleting, deletes, monitor, listed, container, gone, kept, leaseFaults>>

NamePolicy ==
    /\ creating = "naming"
    /\ policyNamed' = TRUE
    /\ creating' = "image"
    /\ UNCHANGED <<lease, deleting, deletes, monitor, listed, worldVars, gone, leaseFaults>>

\* The finally block of the POST: it clears its own transition, and a deletion's
\* when no monitor is left to do it.
Finished(l) ==
    [l EXCEPT !.pending = FALSE,
              !.transition = IF @ = "starting" \/ monitor = "off" THEN "none" ELSE @]

\* An unknown egress profile is answered 400 from inside the try block.
RejectProfile ==
    /\ creating = "policy"
    /\ creating' = "done"
    /\ lease' = Finished(lease)
    /\ UNCHANGED <<policyNamed, deleting, deletes, monitor, listed, worldVars, gone, leaseFaults>>

\* The image is pulled or prepared.
PullImage ==
    /\ creating = "image"
    /\ UnlessCancelled("container")
    /\ lease' = [lease EXCEPT !.bootstrap = Merged("starting")]
    /\ UNCHANGED <<policyNamed, deleting, deletes, monitor, listed, worldVars, gone, leaseFaults>>

\* A container of the same name is removed, and the preview's created.
CreateContainer ==
    /\ creating = "container"
    /\ container' = "created"
    /\ creating' = "created"
    /\ UNCHANGED <<lease, policyNamed, deleting, deletes, monitor, listed, policy, gone, kept, leaseFaults>>

StartContainer ==
    /\ creating = "created"
    /\ UnlessCancelled("started")
    /\ container' = IF Stopping THEN container ELSE "running"
    /\ UNCHANGED <<lease, policyNamed, deleting, deletes, monitor, listed, policy, gone, kept, leaseFaults>>

\* Networks are connected, the container is inspected; then the monitor takes over.
ConnectContainer ==
    /\ creating = "started"
    /\ \/ /\ container = "none" \/ Stopping
          /\ creating' = "failing"
          /\ UNCHANGED <<lease, monitor>>
       \/ /\ container # "none" /\ ~Stopping
          /\ creating' = "done"
          /\ lease' = [Finished(lease) EXCEPT !.bootstrap = IF monitor = "off" THEN Merged("waiting") ELSE @]
          /\ monitor' = IF monitor = "off" THEN "looking" ELSE monitor
    /\ UNCHANGED <<policyNamed, deleting, deletes, listed, worldVars, gone, leaseFaults>>

\* What the container is when a request is carried out and only its answer is lost.
CarriedOut ==
    IF creating = "container" THEN "created"
    ELSE IF creating = "created" /\ container = "created" /\ ~Stopping THEN "running"
    ELSE container

\* Docker or the egress proxy refuses a step, or its answer is lost.  A policy whose
\* answer was lost has no name here: this POST never drops it.
CreateStepFails ==
    /\ creating \in {"policy", "naming", "image", "container", "created", "started"}
    /\ creating' = "failing"
    /\ container' \in {container, CarriedOut}
    /\ kept' = kept \cup (IF creating = "naming" /\ policy THEN {"policy"} ELSE {})
    /\ UNCHANGED <<lease, policyNamed, deleting, deletes, monitor, listed, policy, gone, leaseFaults>>

\* A removal may fail, and every handler swallows the error.
RemovalFails(what) ==
    /\ leaseFaults < MaxLeaseFaults
    /\ leaseFaults' = leaseFaults + 1
    /\ kept' = kept \cup {what}

ContainerDropped ==
    \/ container' = "none" /\ kept' = kept \ {"container"} /\ UNCHANGED leaseFaults
    \/ container # "none" /\ RemovalFails("container") /\ UNCHANGED container

PolicyDropped ==
    \/ policy' = FALSE /\ kept' = kept \ {"policy"} /\ UNCHANGED leaseFaults
    \/ policy /\ RemovalFails("policy") /\ UNCHANGED policy

CreateDropsPolicy ==
    /\ creating = "failing"
    /\ creating' = "failed"
    /\ IF policyNamed THEN PolicyDropped ELSE UNCHANGED <<policy, kept, leaseFaults>>
    /\ UNCHANGED <<lease, policyNamed, deleting, deletes, monitor, listed, container, gone>>

\* (Fault) A cancelled creation leaves the container to the deletion.
CancelledLeavesContainer ==
    /\ creating = "failed" /\ Stopping
    /\ creating' = "done"
    /\ lease' = Finished([lease EXCEPT !.bootstrap = "none", !.retained = FALSE])
    /\ UNCHANGED <<policyNamed, deleting, deletes, monitor, listed, worldVars, gone, leaseFaults>>

\* A cancelled creation removes what it created.
CreateCancelled ==
    /\ creating = "failed" /\ Stopping
    /\ creating' = "done"
    /\ ContainerDropped
    /\ lease' = Finished([lease EXCEPT !.bootstrap = "none", !.retained = FALSE])
    /\ UNCHANGED <<policyNamed, deleting, deletes, monitor, listed, policy, gone>>

\* A failed one is kept for the operator to see; its container stays.
CreateFailed ==
    /\ creating = "failed" /\ ~Stopping
    /\ creating' = "done"
    /\ lease' = Finished([lease EXCEPT !.bootstrap = Merged("failed"), !.retained = TRUE])
    /\ UNCHANGED <<policyNamed, deleting, deletes, monitor, listed, worldVars, gone, leaseFaults>>

-----------------------------------------------------------------------------
(* DELETE /leases/:id.                                                     *)

DeleteLease ==
    /\ creating # "idle" /\ deleting = "idle" /\ deletes < MaxDeletes
    /\ deletes' = deletes + 1
    /\ deleting' = "removing"
    /\ lease' = [lease EXCEPT !.transition = "stopping"]
    /\ UNCHANGED <<creating, policyNamed, monitor, listed, worldVars, gone, leaseFaults>>

DeleteContainer ==
    /\ deleting = "removing"
    /\ deleting' = "dropping"
    /\ ContainerDropped
    /\ UNCHANGED <<lease, creating, policyNamed, deletes, monitor, listed, policy, gone>>

DeletePolicy ==
    /\ deleting = "dropping"
    /\ deleting' = "closing"
    /\ PolicyDropped
    /\ lease' = [lease EXCEPT !.bootstrap = "none", !.retained = FALSE]
    /\ UNCHANGED <<creating, policyNamed, deletes, monitor, listed, container, gone>>

\* clearLeaseTransitionIfIdle.
TransitionIfIdle(pending, mon) ==
    IF pending \/ mon # "off" THEN lease.transition ELSE "none"

\* (Fault) A deletion leaves the transition to the monitor whether or not one runs.
DeleteAnsweredOnly ==
    /\ deleting = "closing"
    /\ deleting' = "idle"
    /\ gone' = TRUE
    /\ UNCHANGED <<lease, creating, policyNamed, deletes, monitor, listed, worldVars, leaseFaults>>

\* The preview's browser sessions are closed and the deletion is answered.
DeleteAnswered ==
    /\ deleting = "closing"
    /\ deleting' = "idle"
    /\ lease' = [lease EXCEPT !.transition = TransitionIfIdle(lease.pending, monitor)]
    /\ gone' = TRUE
    /\ UNCHANGED <<creating, policyNamed, deletes, monitor, listed, worldVars, leaseFaults>>

-----------------------------------------------------------------------------
(* The bootstrap monitor: an inspection, a heartbeat, a pause, until one   *)
(* of them ends it.                                                        *)

MonitorEnds(l) ==
    /\ monitor' = "off"
    /\ lease' = [l EXCEPT !.transition = IF @ = "stopping" THEN TransitionIfIdle(l.pending, "off") ELSE @]

MonitorInspects ==
    /\ monitor = "looking"
    /\ IF container = "running" THEN monitor' = "probing" /\ UNCHANGED lease
       ELSE MonitorEnds(IF Stopping THEN lease
                        ELSE [lease EXCEPT !.bootstrap = Merged("failed"), !.retained = TRUE])
    /\ UNCHANGED <<creating, policyNamed, deleting, deletes, listed, worldVars, gone, leaseFaults>>

MonitorProbes ==
    /\ monitor = "probing"
    /\ \/ container = "running" /\ MonitorEnds([lease EXCEPT !.bootstrap = Merged("ready")])
       \/ monitor' = "pausing" /\ lease' = [lease EXCEPT !.bootstrap = Merged("waiting")]
    /\ UNCHANGED <<creating, policyNamed, deleting, deletes, listed, worldVars, gone, leaseFaults>>

\* The pause ends before the deadline.
MonitorWakes ==
    /\ monitor = "pausing"
    /\ IF Stopping THEN MonitorEnds(lease) ELSE monitor' = "looking" /\ UNCHANGED lease
    /\ UNCHANGED <<creating, policyNamed, deleting, deletes, listed, worldVars, gone, leaseFaults>>

\* The deadline passes: the state fails, and the container is inspected once more.
MonitorDeadline ==
    /\ monitor = "pausing"
    /\ IF Stopping THEN MonitorEnds(lease)
       ELSE monitor' = "expiring" /\ lease' = [lease EXCEPT !.bootstrap = Merged("failed")]
    /\ UNCHANGED <<creating, policyNamed, deleting, deletes, listed, worldVars, gone, leaseFaults>>

MonitorExpires ==
    /\ monitor = "expiring"
    /\ MonitorEnds(IF Stopping THEN lease ELSE [lease EXCEPT !.retained = TRUE])
    /\ UNCHANGED <<creating, policyNamed, deleting, deletes, listed, worldVars, gone, leaseFaults>>

-----------------------------------------------------------------------------
(* The reconcile pass, the container, the broker's restart.                *)

ReconcileLists ==
    /\ ~listed /\ container = "running"
    /\ listed' = TRUE
    /\ UNCHANGED <<lease, creating, policyNamed, deleting, deletes, monitor, worldVars, gone, leaseFaults>>

\* (Fault) The reconcile pass only reports.
ReconcileSkips ==
    /\ listed
    /\ listed' = FALSE
    /\ UNCHANGED <<lease, monitor, creating, policyNamed, deleting, deletes, worldVars, gone, leaseFaults>>

\* What the pass reads of the lease: the state held, else that of a lease with a
\* heartbeat ("waiting") or without one ("ready"), from the listing.
ReconcileAdopts ==
    /\ listed
    /\ listed' = FALSE
    /\ \E phase \in IF lease.bootstrap = "none" THEN {"waiting", "ready"} ELSE {lease.bootstrap} :
          IF phase \in Settled THEN UNCHANGED <<lease, monitor>>
          ELSE /\ lease' = [lease EXCEPT !.bootstrap = IF monitor = "off" THEN "waiting" ELSE phase]
               /\ monitor' = IF monitor = "off" THEN "looking" ELSE monitor
    /\ UNCHANGED <<creating, policyNamed, deleting, deletes, worldVars, gone, leaseFaults>>

ContainerExits ==
    /\ container = "running"
    /\ container' = "exited"
    /\ UNCHANGED <<lease, brokerVars, policy, gone, kept, leaseFaults>>

\* The bootstrap states are kept in a file, the rest is lost.  A deletion answered
\* while a creation was still to be cancelled is lost with it.
BrokerRestarts ==
    /\ creating # "idle" /\ leaseFaults < MaxLeaseFaults
    /\ leaseFaults' = leaseFaults + 1
    /\ lease' = [lease EXCEPT !.transition = "none", !.pending = FALSE, !.retained = FALSE]
    /\ creating' = "done" /\ deleting' = "idle" /\ monitor' = "off" /\ listed' = FALSE
    /\ gone' = (gone /\ ~lease.pending)
    /\ UNCHANGED <<policyNamed, deletes, worldVars>>

CreateSteps == \/ CreatePolicy \/ NamePolicy \/ RejectProfile \/ PullImage \/ CreateContainer \/ StartContainer
               \/ ConnectContainer \/ CreateDropsPolicy \/ CreateCancelled \/ CreateFailed
DeleteSteps == DeleteContainer \/ DeletePolicy \/ DeleteAnswered
MonitorSteps == MonitorInspects \/ MonitorProbes \/ MonitorWakes \/ MonitorDeadline \/ MonitorExpires
Reconcile   == ReconcileLists \/ ReconcileAdopts

LeaseNext == CreateLease \/ CreateSteps \/ CreateStepFails \/ DeleteLease \/ DeleteSteps
             \/ MonitorSteps \/ Reconcile \/ ContainerExits \/ BrokerRestarts

LeaseSpec == LeaseInit /\ [][LeaseNext]_leaseVars

\* Requests to Docker and the egress proxy end, the monitor's clock runs (its
\* deadline is reached, so it does not pause for ever), the reconcile pass is on an
\* interval.
LeaseFairness ==
    /\ WF_leaseVars(CreateSteps) /\ WF_leaseVars(DeleteSteps)
    /\ WF_leaseVars(MonitorSteps) /\ SF_leaseVars(MonitorDeadline)
    /\ WF_leaseVars(ReconcileLists) /\ WF_leaseVars(ReconcileAdopts)

-----------------------------------------------------------------------------
(* Properties.                                                             *)

Leases == [transition : {"none", "starting", "stopping"}, bootstrap : Bootstrap,
           pending : BOOLEAN, retained : BOOLEAN]

FlagsOK ==
    /\ policyNamed \in BOOLEAN /\ listed \in BOOLEAN /\ gone \in BOOLEAN
    /\ policy \in BOOLEAN /\ kept \subseteq {"container", "policy"}

LeaseTypeOK ==
    /\ lease \in Leases
    /\ creating \in {"idle", "policy", "naming", "image", "container", "created", "started",
                     "failing", "failed", "done"}
    /\ deleting \in {"idle", "removing", "dropping", "closing"}
    /\ monitor \in {"off", "looking", "probing", "pausing", "expiring"}
    /\ container \in {"none", "created", "running", "exited"}
    /\ deletes \in 0..MaxDeletes /\ leaseFaults \in 0..MaxLeaseFaults
    /\ FlagsOK

\* Once a deletion was answered and the creation it cancelled has ended, whatever
\* await of the creation it fell into, no step of that creation has brought back
\* what was removed.  A container stays only where its last removal failed, a policy
\* only there or where the answer to its creation was lost: errors the broker
\* swallows and answers as a deletion all the same.
DeletedIsGone ==
    gone /\ ~lease.pending /\ deleting = "idle" =>
        /\ container # "none" => "container" \in kept
        /\ policy => "policy" \in kept

\* A lease does not stay "stopping".
StoppingEnds == Stopping ~> ~Stopping

\* A running preview is eventually reported ready or failed, broker restarts
\* included, unless it exits or is deleted.
BootstrapSettles ==
    (container = "running") ~> (lease.bootstrap \in Settled \cup {"none"} \/ container # "running")
=============================================================================
