----------------------------- MODULE MCServices -----------------------------
(***************************************************************************)
(* Services of the appliance that share no state, explored in one run: the *)
(* initial state picks a service, and only that service steps.  The states *)
(* of the run are the sum of the services' states, not their product.      *)
(*                                                                         *)
(* The memory pipeline is two of them: its queue of syntheses with the     *)
(* reviews, where at most one candidate is proposed and none is ruled on,  *)
(* and the promotion of what the Worker proposes, where no report is       *)
(* written, no synthesis queued, and the second candidate has no entry.    *)
(***************************************************************************)
EXTENDS PreviewLeases, MemoryUpdates, WorkerCompaction

VARIABLE service

Services == {"leases", "reviews", "promotion", "compaction"}
Only(s, step) == service = s /\ step /\ UNCHANGED service
servicesVars == <<service, leaseVars, memVars, compactionVars>>

OneFact == CHOOSE f \in Facts : TRUE
Reviewing ==
    /\ UNCHANGED promotionVars
    /\ candidates' \in {candidates} \cup
         {<<[fact |-> OneFact, by |-> "review", status |-> "pending", listed |-> TRUE]>>}
Promoting ==
    /\ UNCHANGED <<synth, report>>
    /\ \A i \in DOMAIN candidates' : candidates'[i].by = IF i = 2 THEN "promote" ELSE "entry"

\* A service that is not explored starts in one state only.
Init ==
    /\ service \in Services
    /\ LeaseInit /\ MemInit /\ CompactionInit

Next ==
    \/ Only("leases", LeaseNext) /\ UNCHANGED <<memVars, compactionVars>>
    \/ Only("reviews", MemNext) /\ Reviewing /\ UNCHANGED <<leaseVars, compactionVars>>
    \/ Only("promotion", MemNext) /\ Promoting /\ UNCHANGED <<leaseVars, compactionVars>>
    \/ Only("compaction", CompactionNext) /\ UNCHANGED <<leaseVars, memVars>>

\* Each service's own fairness, while it is the one that runs.
Leasing(step) == Only("leases", step)
Memory(step) == Only("reviews", step) /\ Reviewing
Compaction(step) == Only("compaction", step)

Fairness ==
    /\ WF_leaseVars(Leasing(CreateSteps)) /\ WF_leaseVars(Leasing(DeleteSteps))
    /\ WF_leaseVars(Leasing(MonitorSteps)) /\ SF_leaseVars(Leasing(MonitorDeadline))
    /\ WF_leaseVars(Leasing(ReconcileLists)) /\ WF_leaseVars(Leasing(ReconcileAdopts))
    /\ WF_memVars(Memory(StartPass))
    /\ \A k \in QueueKeys : WF_memVars(Memory(TakeEntry(k))) /\ WF_memVars(Memory(RetryIsDue(k)))
    /\ WF_memVars(Memory(\E facts \in SUBSET Facts : SynthesisAnswers(facts)))
    /\ WF_memVars(Memory(\E facts \in SUBSET Facts : ReviewAnswers(facts)))
    /\ WF_compactionVars(Compaction(Awaits)) /\ SF_compactionVars(Compaction(Read))
    /\ WF_compactionVars(Compaction(Line)) /\ WF_compactionVars(Compaction(PiTakes))
    /\ WF_compactionVars(Compaction(PiFinishes))
    /\ SF_compactionVars(Compaction(Tick)) /\ SF_compactionVars(Compaction(Deadline))

Spec == Init /\ [][Next]_servicesVars /\ Fairness

\* Every service keeps its state in its type, whichever of its processes die.
ServicesTypeOK == LeaseTypeOK /\ MemoryTypeOK /\ CompactionTypeOK
=============================================================================
