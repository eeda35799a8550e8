--------------------------- MODULE ServicesProofs ---------------------------
(***************************************************************************)
(* Proofs about the services that MCServices composes: the preview leases, *)
(* the memory pipeline, and the supervision of a compaction.  Each section *)
(* proves what one step of a service does for its own specification; the   *)
(* last one carries the results over to the composition, which is what TLC *)
(* runs.                                                                   *)
(***************************************************************************)
EXTENDS MCServices, FiniteSetTheorems, SequenceTheorems, TLAPS

-----------------------------------------------------------------------------
(* Preview leases.                                                         *)

Creating == creating \notin {"idle", "done"}
Deleted  == gone \/ deleting \in {"dropping", "closing"}

\* The POST and what it has built so far: the lease counts it as pending from the
\* first step to the last, no container comes before its creation, no policy before
\* it is created, and one the POST cannot name is one whose answer it waits for or
\* lost.
CreationInOrder ==
    /\ lease.pending <=> Creating
    /\ creating \in {"idle", "policy", "naming", "image", "container"} => container = "none"
    /\ creating \in {"idle", "policy"} => ~policy
    /\ policy => policyNamed \/ creating \in {"naming", "done"} \/ "policy" \in kept
    /\ creating = "failed" => (policy => "policy" \in kept)

\* Nothing is deleted before it was created, and a creation that goes on beside or
\* after a deletion is cancelled: it will find "stopping" at each of its checks.
CreationIsCancelled ==
    /\ creating = "idle" => ~gone /\ deleting = "idle"
    /\ Creating /\ (gone \/ deleting # "idle") => Stopping

\* What the deletion removed stays away once no creation can bring it back.
RemovedStaysAway ==
    ~Creating =>
        /\ Deleted => (container # "none" => "container" \in kept)
        /\ gone \/ deleting = "closing" => (policy => "policy" \in kept)

LeaseInv == LeaseTypeOK /\ CreationInOrder /\ CreationIsCancelled /\ RemovedStaysAway


\* The flags are flags.
LEMMA FlagsStep == FlagsOK /\ [LeaseNext]_leaseVars => FlagsOK'
  BY DEF FlagsOK, leaseVars, LeaseNext, CreateLease, CreateSteps, CreatePolicy, RejectProfile,
     PullImage, CreateContainer, StartContainer, ConnectContainer, CreateDropsPolicy, CreateCancelled,
     CreateFailed, CreateStepFails, DeleteLease, DeleteSteps, DeleteContainer, DeletePolicy, DeleteAnswered,
     MonitorSteps, MonitorInspects, MonitorProbes, MonitorWakes, MonitorDeadline, MonitorExpires,
     Reconcile, ReconcileLists, ReconcileAdopts, ContainerExits, BrokerRestarts, PolicyDropped, NamePolicy,
     ContainerDropped, RemovalFails, brokerVars, worldVars

\* Nothing was asked for yet.
LEMMA LeaseInitInv == LeaseInit => LeaseInv
PROOF
  <1> SUFFICES ASSUME LeaseInit PROVE LeaseInv
    OBVIOUS
  <1>1. FlagsOK
    BY DEF LeaseInit, FlagsOK
  <1>2. LeaseTypeOK
    BY <1>1, PreviewLeasesAssumption DEF LeaseInit, LeaseTypeOK, Leases, Bootstrap, Settled
  <1>3. CreationInOrder /\ CreationIsCancelled /\ RemovedStaysAway
    BY DEF LeaseInit, CreationInOrder, CreationIsCancelled, RemovedStaysAway, Creating, Deleted
  <1> QED
    BY <1>1, <1>2, <1>3 DEF LeaseInv

\* Every step of the broker, its monitor and its restart preserves the invariant.
LEMMA LeaseStep == LeaseInv /\ [LeaseNext]_leaseVars => LeaseInv'
PROOF
  <1> SUFFICES ASSUME LeaseInv, [LeaseNext]_leaseVars PROVE LeaseInv'
    OBVIOUS
  <1>0. FlagsOK'
    BY FlagsStep DEF LeaseInv, LeaseTypeOK
  <1> USE <1>0, PreviewLeasesAssumption
      DEF LeaseInv, LeaseTypeOK, Leases, Bootstrap, Settled, CreationInOrder, CreationIsCancelled,
          RemovedStaysAway, Creating, Deleted, Stopping, worldVars, brokerVars
  <1>1. CASE CreateLease
    <2>1. LeaseTypeOK'
      <3>1. lease' \in Leases
        BY <1>1 DEF CreateLease
      <3> QED
        BY <1>1, <3>1 DEF CreateLease
    <2>2. CreationInOrder'
      BY <1>1 DEF CreateLease
    <2>3. CreationIsCancelled'
      BY <1>1 DEF CreateLease
    <2>4. RemovedStaysAway'
      BY <1>1 DEF CreateLease
    <2> QED
      BY <2>1, <2>2, <2>3, <2>4
  <1>2. CASE CreatePolicy
    BY <1>2 DEF CreatePolicy
  <1>26. CASE NamePolicy
    BY <1>26 DEF NamePolicy
  <1>3. CASE RejectProfile
    BY <1>3 DEF RejectProfile, Finished
  <1>4. CASE PullImage
    <2>1. LeaseTypeOK'
      BY <1>4 DEF PullImage, UnlessCancelled, Merged
    <2>2. CreationInOrder'
      BY <1>4 DEF PullImage, UnlessCancelled, Merged
    <2>3. CreationIsCancelled'
      BY <1>4 DEF PullImage, UnlessCancelled, Merged
    <2>4. RemovedStaysAway'
      BY <1>4 DEF PullImage, UnlessCancelled, Merged
    <2> QED
      BY <2>1, <2>2, <2>3, <2>4
  <1>5. CASE CreateContainer
    BY <1>5 DEF CreateContainer
  <1>6. CASE StartContainer
    BY <1>6 DEF StartContainer, UnlessCancelled
  <1>7. CASE ConnectContainer
    <2>1. LeaseTypeOK'
      BY <1>7 DEF ConnectContainer, Finished, Merged
    <2>2. CreationInOrder'
      BY <1>7 DEF ConnectContainer, Finished, Merged
    <2>3. CreationIsCancelled'
      BY <1>7 DEF ConnectContainer, Finished, Merged
    <2>4. RemovedStaysAway'
      BY <1>7 DEF ConnectContainer, Finished, Merged
    <2> QED
      BY <2>1, <2>2, <2>3, <2>4
  <1>8. CASE CreateDropsPolicy
    <2>1. LeaseTypeOK'
      BY <1>8 DEF CreateDropsPolicy, PolicyDropped, RemovalFails
    <2>2. CreationInOrder'
      BY <1>8 DEF CreateDropsPolicy, PolicyDropped, RemovalFails
    <2>3. CreationIsCancelled'
      BY <1>8 DEF CreateDropsPolicy, PolicyDropped, RemovalFails
    <2>4. RemovedStaysAway'
      BY <1>8 DEF CreateDropsPolicy, PolicyDropped, RemovalFails
    <2> QED
      BY <2>1, <2>2, <2>3, <2>4
  <1>9. CASE CreateCancelled
    <2>1. LeaseTypeOK'
      <3>1. lease' \in Leases
        BY <1>9 DEF CreateCancelled, Finished
      <3>2. container' \in {container, "none"} /\ leaseFaults' \in 0..MaxLeaseFaults
        BY <1>9 DEF CreateCancelled, ContainerDropped, RemovalFails
      <3> QED
        BY <1>9, <3>1, <3>2 DEF CreateCancelled
    <2>2. CreationInOrder'
      <3>1. ~lease'.pending /\ creating' = "done" /\ UNCHANGED <<policy, policyNamed>>
        BY <1>9 DEF CreateCancelled, Finished
      <3> QED
        BY <3>1
    <2>3. CreationIsCancelled'
      BY <1>9 DEF CreateCancelled, Finished, ContainerDropped, RemovalFails
    <2>4. RemovedStaysAway'
      BY <1>9 DEF CreateCancelled, Finished, ContainerDropped, RemovalFails
    <2> QED
      BY <2>1, <2>2, <2>3, <2>4
  <1>10. CASE CreateFailed
    <2>1. LeaseTypeOK'
      BY <1>10 DEF CreateFailed, Finished, Merged
    <2>2. CreationInOrder'
      BY <1>10 DEF CreateFailed, Finished, Merged
    <2>3. CreationIsCancelled'
      BY <1>10 DEF CreateFailed, Finished, Merged
    <2>4. RemovedStaysAway'
      BY <1>10 DEF CreateFailed, Finished, Merged
    <2> QED
      BY <2>1, <2>2, <2>3, <2>4
  <1>11. CASE CreateStepFails
    BY <1>11 DEF CreateStepFails, CarriedOut
  <1>12. CASE DeleteLease
    BY <1>12 DEF DeleteLease
  <1>13. CASE DeleteContainer
    <2>1. LeaseTypeOK'
      BY <1>13 DEF DeleteContainer, ContainerDropped, RemovalFails
    <2>2. CreationInOrder'
      BY <1>13 DEF DeleteContainer, ContainerDropped, RemovalFails
    <2>3. CreationIsCancelled'
      BY <1>13 DEF DeleteContainer, ContainerDropped, RemovalFails
    <2>4. RemovedStaysAway'
      BY <1>13 DEF DeleteContainer, ContainerDropped, RemovalFails
    <2> QED
      BY <2>1, <2>2, <2>3, <2>4
  <1>14. CASE DeletePolicy
    <2>1. LeaseTypeOK'
      <3>1. lease' \in Leases
        BY <1>14 DEF DeletePolicy, PolicyDropped, RemovalFails
      <3> QED
        BY <1>14, <3>1 DEF DeletePolicy, PolicyDropped, RemovalFails
    <2>2. CreationInOrder'
      BY <1>14 DEF DeletePolicy, PolicyDropped, RemovalFails
    <2>3. CreationIsCancelled'
      BY <1>14 DEF DeletePolicy, PolicyDropped, RemovalFails
    <2>4. RemovedStaysAway'
      BY <1>14 DEF DeletePolicy, PolicyDropped, RemovalFails
    <2> QED
      BY <2>1, <2>2, <2>3, <2>4
  <1>15. CASE DeleteAnswered
    <2>1. LeaseTypeOK'
      BY <1>15 DEF DeleteAnswered, TransitionIfIdle
    <2>2. CreationInOrder'
      BY <1>15 DEF DeleteAnswered, TransitionIfIdle
    <2>3. CreationIsCancelled'
      BY <1>15 DEF DeleteAnswered, TransitionIfIdle
    <2>4. RemovedStaysAway'
      BY <1>15 DEF DeleteAnswered, TransitionIfIdle
    <2> QED
      BY <2>1, <2>2, <2>3, <2>4
  <1>16. CASE MonitorInspects
    <2>1. LeaseTypeOK'
      <3>1. CASE container = "running"
        BY <1>16, <3>1 DEF MonitorInspects
      <3>2. CASE container # "running"
        <4>1. lease' \in Leases
          BY <1>16, <3>2 DEF MonitorInspects, MonitorEnds, TransitionIfIdle, Merged
        <4>2. monitor' = "off" /\ UNCHANGED <<creating, deleting, deletes, container, leaseFaults>>
          BY <1>16, <3>2 DEF MonitorInspects, MonitorEnds
        <4> QED
          BY <4>1, <4>2
      <3> QED
        BY <3>1, <3>2
    <2>2. CreationInOrder'
      BY <1>16 DEF MonitorInspects, MonitorEnds, TransitionIfIdle, Merged
    <2>3. CreationIsCancelled'
      BY <1>16 DEF MonitorInspects, MonitorEnds, TransitionIfIdle, Merged
    <2>4. RemovedStaysAway'
      BY <1>16 DEF MonitorInspects, MonitorEnds, TransitionIfIdle, Merged
    <2> QED
      BY <2>1, <2>2, <2>3, <2>4
  <1>17. CASE MonitorProbes
    <2>1. LeaseTypeOK'
      BY <1>17 DEF MonitorProbes, MonitorEnds, TransitionIfIdle, Merged
    <2>2. CreationInOrder'
      BY <1>17 DEF MonitorProbes, MonitorEnds, TransitionIfIdle, Merged
    <2>3. CreationIsCancelled'
      BY <1>17 DEF MonitorProbes, MonitorEnds, TransitionIfIdle, Merged
    <2>4. RemovedStaysAway'
      BY <1>17 DEF MonitorProbes, MonitorEnds, TransitionIfIdle, Merged
    <2> QED
      BY <2>1, <2>2, <2>3, <2>4
  <1>18. CASE MonitorWakes
    <2>1. LeaseTypeOK'
      BY <1>18 DEF MonitorWakes, MonitorEnds, TransitionIfIdle, Merged
    <2>2. CreationInOrder'
      BY <1>18 DEF MonitorWakes, MonitorEnds, TransitionIfIdle, Merged
    <2>3. CreationIsCancelled'
      BY <1>18 DEF MonitorWakes, MonitorEnds, TransitionIfIdle, Merged
    <2>4. RemovedStaysAway'
      BY <1>18 DEF MonitorWakes, MonitorEnds, TransitionIfIdle, Merged
    <2> QED
      BY <2>1, <2>2, <2>3, <2>4
  <1>19. CASE MonitorDeadline
    <2>1. LeaseTypeOK'
      BY <1>19 DEF MonitorDeadline, MonitorEnds, TransitionIfIdle, Merged
    <2>2. CreationInOrder'
      BY <1>19 DEF MonitorDeadline, MonitorEnds, TransitionIfIdle, Merged
    <2>3. CreationIsCancelled'
      BY <1>19 DEF MonitorDeadline, MonitorEnds, TransitionIfIdle, Merged
    <2>4. RemovedStaysAway'
      BY <1>19 DEF MonitorDeadline, MonitorEnds, TransitionIfIdle, Merged
    <2> QED
      BY <2>1, <2>2, <2>3, <2>4
  <1>20. CASE MonitorExpires
    <2>1. LeaseTypeOK'
      BY <1>20 DEF MonitorExpires, MonitorEnds, TransitionIfIdle, Merged
    <2>2. CreationInOrder'
      BY <1>20 DEF MonitorExpires, MonitorEnds, TransitionIfIdle, Merged
    <2>3. CreationIsCancelled'
      BY <1>20 DEF MonitorExpires, MonitorEnds, TransitionIfIdle, Merged
    <2>4. RemovedStaysAway'
      BY <1>20 DEF MonitorExpires, MonitorEnds, TransitionIfIdle, Merged
    <2> QED
      BY <2>1, <2>2, <2>3, <2>4
  <1>21. CASE ReconcileLists
    BY <1>21 DEF ReconcileLists
  <1>22. CASE ReconcileAdopts
    <2>1. LeaseTypeOK'
      BY <1>22 DEF ReconcileAdopts, Settled, Bootstrap
    <2>2. CreationInOrder'
      BY <1>22 DEF ReconcileAdopts, Settled, Bootstrap
    <2>3. CreationIsCancelled'
      BY <1>22 DEF ReconcileAdopts, Settled, Bootstrap
    <2>4. RemovedStaysAway'
      BY <1>22 DEF ReconcileAdopts, Settled, Bootstrap
    <2> QED
      BY <2>1, <2>2, <2>3, <2>4
  <1>23. CASE ContainerExits
    BY <1>23 DEF ContainerExits
  <1>24. CASE BrokerRestarts
    <2>1. LeaseTypeOK'
      <3>1. lease' \in Leases
        BY <1>24 DEF BrokerRestarts
      <3> QED
        BY <1>24, <3>1 DEF BrokerRestarts
    <2>2. CreationInOrder'
      BY <1>24 DEF BrokerRestarts
    <2>3. CreationIsCancelled'
      BY <1>24 DEF BrokerRestarts
    <2>4. RemovedStaysAway'
      BY <1>24 DEF BrokerRestarts
    <2> QED
      BY <2>1, <2>2, <2>3, <2>4
  <1>25. CASE UNCHANGED leaseVars
    BY <1>25 DEF leaseVars
  <1> QED
    BY <1>1, <1>2, <1>3, <1>4, <1>5, <1>6, <1>7, <1>8, <1>9, <1>10, <1>11, <1>12, <1>13, <1>14, <1>15, <1>16, <1>17, <1>18, <1>19, <1>20, <1>21, <1>22, <1>23, <1>24, <1>25, <1>26
       DEF LeaseNext, CreateSteps, DeleteSteps, MonitorSteps, Reconcile

\* The deletion's promise is a part of the invariant: with no creation pending the
\* container and the policy are gone, but for what a swallowed error left behind.
LEMMA LeaseInvImplies == LeaseInv => LeaseTypeOK /\ DeletedIsGone
  BY DEF LeaseInv, DeletedIsGone, CreationInOrder, RemovedStaysAway, Creating, Deleted

\* The broker's own specification: wherever in the creation a deletion fell, and
\* however often containers and policies could not be removed, answers were lost and
\* the broker restarted, the creation brings back nothing of a deleted lease.  What
\* stays is what the last attempt at its removal failed to remove, or a policy whose
\* creation was never answered.
THEOREM LeasesAreGone == LeaseSpec => [](LeaseTypeOK /\ DeletedIsGone)
  BY LeaseInitInv, LeaseStep, LeaseInvImplies, PTL DEF LeaseSpec

-----------------------------------------------------------------------------
(* Memory updates.                                                         *)

\* A pending entry has attempts left; an entry of the pass is still pending when it is
\* taken (only completed ones are dropped meanwhile), and the one worked on is running.
QueueInOrder ==
    /\ \A k \in QueueKeys : synth[k].status = "pending" => synth[k].attempts < MaxAttempts
    /\ \A k \in pass : synth[k].status = "pending"
    /\ working # NoEvent => synth[working].status = "running"

\* Nothing is observed, reviewed, waits or is noted that was not reported.
ReviewedWasReported ==
    /\ reviewing <= report /\ queuedReport <= report
    /\ \A v \in unobserved \cup pendingNotes : v <= report

MemoryInv == MemoryTypeOK /\ QueueInOrder /\ ReviewedWasReported /\ HoldsVerdicts

\* What a model's facts become: as many candidates at most, all of them pending.
LEMMA ProposedAre ==
    ASSUME NEW facts \in SUBSET Facts, NEW by \in {"review", "synthesis", "entry", "promote"}
    PROVE  /\ Proposed(facts, by) \in Seq(Candidate)
           /\ Len(Proposed(facts, by)) <= Cardinality(facts)
           /\ \A i \in DOMAIN Proposed(facts, by) :
                 Proposed(facts, by)[i].status = "pending" /\ Proposed(facts, by)[i].by = by
PROOF
  <1> DEFINE Rec(f) == [fact |-> f, by |-> by, status |-> "pending", listed |-> TRUE]
             T == {Rec(f) : f \in facts}
             g == [f \in facts |-> Rec(f)]
  <1>1. IsFiniteSet(facts)
    BY MemoryAssumption, FS_Subset
  <1>2. g \in Surjection(facts, T)
    BY DEF Surjection
  <1>3. IsFiniteSet(T) /\ Cardinality(T) <= Cardinality(facts)
    BY <1>1, <1>2, FS_Surjection
  <1>4. Cardinality(T) \in Nat /\ ExistsBijection(1..Cardinality(T), T)
    BY <1>3, FS_CardinalityType
  <1>5. \E q \in [1..Cardinality(T) -> T] : IsInjective(q)
    BY <1>4 DEF ExistsBijection, Bijection, Injection, IsInjective
  <1>6. Proposed(facts, by) \in [1..Cardinality(T) -> T]
    BY <1>5 DEF Proposed, SetToSeq
  <1>7. T \subseteq Candidate /\ \A r \in T : r.status = "pending" /\ r.by = by
    <2>1. ASSUME NEW f \in facts
          PROVE  Rec(f) \in Candidate /\ Rec(f).status = "pending" /\ Rec(f).by = by
      <3>1. TRUE \in BOOLEAN /\ f \in Facts
        OBVIOUS
      <3> QED
        BY <3>1 DEF Candidate
    <2> QED
      BY <2>1
  <1> HIDE DEF T
  <1>8. Proposed(facts, by) \in Seq(T) /\ Len(Proposed(facts, by)) = Cardinality(T)
    BY <1>4, <1>6
  <1> QED
    BY <1>3, <1>6, <1>7, <1>8

\* The cap takes candidates off the list; what they say and how they were ruled on,
\* it leaves.
LEMMA CapOnlyUnlists ==
    ASSUME NEW c \in Seq(Candidate)
    PROVE  /\ Capped(c) \in Seq(Candidate) /\ DOMAIN Capped(c) = DOMAIN c
           /\ Len(Capped(c)) = Len(c)
           /\ \A i \in DOMAIN c : /\ Capped(c)[i].fact = c[i].fact
                                  /\ Capped(c)[i].by = c[i].by
                                  /\ Capped(c)[i].status = c[i].status
PROOF
  <1> DEFINE Stays(i) == c[i].listed /\ Cardinality({j \in DOMAIN c : j >= i /\ c[j].listed}) <= CandidateCap
  <1>1. Capped(c) = [i \in DOMAIN c |-> [c[i] EXCEPT !.listed = Stays(i)]]
    BY DEF Capped
  <1>2. \A i \in DOMAIN c : c[i] \in Candidate /\ Stays(i) \in BOOLEAN
    <2>1. ASSUME NEW i \in DOMAIN c PROVE c[i] \in Candidate
      OBVIOUS
    <2>2. ASSUME NEW i \in DOMAIN c PROVE Stays(i) \in BOOLEAN
      <3>1. c[i].listed \in BOOLEAN
        BY <2>1 DEF Candidate
      <3> QED
        BY <3>1, Zenon
    <2> QED
      BY <2>1, <2>2
  <1> HIDE DEF Stays
  <1>3. ASSUME NEW i \in DOMAIN c
        PROVE  /\ Capped(c)[i] \in Candidate
               /\ Capped(c)[i].fact = c[i].fact
               /\ Capped(c)[i].by = c[i].by
               /\ Capped(c)[i].status = c[i].status
    BY <1>1, <1>2 DEF Candidate
  <1>4. DOMAIN Capped(c) = 1..Len(c) /\ Len(c) \in Nat /\ DOMAIN c = 1..Len(c)
    BY <1>1
  <1>5. Capped(c) \in [1..Len(c) -> Candidate]
    BY <1>1, <1>3, <1>4
  <1> QED
    BY <1>3, <1>4, <1>5

\* There is room for some of the facts where there is room for all.
LEMMA FewerFacts ==
    ASSUME NEW facts \in SUBSET Facts, NEW fewer \in SUBSET facts
    PROVE  /\ Cardinality(facts) \in Nat /\ Cardinality(fewer) \in Nat
           /\ Cardinality(fewer) <= Cardinality(facts)
PROOF
  <1>1. IsFiniteSet(facts)
    BY MemoryAssumption, FS_Subset
  <1> QED
    BY <1>1, FS_Subset, FS_CardinalityType

\* Submitting candidates, which are pending, keeps the verdicts as they are.
LEMMA SubmittedAreUnruled ==
    ASSUME candidates \in Seq(Candidate), HoldsVerdicts,
           NEW facts \in SUBSET Facts, NEW by \in {"review", "synthesis", "entry", "promote"},
           Len(candidates) + Cardinality(facts) <= MaxCandidates,
           candidates' = Submitted(facts, by), UNCHANGED projectVars
    PROVE  /\ candidates' \in Seq(Candidate) /\ Len(candidates') <= MaxCandidates
           /\ HoldsVerdicts' /\ VerdictsStand
           /\ \A i \in DOMAIN candidates' \ DOMAIN candidates : candidates'[i].by = by
PROOF
  <1> DEFINE q == Proposed(facts, by)
             c == candidates \o q
  <1>1. /\ q \in Seq(Candidate) /\ Len(q) <= Cardinality(facts)
        /\ \A i \in DOMAIN q : q[i].status = "pending" /\ q[i].by = by
    BY ProposedAre
  <1>2. Cardinality(facts) \in Nat
    BY MemoryAssumption, FS_Subset, FS_CardinalityType
  <1>3. candidates' = Capped(c)
    BY DEF Submitted
  <1> HIDE DEF q
  <1>4. c \in Seq(Candidate) /\ Len(c) = Len(candidates) + Len(q)
    BY <1>1
  <1>5. \A i \in DOMAIN c :
           \/ i \in DOMAIN candidates /\ c[i] = candidates[i]
           \/ i \notin DOMAIN candidates /\ c[i].status = "pending" /\ c[i].by = by
    <2>1. ASSUME NEW i \in DOMAIN c, i \notin DOMAIN candidates
          PROVE  \E j \in DOMAIN q : c[i] = q[j]
      <3>1. i \in Len(candidates) + 1 .. Len(candidates) + Len(q)
        BY <1>1, <1>4, <2>1
      <3> QED
        BY <1>1, <3>1
    <2>2. ASSUME NEW i \in DOMAIN candidates PROVE c[i] = candidates[i]
      BY <1>1
    <2> QED
      BY <1>1, <2>1, <2>2
  <1>6. DOMAIN candidates \subseteq DOMAIN c
    BY <1>1, <1>4
  <1> HIDE DEF c
  <1>7. /\ candidates' \in Seq(Candidate) /\ DOMAIN candidates' = DOMAIN c
        /\ Len(candidates') = Len(c)
        /\ \A i \in DOMAIN c : /\ candidates'[i].fact = c[i].fact
                               /\ candidates'[i].by = c[i].by
                               /\ candidates'[i].status = c[i].status
    BY <1>3, <1>4, CapOnlyUnlists
  <1>8. Len(candidates') <= MaxCandidates
    BY <1>1, <1>2, <1>4, <1>7, MemoryAssumption
  <1>9. VerdictsStand
    BY <1>5, <1>6, <1>7 DEF VerdictsStand
  <1>10. {i \in DOMAIN candidates' : candidates'[i].status = "accepted"}
         = {i \in DOMAIN candidates : candidates[i].status = "accepted"}
    BY <1>5, <1>6, <1>7
  <1>11. AcceptedFacts' = AcceptedFacts
    BY <1>5, <1>7, <1>10 DEF AcceptedFacts
  <1>12. HoldsVerdicts'
    BY <1>11 DEF HoldsVerdicts, projectVars
  <1> QED
    BY <1>5, <1>7, <1>8, <1>9, <1>12

\* A ruling settles pending candidates only, and takes over what it accepted.
LEMMA RulingsAreTakenOver ==
    ASSUME candidates \in Seq(Candidate), project \subseteq Facts, forgotten \subseteq Facts,
           HoldsVerdicts, NEW ruled, NEW accepted, Resolved(ruled, accepted)
    PROVE  /\ candidates' \in Seq(Candidate) /\ Len(candidates') = Len(candidates)
           /\ DOMAIN candidates' = DOMAIN candidates
           /\ project' \subseteq Facts /\ forgotten' \subseteq Facts
           /\ HoldsVerdicts' /\ VerdictsStand
PROOF
  <1> DEFINE now == ruled \cap PendingOnes
             new == {candidates[i].fact : i \in now \cap accepted}
             held == project \cup new
             Verdict(i) == IF i \in accepted THEN "accepted" ELSE "rejected"
  <1>1. candidates' = [i \in DOMAIN candidates |->
              IF i \in now THEN [candidates[i] EXCEPT !.status = Verdict(i)] ELSE candidates[i]]
    BY DEF Resolved, Ruled
  <1>2. PICK left \in SUBSET held : project' = left /\ forgotten' = (forgotten \cup held) \ left
    BY DEF Resolved, Promoted
  <1>3. \A i \in DOMAIN candidates : candidates[i] \in Candidate
    OBVIOUS
  <1>4. now \subseteq DOMAIN candidates /\ \A i \in now : candidates[i].status = "pending"
    BY DEF PendingOnes, PendingIn
  <1>5. ASSUME NEW i \in DOMAIN candidates
        PROVE  /\ candidates'[i] \in Candidate
               /\ candidates'[i].fact = candidates[i].fact
               /\ candidates'[i].status = IF i \in now THEN Verdict(i) ELSE candidates[i].status
    BY <1>1, <1>3 DEF Candidate
  <1> HIDE DEF now
  <1>6. /\ DOMAIN candidates' = DOMAIN candidates
        /\ candidates' \in Seq(Candidate) /\ Len(candidates') = Len(candidates)
    BY <1>1, <1>5
  <1>7. new \subseteq Facts
    BY <1>3, <1>4 DEF Candidate
  <1>8. VerdictsStand
    BY <1>4, <1>5, <1>6 DEF VerdictsStand
  <1>9. \A i \in DOMAIN candidates :
           candidates'[i].status = "accepted"
             <=> candidates[i].status = "accepted" \/ i \in now \cap accepted
    BY <1>4, <1>5
  <1>10. AcceptedFacts' = AcceptedFacts \cup new
    BY <1>4, <1>5, <1>6, <1>9 DEF AcceptedFacts
  <1> HIDE DEF new
  <1>11. HoldsVerdicts'
    BY <1>2, <1>10 DEF HoldsVerdicts
  <1> QED
    BY <1>2, <1>6, <1>7, <1>8, <1>11

\* What room is made of: completed entries are dropped, the others left.
LEMMA RoomDropsCompleted ==
    ASSUME NEW q \in [QueueKeys -> Entry], NEW r \in RoomMade(q)
    PROVE  \A k \in QueueKeys : r[k] = q[k] \/ (r[k] = Absent /\ q[k].status = "completed")
PROOF
  <1> DEFINE done == {k \in QueueKeys : q[k].status = "completed"}
  <1>1. r = q \/ \E drop \in SUBSET done :
                    r = [k \in QueueKeys |-> IF k \in drop THEN Absent ELSE q[k]]
    BY DEF RoomMade
  <1> QED
    BY <1>1

\* An event is queued with its attempts before it, and disturbs no entry under way.
LEMMA EnqueueKeepsOrder ==
    ASSUME MemoryTypeOK, QueueInOrder, NEW key \in QueueKeys, Enqueue(key),
           pass' = pass, working' = working
    PROVE  synth' \in [QueueKeys -> Entry] /\ QueueInOrder'
PROOF
  <1>0. synth \in [QueueKeys -> Entry] /\ pass \subseteq QueueKeys
        /\ working \in QueueKeys \cup {NoEvent}
    BY DEF MemoryTypeOK
  <1>1. CASE UNCHANGED synth
    BY <1>0, <1>1 DEF QueueInOrder
  <1>2. CASE synth[key].status = "none"
             /\ synth' \in RoomMade([synth EXCEPT ![key] =
                              [status |-> "pending", attempts |-> 0, due |-> TRUE]])
    <2> DEFINE new == [status |-> "pending", attempts |-> 0, due |-> TRUE]
               q == [synth EXCEPT ![key] = new]
    <2>1. new \in Entry /\ Absent \in Entry /\ MaxAttempts > 0 /\ new.status = "pending"
          /\ Absent.status = "none" /\ new.attempts = 0
      BY MemoryAssumption DEF Entry, Absent
    <2> HIDE DEF new
    <2>2. q \in [QueueKeys -> Entry] /\ \A k \in QueueKeys : q[k] = IF k = key THEN new ELSE synth[k]
      BY <1>0, <2>1
    <2> HIDE DEF q
    <2>3. synth' \in RoomMade(q)
      BY <1>2 DEF q, new
    <2>4. \A k \in QueueKeys : synth'[k] = q[k] \/ (synth'[k] = Absent /\ q[k].status = "completed")
      BY <2>2, <2>3, RoomDropsCompleted
    <2>5. synth' \in [QueueKeys -> Entry]
      <3>1. synth' = q \/ \E drop : synth' = [k \in QueueKeys |-> IF k \in drop THEN Absent ELSE q[k]]
        BY <2>3 DEF RoomMade
      <3> QED
        BY <2>1, <2>2, <3>1
    <2>6. \A k \in pass : k # key /\ synth'[k].status = "pending"
      BY <1>0, <1>2, <2>2, <2>4 DEF QueueInOrder
    <2>7. working # NoEvent => working # key /\ synth'[working].status = "running"
      BY <1>0, <1>2, <2>2, <2>4 DEF QueueInOrder
    <2>8. \A k \in QueueKeys : synth'[k].status = "pending" => synth'[k].attempts < MaxAttempts
      BY <2>1, <2>2, <2>4, <1>0, MemoryAssumption DEF QueueInOrder
    <2> QED
      BY <2>5, <2>6, <2>7, <2>8 DEF QueueInOrder
  <1> QED
    BY <1>1, <1>2 DEF Enqueue

\* One entry changes: what it has to be for the order to be kept.
LEMMA EntryChanges ==
    ASSUME MemoryTypeOK, QueueInOrder, NEW k \in QueueKeys, NEW e \in Entry,
           synth' = [synth EXCEPT ![k] = e], pass' \subseteq pass,
           e.status = "pending" => e.attempts < MaxAttempts,
           k \in pass' => e.status = "pending",
           \/ working' = NoEvent
           \/ working' = k /\ e.status = "running"
           \/ working' = working /\ working # k
    PROVE  synth' \in [QueueKeys -> Entry] /\ QueueInOrder'
PROOF
  <1>1. /\ synth \in [QueueKeys -> Entry] /\ pass \subseteq QueueKeys
        /\ working \in QueueKeys \cup {NoEvent}
    BY DEF MemoryTypeOK
  <1>2. \A j \in QueueKeys : synth'[j] = IF j = k THEN e ELSE synth[j]
    BY <1>1
  <1> QED
    BY <1>1, <1>2 DEF QueueInOrder

\* A deleted entry's candidate is off the list, its verdict stays.
LEMMA DeletionUnlists ==
    ASSUME candidates \in Seq(Candidate), HoldsVerdicts, NEW i \in Listed,
           candidates' = [candidates EXCEPT ![i].listed = FALSE], UNCHANGED projectVars
    PROVE  /\ candidates' \in Seq(Candidate) /\ Len(candidates') = Len(candidates)
           /\ DOMAIN candidates' = DOMAIN candidates
           /\ HoldsVerdicts' /\ VerdictsStand
PROOF
  <1>1. i \in DOMAIN candidates /\ \A j \in DOMAIN candidates : candidates[j] \in Candidate
    BY DEF Listed
  <1>2. DOMAIN candidates' = DOMAIN candidates
    OBVIOUS
  <1>3. ASSUME NEW j \in DOMAIN candidates
        PROVE  /\ candidates'[j] \in Candidate
               /\ candidates'[j].fact = candidates[j].fact
               /\ candidates'[j].status = candidates[j].status
    BY <1>1 DEF Candidate
  <1>4. candidates' \in Seq(Candidate) /\ Len(candidates') = Len(candidates)
    <2>1. candidates' \in [1..Len(candidates) -> Candidate] /\ Len(candidates) \in Nat
      <3>1. DOMAIN candidates = 1..Len(candidates) /\ Len(candidates) \in Nat
        OBVIOUS
      <3>2. candidates' = [j \in DOMAIN candidates |-> candidates'[j]]
        OBVIOUS
      <3> QED
        BY <1>2, <1>3, <3>1, <3>2
    <2> QED
      BY <2>1
  <1>5. VerdictsStand
    BY <1>2, <1>3 DEF VerdictsStand
  <1>6. HoldsVerdicts'
    BY <1>2, <1>3 DEF HoldsVerdicts, AcceptedFacts, projectVars
  <1> QED
    BY <1>2, <1>4, <1>5, <1>6

\* A batch is of candidates there are.
LEMMA BatchIsOfCandidates ==
    ASSUME NEW c \in Seq(Candidate), Len(c) <= MaxCandidates
    PROVE  OldestPending(c) \subseteq 1..MaxCandidates
  BY MemoryAssumption DEF OldestPending, PendingIn

\* The memory, the queue and the report start empty.
LEMMA MemoryInitInv == MemInit => MemoryInv
PROOF
  <1> SUFFICES ASSUME MemInit PROVE MemoryInv
    OBVIOUS
  <1>1. candidates \in Seq(Candidate) /\ Len(candidates) <= MaxCandidates
    BY MemoryAssumption DEF MemInit
  <1>2. MemoryTypeOK
    <2>1. memEnabled \in BOOLEAN /\ noteLost \in BOOLEAN
      BY DEF MemInit
    <2> QED
      BY <1>1, <2>1, MemoryAssumption DEF MemInit, MemoryTypeOK, Entry, Absent
  <1>3. HoldsVerdicts
    BY DEF MemInit, HoldsVerdicts, AcceptedFacts
  <1> QED
    BY <1>2, <1>3 DEF MemInit, MemoryInv, QueueInOrder, ReviewedWasReported, Absent

\* The next review, if there is one, is of a report that waited.
LEMMA NextReviewIsReported ==
    ASSUME MemoryTypeOK, ReviewedWasReported, NextReview, report' = report, unobserved' = unobserved
    PROVE  /\ reviewing' \in 0..MaxVersions /\ queuedReport' \in 0..MaxVersions
           /\ pendingNotes' \subseteq Versions
           /\ ReviewedWasReported'
  BY MemoryAssumption DEF MemoryTypeOK, ReviewedWasReported, NextReview, Versions

\* What a step leaves alone of the queue of syntheses and of the candidates.
LEMMA QueueLeftAlone ==
    ASSUME MemoryTypeOK, QueueInOrder, UNCHANGED synthVars
    PROVE  QueueInOrder'
  BY DEF QueueInOrder, synthVars

\* Every step of the pipeline, of the operator and of a restart preserves the invariant.
LEMMA MemoryStep == MemoryInv /\ [MemNext]_memVars => MemoryInv'
PROOF
  <1> SUFFICES ASSUME MemoryInv, [MemNext]_memVars PROVE MemoryInv'
    OBVIOUS
  <1> USE MemoryAssumption
  <1>0. MemoryTypeOK /\ QueueInOrder /\ ReviewedWasReported /\ HoldsVerdicts
    BY DEF MemoryInv
  <1>numbers. /\ report \in Nat /\ report <= MaxVersions
        /\ reviewing \in Nat /\ reviewing <= report
        /\ queuedReport \in Nat /\ queuedReport <= report
        /\ unobserved \subseteq Versions /\ pendingNotes \subseteq Versions
        /\ doneNotes \subseteq Versions /\ failedReviews \subseteq Versions
        /\ ReviewedWasReported
    BY <1>0 DEF MemoryTypeOK, ReviewedWasReported, Versions
  <1>versions. /\ reviewing # 0 => reviewing \in Versions
               /\ pendingNotes # {} => report \in Versions
               /\ report < MaxVersions => report + 1 \in Versions
               /\ \A v \in Versions : v \in Nat /\ v <= MaxVersions
    <2>1. \A v \in Versions : v \in Nat /\ 1 <= v /\ v <= MaxVersions
      BY DEF Versions
    <2>2. ASSUME NEW v \in Nat, 1 <= v, v <= MaxVersions PROVE v \in Versions
      BY <2>2 DEF Versions
    <2>3. pendingNotes # {} => 1 <= report
      BY <1>numbers, <2>1 DEF ReviewedWasReported
    <2> QED
      BY <1>numbers, <2>1, <2>2, <2>3
  <1>1. ASSUME NEW e \in MemoryEvents, RecordEvent(e) PROVE MemoryInv'
    <2>1. synth' \in [QueueKeys -> Entry] /\ QueueInOrder'
      BY <1>0, <1>1, EnqueueKeepsOrder DEF RecordEvent, QueueKeys
    <2> QED
      BY <1>0, <1>1, <2>1 DEF RecordEvent, reviewVars, promotionVars, projectVars, MemoryInv, MemoryTypeOK,
         ReviewedWasReported, HoldsVerdicts, AcceptedFacts
  <1>2. CASE StartPass
    BY <1>0, <1>2 DEF StartPass, DueEntries, reviewVars, promotionVars, projectVars, MemoryInv, MemoryTypeOK,
       QueueInOrder, ReviewedWasReported, HoldsVerdicts, AcceptedFacts
  <1>3. ASSUME NEW k \in QueueKeys, TakeEntry(k) PROVE MemoryInv'
    <2>1. synth[k].status = "pending" /\ synth[k].attempts < MaxAttempts /\ synth[k] \in Entry
      BY <1>0, <1>3 DEF TakeEntry, QueueInOrder, MemoryTypeOK
    <2> DEFINE taken == [synth[k] EXCEPT !.status = "running", !.attempts = @ + 1]
    <2>2. taken \in Entry /\ taken.status = "running"
      <3>1. synth[k].attempts + 1 \in 0..MaxAttempts
        BY <2>1 DEF Entry
      <3> QED
        BY <2>1, <3>1 DEF Entry
    <2>3. synth' = [synth EXCEPT ![k] = taken] /\ working' = k /\ pass' = pass \ {k}
      BY <1>3, <1>0, <2>1 DEF TakeEntry, MemoryTypeOK
    <2> HIDE DEF taken
    <2>4. synth' \in [QueueKeys -> Entry] /\ QueueInOrder'
      BY <1>0, <2>2, <2>3, EntryChanges
    <2> QED
      BY <1>0, <1>3, <2>3, <2>4 DEF TakeEntry, reviewVars, promotionVars, projectVars, MemoryInv,
         MemoryTypeOK, ReviewedWasReported, HoldsVerdicts, AcceptedFacts
  <1>4. ASSUME NEW k \in QueueKeys, RetryIsDue(k) PROVE MemoryInv'
    <2> DEFINE entry == [synth[k] EXCEPT !.due = TRUE]
    <2>1. /\ entry \in Entry /\ entry.status = synth[k].status
          /\ entry.attempts = synth[k].attempts
      BY <1>0 DEF Entry, MemoryTypeOK
    <2>2. synth' = [synth EXCEPT ![k] = entry]
      BY <1>4 DEF RetryIsDue
    <2> HIDE DEF entry
    <2>3. synth[k].status = "pending" /\ pass' = pass /\ working' = working
      BY <1>4 DEF RetryIsDue
    <2>4. working = k => working' = NoEvent
      BY <1>0, <2>3 DEF QueueInOrder
    <2>5. synth' \in [QueueKeys -> Entry] /\ QueueInOrder'
      BY <1>0, <2>1, <2>2, <2>3, <2>4, EntryChanges DEF QueueInOrder
    <2> QED
      BY <1>0, <1>4, <2>5 DEF RetryIsDue, reviewVars, promotionVars, projectVars, MemoryInv,
         MemoryTypeOK, ReviewedWasReported, HoldsVerdicts, AcceptedFacts
  <1>5. ASSUME NEW facts \in SUBSET Facts, SynthesisAnswers(facts) PROVE MemoryInv'
    <2> DEFINE done == [synth[working] EXCEPT !.status = "completed"]
    <2>1. candidates' \in Seq(Candidate) /\ Len(candidates') <= MaxCandidates /\ HoldsVerdicts'
      BY <1>0, <1>5, SubmittedAreUnruled DEF SynthesisAnswers, Room, promotionVars, projectVars, MemoryTypeOK
    <2>2. working \in QueueKeys /\ synth[working].status = "running" /\ working \notin pass
      BY <1>0, <1>5 DEF SynthesisAnswers, QueueInOrder, MemoryTypeOK
    <2>3. done \in Entry /\ done.status = "completed"
      BY <1>0, <2>2 DEF MemoryTypeOK, Entry
    <2>4. synth' = [synth EXCEPT ![working] = done] /\ working' = NoEvent /\ pass' = pass
      BY <1>5, <2>2 DEF SynthesisAnswers
    <2> HIDE DEF done
    <2>5. synth' \in [QueueKeys -> Entry] /\ QueueInOrder'
      BY <1>0, <2>2, <2>3, <2>4, EntryChanges
    <2> QED
      BY <1>0, <1>5, <2>1, <2>5 DEF SynthesisAnswers, reviewVars, promotionVars, projectVars, MemoryInv,
         MemoryTypeOK, ReviewedWasReported
  <1>6. CASE SynthesisFails
    <2> DEFINE later == RetriedLater(synth[working])
    <2>1. working \in QueueKeys /\ synth[working].status = "running" /\ working \notin pass
      BY <1>0, <1>6 DEF SynthesisFails, QueueInOrder, MemoryTypeOK
    <2>2. later \in Entry /\ (later.status = "pending" => later.attempts < MaxAttempts)
      <3> DEFINE entry == synth[working]
      <3>1. entry \in Entry
        BY <1>0, <2>1 DEF MemoryTypeOK
      <3>2. entry.attempts \in 0..MaxAttempts
        BY <3>1 DEF Entry
      <3>3. CASE entry.attempts >= MaxAttempts
        <4>1. later = [entry EXCEPT !.status = "failed", !.due = FALSE]
          BY <3>3 DEF RetriedLater
        <4> HIDE DEF entry
        <4> QED
          BY <3>1, <4>1 DEF Entry
      <3>4. CASE ~(entry.attempts >= MaxAttempts)
        <4>1. later = [entry EXCEPT !.status = "pending", !.due = FALSE]
          BY <3>4 DEF RetriedLater
        <4>2. later.status = "pending" /\ later.attempts = entry.attempts
          BY <3>1, <4>1 DEF Entry
        <4> HIDE DEF entry, later
        <4>3. later \in Entry
          BY <3>1, <4>1 DEF Entry
        <4> QED
          BY <3>2, <3>4, <4>2, <4>3
      <3> QED
        BY <3>3, <3>4
    <2>3. synth' = [synth EXCEPT ![working] = later] /\ working' = NoEvent /\ pass' = pass
      BY <1>6, <2>1 DEF SynthesisFails
    <2> HIDE DEF later
    <2>4. synth' \in [QueueKeys -> Entry] /\ QueueInOrder'
      BY <1>0, <2>1, <2>2, <2>3, EntryChanges
    <2> QED
      BY <1>0, <1>6, <2>4 DEF SynthesisFails, MemFault, reviewVars, promotionVars, projectVars, MemoryInv,
         MemoryTypeOK, ReviewedWasReported, HoldsVerdicts, AcceptedFacts
  <1>7. CASE WriteReport
    <2>1. report' \in 0..MaxVersions /\ unobserved' \subseteq Versions /\ ReviewedWasReported'
      BY <1>7, <1>numbers, <1>versions DEF WriteReport, reviewVars, ReviewedWasReported
    <2> QED
      BY <1>0, <1>7, <2>1, QueueLeftAlone
         DEF WriteReport, reviewVars, synthVars, promotionVars, projectVars, MemoryInv, MemoryTypeOK,
             HoldsVerdicts, AcceptedFacts
  <1>8. ASSUME NEW v \in Versions, ObserveReport(v) PROVE MemoryInv'
    <2>1. synth' \in [QueueKeys -> Entry] /\ QueueInOrder'
      BY <1>0, <1>8, EnqueueKeepsOrder DEF ObserveReport, QueueKeys
    <2>2. /\ reviewing' \in 0..MaxVersions /\ queuedReport' \in 0..MaxVersions
          /\ pendingNotes' \subseteq Versions /\ ReviewedWasReported'
      <3>1. v \in Nat /\ v <= report /\ v <= MaxVersions /\ v \in Versions
        BY <1>numbers, <1>versions, <1>8 DEF ObserveReport, ReviewedWasReported
      <3>2. unobserved' \subseteq unobserved /\ report' = report
        BY <1>8 DEF ObserveReport
      <3>3. \/ UNCHANGED <<reviewing, queuedReport, pendingNotes>>
            \/ reviewing' = v /\ pendingNotes' = pendingNotes \cup {v} /\ UNCHANGED queuedReport
            \/ queuedReport' \in {v, queuedReport} /\ UNCHANGED <<reviewing, pendingNotes>>
        BY <1>8 DEF ObserveReport, BeginReview
      <3> QED
        <4>1. reviewing' \in {v, reviewing} /\ queuedReport' \in {v, queuedReport}
              /\ pendingNotes' \subseteq pendingNotes \cup {v}
          BY <3>3
        <4>2. ReviewedWasReported'
          BY <1>numbers, <3>1, <3>2, <4>1 DEF ReviewedWasReported
        <4> QED
          BY <1>numbers, <3>1, <4>1, <4>2
    <2> QED
      BY <1>0, <1>8, <2>1, <2>2 DEF ObserveReport, promotionVars, projectVars, MemoryInv, MemoryTypeOK,
         HoldsVerdicts, AcceptedFacts
  <1>9. ASSUME NEW facts \in SUBSET Facts, ReviewAnswers(facts) PROVE MemoryInv'
    <2> DEFINE known == {candidates[i].fact : i \in Listed}
    <2>1. candidates' \in Seq(Candidate) /\ Len(candidates') <= MaxCandidates /\ HoldsVerdicts'
      <3>1. CASE StaleReview
        BY <1>0, <1>9, <3>1
           DEF ReviewAnswers, promotionVars, projectVars, MemoryTypeOK, HoldsVerdicts, AcceptedFacts
      <3>2. CASE ~StaleReview
        <4>1. candidates' = Submitted(facts \ known, "review") /\ UNCHANGED projectVars
              /\ Len(candidates) + Cardinality(facts) <= MaxCandidates
          BY <1>9, <3>2 DEF ReviewAnswers, Room, promotionVars, projectVars
        <4>2. Len(candidates) + Cardinality(facts \ known) <= MaxCandidates
          BY <1>0, <4>1, FewerFacts DEF MemoryTypeOK
        <4> HIDE DEF known
        <4> QED
          BY <1>0, <4>1, <4>2, SubmittedAreUnruled DEF MemoryTypeOK
      <3> QED
        BY <3>1, <3>2
    <2>2. doneNotes' \subseteq Versions
      BY <1>numbers, <1>versions, <1>9 DEF ReviewAnswers
    <2>3. /\ reviewing' \in 0..MaxVersions /\ queuedReport' \in 0..MaxVersions
          /\ pendingNotes' \subseteq Versions /\ ReviewedWasReported'
      BY <1>0, <1>9, NextReviewIsReported DEF ReviewAnswers
    <2> QED
      BY <1>0, <1>9, <2>1, <2>2, <2>3, QueueLeftAlone
         DEF ReviewAnswers, synthVars, promotionVars, projectVars, MemoryInv, MemoryTypeOK
  <1>10. CASE ReviewFails
    <2>1. failedReviews' \subseteq Versions
      BY <1>numbers, <1>versions, <1>10 DEF ReviewFails
    <2>2. /\ reviewing' \in 0..MaxVersions /\ queuedReport' \in 0..MaxVersions
          /\ pendingNotes' \subseteq Versions /\ ReviewedWasReported'
      BY <1>0, <1>10, NextReviewIsReported DEF ReviewFails
    <2> QED
      BY <1>0, <1>10, <2>1, <2>2, QueueLeftAlone
         DEF ReviewFails, MemFault, synthVars, promotionVars, projectVars, MemoryInv, MemoryTypeOK,
             HoldsVerdicts, AcceptedFacts
  <1>11. CASE StartBatch
    <2>1. OldestPending(candidates) \subseteq 1..MaxCandidates
      BY <1>0, BatchIsOfCandidates DEF MemoryTypeOK
    <2> QED
      BY <1>0, <1>11, <2>1, QueueLeftAlone
         DEF StartBatch, projectVars, reviewVars, synthVars, MemoryInv, MemoryTypeOK, ReviewedWasReported,
             HoldsVerdicts, AcceptedFacts
  <1>12. ASSUME NEW ruled, NEW accepted, PromotionAnswers(ruled, accepted) PROVE MemoryInv'
    <2>1. /\ candidates' \in Seq(Candidate) /\ Len(candidates') <= MaxCandidates
          /\ project' \subseteq Facts /\ forgotten' \subseteq Facts /\ HoldsVerdicts'
      BY <1>0, <1>12, RulingsAreTakenOver DEF PromotionAnswers, MemoryTypeOK
    <2>2. OldestPending(candidates') \subseteq 1..MaxCandidates
      BY <2>1, BatchIsOfCandidates
    <2>3. batch' \subseteq 1..MaxCandidates
      BY <1>12, <2>2 DEF PromotionAnswers
    <2> QED
      BY <1>0, <1>12, <2>1, <2>3, QueueLeftAlone
         DEF PromotionAnswers, reviewVars, synthVars, MemoryInv, MemoryTypeOK, ReviewedWasReported
  <1>13. CASE PromotionFails
    BY <1>0, <1>13, QueueLeftAlone
       DEF PromotionFails, projectVars, MemFault, reviewVars, synthVars, MemoryInv, MemoryTypeOK,
           ReviewedWasReported, HoldsVerdicts, AcceptedFacts
  <1>14. ASSUME NEW i, NEW accepted, OperatorResolves(i, accepted) PROVE MemoryInv'
    <2>1. /\ candidates' \in Seq(Candidate) /\ Len(candidates') <= MaxCandidates
          /\ project' \subseteq Facts /\ forgotten' \subseteq Facts /\ HoldsVerdicts'
      BY <1>0, <1>14, RulingsAreTakenOver DEF OperatorResolves, MemoryTypeOK
    <2> QED
      BY <1>0, <1>14, <2>1, QueueLeftAlone
         DEF OperatorResolves, reviewVars, synthVars, MemoryInv, MemoryTypeOK, ReviewedWasReported
  <1>15. CASE SwitchMemory
    BY <1>0, <1>15, QueueLeftAlone
       DEF SwitchMemory, MemFault, reviewVars, synthVars, promotionVars, projectVars, MemoryInv, MemoryTypeOK,
           ReviewedWasReported, HoldsVerdicts, AcceptedFacts
  <1>16. CASE RestartMemory
    <2>1. /\ reviewing' \in 0..MaxVersions /\ pendingNotes' \subseteq Versions
          /\ ReviewedWasReported'
      <3>2. report' = report /\ unobserved' = {} /\ queuedReport' = 0
        BY <1>16 DEF RestartMemory
      <3>3. \/ reviewing' = 0 /\ pendingNotes' = pendingNotes
            \/ reviewing' = report /\ pendingNotes' = pendingNotes \cup {report}
               /\ pendingNotes # {}
        BY <1>16 DEF RestartMemory, ReviewsResumed
      <3> QED
        BY <1>numbers, <1>versions, <3>2, <3>3 DEF ReviewedWasReported
    <2> QED
      BY <1>0, <1>16, <2>1
         DEF RestartMemory, projectVars, MemFault, MemoryInv, MemoryTypeOK, QueueInOrder,
             HoldsVerdicts, AcceptedFacts
  <1>18. ASSUME NEW f \in Facts, NEW by \in {"entry", "promote"}, WorkerPromotes(f, by) PROVE MemoryInv'
    <2>1. candidates' \in Seq(Candidate) /\ Len(candidates') <= MaxCandidates /\ HoldsVerdicts'
      BY <1>0, <1>18, SubmittedAreUnruled DEF WorkerPromotes, Room, promotionVars, projectVars, MemoryTypeOK
    <2> QED
      BY <1>0, <1>18, <2>1, QueueLeftAlone
         DEF WorkerPromotes, reviewVars, synthVars, promotionVars, projectVars, MemoryInv, MemoryTypeOK,
             ReviewedWasReported
  <1>19. ASSUME NEW i \in 1..MaxCandidates, DeleteJobEntry(i) PROVE MemoryInv'
    <2>1. candidates' \in Seq(Candidate) /\ Len(candidates') <= MaxCandidates /\ HoldsVerdicts'
      BY <1>0, <1>19, DeletionUnlists DEF DeleteJobEntry, promotionVars, projectVars, MemoryTypeOK
    <2> QED
      <3>1. /\ UNCHANGED <<memEnabled, synthVars, report, unobserved, reviewVars, promotionVars>>
            /\ memFaults' \in 0..MaxMemFaults
        BY <1>0, <1>19 DEF DeleteJobEntry, MemFault, MemoryTypeOK
      <3> QED
        BY <1>0, <2>1, <3>1, QueueLeftAlone
           DEF reviewVars, synthVars, promotionVars, projectVars, MemoryInv, MemoryTypeOK,
               ReviewedWasReported
  <1>20. ASSUME NEW v \in Versions, NoteGoes(v) PROVE MemoryInv'
    <2>1. /\ pendingNotes' \subseteq pendingNotes /\ doneNotes' \subseteq doneNotes
          /\ noteLost' \in BOOLEAN
      BY <1>20 DEF NoteGoes
    <2>2. ReviewedWasReported'
      BY <1>0, <1>20, <2>1 DEF NoteGoes, ReviewedWasReported
    <2> QED
      BY <1>0, <1>20, <2>1, <2>2, QueueLeftAlone
         DEF NoteGoes, MemFault, synthVars, promotionVars, projectVars, MemoryInv, MemoryTypeOK,
             HoldsVerdicts, AcceptedFacts
  <1>21. ASSUME NEW f \in Facts, DeleteProjectEntry(f) PROVE MemoryInv'
    <2>1. project' \subseteq Facts /\ forgotten' \subseteq Facts /\ HoldsVerdicts'
      BY <1>0, <1>21 DEF DeleteProjectEntry, MemoryTypeOK, HoldsVerdicts, AcceptedFacts
    <2> QED
      BY <1>0, <1>21, <2>1, QueueLeftAlone
         DEF DeleteProjectEntry, MemFault, reviewVars, synthVars, MemoryInv, MemoryTypeOK,
             ReviewedWasReported
  <1>17. CASE UNCHANGED memVars
    BY <1>0, <1>17, QueueLeftAlone
       DEF memVars, reviewVars, synthVars, promotionVars, projectVars, MemoryInv, MemoryTypeOK,
           ReviewedWasReported, HoldsVerdicts, AcceptedFacts
  <1> QED
    BY <1>1, <1>2, <1>3, <1>4, <1>5, <1>6, <1>7, <1>8, <1>9, <1>10, <1>11, <1>12, <1>13, <1>14,
       <1>15, <1>16, <1>17, <1>18, <1>19, <1>20, <1>21 DEF MemNext

\* Candidates are submitted, ruled on or taken off the list, or left as they are.
LEMMA CandidatesChange ==
    ASSUME [MemNext]_memVars
    PROVE  \/ \E facts \in SUBSET Facts : SynthesisAnswers(facts) \/ ReviewAnswers(facts)
           \/ \E f \in Facts, by \in {"entry", "promote"} : WorkerPromotes(f, by)
           \/ \E ruled, accepted : Resolved(ruled, accepted)
           \/ \E i \in 1..MaxCandidates : DeleteJobEntry(i)
           \/ UNCHANGED candidates
  BY DEF MemNext, RecordEvent, StartPass, TakeEntry, RetryIsDue, SynthesisFails, WriteReport,
         ObserveReport, ReviewFails, StartBatch, PromotionAnswers, PromotionFails,
         OperatorResolves, NoteGoes, DeleteProjectEntry, SwitchMemory, RestartMemory, memVars

\* No step overturns a verdict.
LEMMA VerdictsStep == MemoryInv /\ [MemNext]_memVars => VerdictsStand
PROOF
  <1> SUFFICES ASSUME MemoryInv, [MemNext]_memVars PROVE VerdictsStand
    OBVIOUS
  <1>0. /\ candidates \in Seq(Candidate) /\ HoldsVerdicts
        /\ project \subseteq Facts /\ forgotten \subseteq Facts
    BY DEF MemoryInv, MemoryTypeOK
  <1>1. ASSUME NEW facts \in SUBSET Facts, SynthesisAnswers(facts) PROVE VerdictsStand
    BY <1>0, <1>1, SubmittedAreUnruled DEF SynthesisAnswers, Room, promotionVars, projectVars
  <1>2. ASSUME NEW facts \in SUBSET Facts, ReviewAnswers(facts), ~(UNCHANGED candidates)
        PROVE  VerdictsStand
    <2> DEFINE known == {candidates[i].fact : i \in Listed}
    <2>1. candidates' = Submitted(facts \ known, "review") /\ UNCHANGED projectVars
          /\ Len(candidates) + Cardinality(facts) <= MaxCandidates
      BY <1>2 DEF ReviewAnswers, Room, promotionVars, projectVars
    <2>2. Len(candidates) + Cardinality(facts \ known) <= MaxCandidates
      BY <1>0, <2>1, FewerFacts, MemoryAssumption
    <2> HIDE DEF known
    <2> QED
      BY <1>0, <2>1, <2>2, SubmittedAreUnruled
  <1>3. ASSUME NEW f \in Facts, NEW by \in {"entry", "promote"}, WorkerPromotes(f, by)
        PROVE  VerdictsStand
    BY <1>0, <1>3, SubmittedAreUnruled DEF WorkerPromotes, Room, promotionVars, projectVars
  <1>4. ASSUME NEW ruled, NEW accepted, Resolved(ruled, accepted) PROVE VerdictsStand
    BY <1>0, <1>4, RulingsAreTakenOver
  <1>5. ASSUME NEW i \in 1..MaxCandidates, DeleteJobEntry(i) PROVE VerdictsStand
    BY <1>0, <1>5, DeletionUnlists DEF DeleteJobEntry, promotionVars, projectVars
  <1>6. CASE UNCHANGED candidates
    BY <1>6 DEF VerdictsStand
  <1> QED
    BY <1>1, <1>2, <1>3, <1>4, <1>5, <1>6, CandidatesChange

\* A step that adds candidates of a review is the end of a review of the newest report.
LEMMA NewestReviewStep ==
    ASSUME MemoryInv, [MemNext]_memVars,
           NEW i \in DOMAIN candidates' \ DOMAIN candidates, candidates'[i].by = "review"
    PROVE  reviewing = report
PROOF
  <1>0. /\ candidates \in Seq(Candidate) /\ HoldsVerdicts
        /\ project \subseteq Facts /\ forgotten \subseteq Facts
    BY DEF MemoryInv, MemoryTypeOK
  <1>1. ASSUME NEW facts \in SUBSET Facts, SynthesisAnswers(facts) PROVE FALSE
    BY <1>0, <1>1, SubmittedAreUnruled DEF SynthesisAnswers, Room, promotionVars, projectVars
  <1>2. ASSUME NEW facts \in SUBSET Facts, ReviewAnswers(facts) PROVE reviewing = report
    <2>1. ~StaleReview
      BY <1>2 DEF ReviewAnswers
    <2>2. reviewing \in Nat /\ report \in Nat /\ reviewing <= report
      BY MemoryAssumption DEF MemoryInv, MemoryTypeOK, ReviewedWasReported
    <2> QED
      BY <2>1, <2>2 DEF StaleReview
  <1>3. ASSUME NEW f \in Facts, NEW by \in {"entry", "promote"}, WorkerPromotes(f, by)
        PROVE  FALSE
    BY <1>0, <1>3, SubmittedAreUnruled DEF WorkerPromotes, Room, promotionVars, projectVars
  <1>4. ASSUME NEW ruled, NEW accepted, Resolved(ruled, accepted) PROVE FALSE
    BY <1>0, <1>4, RulingsAreTakenOver
  <1>5. ASSUME NEW j \in 1..MaxCandidates, DeleteJobEntry(j) PROVE FALSE
    BY <1>0, <1>5, DeletionUnlists DEF DeleteJobEntry, promotionVars, projectVars
  <1>6. candidates' # candidates
    OBVIOUS
  <1> QED
    BY <1>1, <1>2, <1>3, <1>4, <1>5, <1>6, CandidatesChange

\* Project memory holds what was ruled in and nothing else, but for what the operator
\* deleted or its cap pushed out, and whoever rules first on a candidate, the model or
\* the operator, is not overturned: with any caps and batches, and however rulings,
\* submissions, deletions, restarts and settings changes interleave.
THEOREM MemoryIsWhatWasAccepted == MemSpec => []MemoryTypeOK /\ ProjectMemoryIsVerdicts
PROOF
  <1>1. MemoryInv => MemoryTypeOK /\ HoldsVerdicts
    BY DEF MemoryInv
  <1>2. MemoryInv /\ [MemNext]_memVars => [VerdictsStand]_memVars
    BY VerdictsStep
  <1> QED
    BY <1>1, <1>2, MemoryInitInv, MemoryStep, PTL DEF MemSpec, ProjectMemoryIsVerdicts

\* A review whose report was rewritten while the model read it adds no candidate.
THEOREM OnlyNewestReviewSpeaks == MemSpec => NewestReviewSpeaks
PROOF
  <1>1. MemoryInv /\ [MemNext]_memVars =>
            [\A i \in DOMAIN candidates' \ DOMAIN candidates :
                candidates'[i].by = "review" => reviewing = report]_memVars
    BY NewestReviewStep
  <1> QED
    BY <1>1, MemoryInitInv, MemoryStep, PTL DEF MemSpec, NewestReviewSpeaks

-----------------------------------------------------------------------------
(* Supervision of a compaction.                                            *)

AtMostOne(places) == \A i, j \in places : i = j

\* Of each that may wait for the Worker's state there is at most one question or
\* answer on its way, and only while it waits, has no answer yet, and does not wait
\* for the reply to a compaction instead.
OneQuestion ==
    \A w \in Waiters :
        /\ AtMostOne(Places(inbox, {Ask(w)})) /\ AtMostOne(Places(pipe, StateLines(w)))
        /\ Places(inbox, {Ask(w)}) = {} \/ Places(pipe, StateLines(w)) = {}
        /\ Places(inbox, {Ask(w)}) # {} \/ Places(pipe, StateLines(w)) # {} =>
              Waiting(w) /\ answer[w] = "none" /\ (w \in Ops => pc[w] # "compacting")

CompactionInv == CompactionTypeOK /\ OneQuestion

\* A line joins a queue at its end.
LEMMA AppendPlaces ==
    ASSUME NEW S, NEW q \in Seq(S), NEW e \in S, NEW K
    PROVE  /\ Append(q, e) \in Seq(S)
           /\ e \notin K => Places(Append(q, e), K) = Places(q, K)
           /\ Places(q, K) = {} => AtMostOne(Places(Append(q, e), K))
PROOF
  <1>1. /\ Append(q, e) \in Seq(S) /\ Len(Append(q, e)) = Len(q) + 1
        /\ \A i \in 1..Len(q) : Append(q, e)[i] = q[i]
        /\ Append(q, e)[Len(q) + 1] = e
    OBVIOUS
  <1>2. DOMAIN q = 1..Len(q) /\ DOMAIN Append(q, e) = 1..Len(q) + 1 /\ Len(q) \in Nat
    BY <1>1
  <1>3. Places(Append(q, e), K) = Places(q, K) \cup (IF e \in K THEN {Len(q) + 1} ELSE {})
    BY <1>1, <1>2 DEF Places
  <1> QED
    BY <1>1, <1>3 DEF AtMostOne

\* The head leaves a queue.
LEMMA TailPlaces ==
    ASSUME NEW S, NEW q \in Seq(S), q # <<>>, NEW K
    PROVE  /\ Tail(q) \in Seq(S) /\ Head(q) \in S /\ Len(Tail(q)) = Len(q) - 1
           /\ Places(q, K) = {} => Places(Tail(q), K) = {}
           /\ AtMostOne(Places(q, K)) => AtMostOne(Places(Tail(q), K))
           /\ Head(q) \in K => Places(q, K) # {}
           /\ Head(q) \in K /\ AtMostOne(Places(q, K)) => Places(Tail(q), K) = {}
PROOF
  <1>1. /\ Tail(q) \in Seq(S) /\ Head(q) \in S /\ Len(Tail(q)) = Len(q) - 1
        /\ Len(q) \in Nat /\ Len(q) > 0
        /\ DOMAIN q = 1..Len(q) /\ DOMAIN Tail(q) = 1..Len(q) - 1
        /\ \A i \in 1..Len(q) - 1 : Tail(q)[i] = q[i + 1]
        /\ Head(q) = q[1]
    OBVIOUS
  <1>2. \A i \in Places(Tail(q), K) : i \in Nat /\ i > 0 /\ i + 1 \in Places(q, K)
    BY <1>1 DEF Places
  <1>3. Head(q) \in K => 1 \in Places(q, K)
    BY <1>1 DEF Places
  <1> QED
    BY <1>1, <1>2, <1>3 DEF AtMostOne

\* The only line of a kind is taken out of a queue.
LEMMA WithoutPlaces ==
    ASSUME NEW S, NEW q \in Seq(S), NEW K, AtMostOne(Places(q, K))
    PROVE  /\ Without(q, K) \in Seq(S)
           /\ Places(Without(q, K), K) = {}
           /\ \A M : AtMostOne(Places(q, M)) => AtMostOne(Places(Without(q, K), M))
           /\ \A M : Places(q, M) = {} => Places(Without(q, K), M) = {}
PROOF
  <1>1. CASE Places(q, K) = {}
    BY <1>1 DEF Without
  <1>2. CASE Places(q, K) # {}
    <2> DEFINE k == CHOOSE i \in Places(q, K) : TRUE
               r == Without(q, K)
    <2>1. k \in Places(q, K) /\ k \in 1..Len(q) /\ Len(q) \in Nat
      BY <1>2 DEF Places
    <2> HIDE DEF k
    <2>2. r = SubSeq(q, 1, k - 1) \o SubSeq(q, k + 1, Len(q))
      BY <1>2 DEF Without, RemoveAt, k
    <2> HIDE DEF r
    <2>3. /\ SubSeq(q, 1, k - 1) \in Seq(S) /\ Len(SubSeq(q, 1, k - 1)) = k - 1
          /\ \A i \in 1..k - 1 : SubSeq(q, 1, k - 1)[i] = q[i]
      BY <2>1
    <2>4. /\ SubSeq(q, k + 1, Len(q)) \in Seq(S) /\ Len(SubSeq(q, k + 1, Len(q))) = Len(q) - k
          /\ \A i \in 1..Len(q) - k : SubSeq(q, k + 1, Len(q))[i] = q[i + k]
      BY <2>1
    <2>5. /\ r \in Seq(S) /\ DOMAIN r = 1..Len(q) - 1
          /\ \A i \in 1..Len(q) - 1 : r[i] = IF i < k THEN q[i] ELSE q[i + 1]
      <3> DEFINE a == SubSeq(q, 1, k - 1)
                 b == SubSeq(q, k + 1, Len(q))
      <3>1. a \in Seq(S) /\ b \in Seq(S) /\ r = a \o b
        BY <2>2, <2>3, <2>4
      <3>2. Len(a) = k - 1 /\ Len(b) = Len(q) - k
        BY <2>3, <2>4
      <3>3. \A i \in 1..k - 1 : a[i] = q[i]
        BY <2>3
      <3>4. \A i \in 1..Len(q) - k : b[i] = q[i + k]
        BY <2>4
      <3> HIDE DEF a, b
      <3>5. /\ r \in Seq(S) /\ Len(r) = Len(q) - 1
            /\ \A i \in 1..Len(q) - 1 : r[i] = IF i <= k - 1 THEN a[i] ELSE b[i - (k - 1)]
        <4>1. /\ a \o b \in Seq(S) /\ Len(a \o b) = Len(a) + Len(b)
              /\ \A i \in 1..(Len(a) + Len(b)) : (a \o b)[i] = IF i <= Len(a) THEN a[i] ELSE b[i - Len(a)]
          BY <3>1, ConcatProperties
        <4>2. Len(a) + Len(b) = Len(q) - 1
          BY <2>1, <3>2
        <4> QED
          BY <3>1, <3>2, <4>1, <4>2
      <3>6. ASSUME NEW i \in 1..Len(q) - 1 PROVE r[i] = IF i < k THEN q[i] ELSE q[i + 1]
        <4>1. CASE i < k
          BY <2>1, <3>3, <3>5, <4>1
        <4>2. CASE ~(i < k)
          <5>1. i - (k - 1) \in 1..Len(q) - k /\ i - (k - 1) + k = i + 1
            BY <2>1, <4>2
          <5> QED
            BY <2>1, <3>4, <3>5, <4>2, <5>1
        <4> QED
          BY <4>1, <4>2
      <3> QED
        BY <2>1, <3>5, <3>6
    <2> DEFINE old(i) == IF i < k THEN i ELSE i + 1
    <2>6. \A M : \A i \in Places(r, M) : i \in Nat /\ old(i) \in Places(q, M) /\ old(i) # k
      BY <2>1, <2>5 DEF Places
    <2>7. \A i, j \in Nat : old(i) = old(j) => i = j
      BY <2>1
    <2>8. Places(r, K) = {}
      BY <2>1, <2>6 DEF AtMostOne
    <2> HIDE DEF old
    <2> QED
      BY <2>5, <2>6, <2>7, <2>8 DEF AtMostOne, r
  <1> QED
    BY <1>1, <1>2

\* The kinds of lines, told apart.
LEMMA KindsOfLines ==
    /\ \A v, w \in Waiters : Ask(v) \in {Ask(w)} => v = w
    /\ \A i, w \in Waiters : Compact(i) \notin {Ask(w)}
    /\ \A v, w \in Waiters, busy \in BOOLEAN :
          State(v, busy) \in StateLines(w) <=> v = w
    /\ \A w \in Waiters : \A i, ok : Reply(i, ok) \notin StateLines(w)
    /\ \A w \in Waiters : Started \notin StateLines(w)
    /\ \A w \in Waiters : \A ok : Ended(ok) \notin StateLines(w)
PROOF
  <1>1. \A v, w : Ask(v) = Ask(w) => v = w
    BY DEF Ask
  <1>2. \A i, w : Compact(i) # Ask(w)
    BY DEF Compact, Ask
  <1>3. \A v, w, a, b : State(v, a) = State(w, b) => v = w
    BY DEF State
  <1>4. \A w, b, i, ok : Reply(i, ok) # State(w, b) /\ Started # State(w, b) /\ Ended(ok) # State(w, b)
    <2> TAKE w, b, i, ok
    <2>1. State(w, b).kind = "state" /\ Reply(i, ok).kind = "reply" /\ Started.kind = "started"
          /\ Ended(ok).kind = "ended"
      BY DEF State, Reply, Started, Ended
    <2> QED
      BY <2>1
  <1> QED
    BY <1>1, <1>2, <1>3, <1>4 DEF StateLines

\* Who has an answer, and who does not wait, has no question on its way.
LEMMA NoQuestion ==
    ASSUME OneQuestion, NEW w \in Waiters,
           ~Waiting(w) \/ answer[w] # "none" \/ (w \in Ops /\ pc[w] = "compacting")
    PROVE  Places(inbox, {Ask(w)}) = {} /\ Places(pipe, StateLines(w)) = {}
  BY DEF OneQuestion

\* One of those that wait goes on, and may ask anew.
LEMMA GoesOn ==
    ASSUME CompactionTypeOK, OneQuestion, NEW w \in Waiters, pipe' = pipe,
           ~Waiting(w) \/ answer[w] # "none",
           \A v \in Waiters : v # w => /\ answer'[v] = answer[v] /\ (Waiting(v) => Waiting(v)')
                                       /\ (v \in Ops => pc'[v] = pc[v]),
           \/ inbox' = inbox
           \/ w \in Ops /\ inbox' = Append(inbox, Compact(w))
           \/ /\ inbox' = Append(inbox, Ask(w))
              /\ Waiting(w)' /\ answer'[w] = "none" /\ (w \in Ops => pc'[w] # "compacting")
    PROVE  inbox' \in Seq(Requests) /\ OneQuestion'
PROOF
  <1>1. Places(inbox, {Ask(w)}) = {} /\ Places(pipe, StateLines(w)) = {}
    BY NoQuestion
  <1>2. inbox \in Seq(Requests) /\ (w \in Ops => Compact(w) \in Requests) /\ Ask(w) \in Requests
    BY DEF CompactionTypeOK, Requests
  <1>appends. \A e \in Requests : \A K :
               /\ Append(inbox, e) \in Seq(Requests)
               /\ e \notin K => Places(Append(inbox, e), K) = Places(inbox, K)
               /\ Places(inbox, K) = {} => AtMostOne(Places(Append(inbox, e), K))
    BY <1>2, AppendPlaces
  <1>kinds. /\ \A v \in Waiters : v # w => Ask(w) \notin {Ask(v)}
            /\ w \in Ops => \A v \in Waiters : Compact(w) \notin {Ask(v)}
    BY KindsOfLines
  <1>3. /\ inbox' \in Seq(Requests)
        /\ \A v \in Waiters : v # w => Places(inbox', {Ask(v)}) = Places(inbox, {Ask(v)})
        /\ AtMostOne(Places(inbox', {Ask(w)}))
        /\ \/ Places(inbox', {Ask(w)}) = {}
           \/ Waiting(w)' /\ answer'[w] = "none" /\ (w \in Ops => pc'[w] # "compacting")
    <2>1. CASE inbox' = inbox
      BY <1>1, <1>2, <2>1 DEF AtMostOne
    <2>2. CASE w \in Ops /\ inbox' = Append(inbox, Compact(w))
      BY <1>1, <1>2, <1>appends, <1>kinds, <2>2 DEF AtMostOne
    <2>3. CASE inbox' = Append(inbox, Ask(w))
      BY <1>1, <1>2, <1>appends, <1>kinds, <2>3
    <2> QED
      BY <2>1, <2>2, <2>3
  <1>5. ASSUME NEW v \in Waiters, v # w
        PROVE  /\ AtMostOne(Places(inbox, {Ask(v)})') /\ AtMostOne(Places(pipe, StateLines(v))')
               /\ Places(inbox, {Ask(v)})' = {} \/ Places(pipe, StateLines(v))' = {}
               /\ Places(inbox, {Ask(v)})' # {} \/ Places(pipe, StateLines(v))' # {} =>
                     Waiting(v)' /\ answer'[v] = "none" /\ (v \in Ops => pc'[v] # "compacting")
    BY <1>3, <1>5 DEF OneQuestion
  <1>6. /\ AtMostOne(Places(inbox, {Ask(w)})') /\ AtMostOne(Places(pipe, StateLines(w))')
        /\ Places(inbox, {Ask(w)})' = {} \/ Places(pipe, StateLines(w))' = {}
        /\ Places(inbox, {Ask(w)})' # {} \/ Places(pipe, StateLines(w))' # {} =>
              Waiting(w)' /\ answer'[w] = "none" /\ (w \in Ops => pc'[w] # "compacting")
    <2>1. Places(pipe, StateLines(w))' = {}
      BY <1>1
    <2>2. Places(inbox, {Ask(w)})' # {} =>
              Waiting(w)' /\ answer'[w] = "none" /\ (w \in Ops => pc'[w] # "compacting")
      BY <1>3
    <2> QED
      BY <1>3, <2>1, <2>2 DEF AtMostOne
  <1> QED
    BY <1>3, <1>5, <1>6 DEF OneQuestion

\* No operation, no question, no line.
LEMMA CompactionInitInv == CompactionInit => CompactionInv
PROOF
  <1> SUFFICES ASSUME CompactionInit PROVE CompactionInv
    OBVIOUS
  <1>1. \A K : Places(inbox, K) = {} /\ Places(pipe, K) = {}
    BY DEF CompactionInit, Places
  <1>2. OneQuestion
    BY <1>1 DEF OneQuestion, AtMostOne
  <1>3. CompactionTypeOK
    <2>1. overdue \in BOOLEAN /\ watch \in BOOLEAN
      BY DEF CompactionInit
    <2>2. inbox \in Seq(Requests) /\ pipe \in Seq(Lines) /\ chunk \in 0..Len(pipe)
      BY DEF CompactionInit
    <2>3. pc \in [Ops -> Phases] /\ answer \in [Waiters -> Answers]
          /\ \A w \in Waiters : answer[w] = "none"
      BY DEF CompactionInit, Phases, Answers
    <2> QED
      BY <2>1, <2>2, <2>3, LimitsAssumption DEF CompactionInit, CompactionTypeOK
  <1> QED
    BY <1>2, <1>3 DEF CompactionInv

\* What is left alone of the questions leaves them in order.
LEMMA QuestionsLeftAlone ==
    ASSUME OneQuestion, UNCHANGED <<inbox, pipe>>, UNCHANGED waits
    PROVE  OneQuestion'
  BY DEF OneQuestion, waits, Waiting

\* A settled operation has one of its statuses.
LEMMA SettleType ==
    ASSUME CompactionTypeOK, NEW i, NEW result \in {"completed", "failed"}, Settle(i, result)
    PROVE  /\ status' \in {"none", "starting", "running", "completed", "failed"}
           /\ watch' \in BOOLEAN
  BY DEF CompactionTypeOK, Settle

\* A start asks for the state first, and nobody else waits for it.
LEMMA StartStep == CompactionInv /\ Start => CompactionInv'
PROOF
  <1> SUFFICES ASSUME CompactionInv, Start PROVE CompactionInv'
    OBVIOUS
  <1>0. CompactionTypeOK /\ OneQuestion
    BY DEF CompactionInv
  <1>1. PICK i \in Ops : /\ pc[i] = "unused" /\ cur' = i
                         /\ pc' = [pc EXCEPT ![i] = "probing"] /\ inbox' = Append(inbox, Ask(i))
    BY DEF Start
  <1>2. /\ status' = "starting" /\ overdue' = FALSE /\ failures' = 0 /\ pipe' = pipe
        /\ UNCHANGED <<watch, checking, answer, chunk, compacting>>
        /\ \A w \in Waiters : answer[w] = "none"
    BY DEF Start, Quiet
  <1>3. i \in Waiters /\ i # Checker /\ i \in Ops /\ i \in 0..MaxOps
    BY LimitsAssumption DEF Waiters, Checker, Ops
  <1>4. pc' \in [Ops -> Phases] /\ pc'[i] = "probing" /\ \A j \in Ops : j # i => pc'[j] = pc[j]
    BY <1>0, <1>1 DEF CompactionTypeOK, Phases
  <1>5. \A v \in Waiters : v # i => (Waiting(v) => Waiting(v)') /\ (v \in Ops => pc'[v] = pc[v])
    BY <1>2, <1>4 DEF Waiting, Waiters
  <1>6. ~Waiting(i) /\ Waiting(i)'
    BY <1>1, <1>3, <1>4 DEF Waiting
  <1>7. inbox' \in Seq(Requests) /\ OneQuestion'
    BY <1>0, <1>1, <1>2, <1>3, <1>4, <1>5, <1>6, GoesOn
  <1>8. CompactionTypeOK'
    <2>1. overdue' \in BOOLEAN /\ watch' \in BOOLEAN
      BY <1>0, <1>2 DEF CompactionTypeOK
    <2>2. failures' \in 0..ProbeLimit /\ status' \in {"none", "starting", "running", "completed", "failed"}
      BY <1>2, LimitsAssumption
    <2> QED
      BY <1>0, <1>1, <1>2, <1>3, <1>4, <1>7, <2>1, <2>2 DEF CompactionTypeOK
  <1> QED
    BY <1>7, <1>8 DEF CompactionInv

Statuses == {"none", "starting", "running", "completed", "failed"}

\* An operation's await ends, and what it waits for next, if anything.
LEMMA OperationGoesOn ==
    ASSUME CompactionInv, NEW i \in Ops, answer[i] # "none", NEW phase \in Phases,
           answer' = [answer EXCEPT ![i] = "none"], pc' = [pc EXCEPT ![i] = phase],
           UNCHANGED <<checking, pipe, chunk, compacting>>,
           \/ inbox' = inbox
           \/ inbox' = Append(inbox, Compact(i))
           \/ inbox' = Append(inbox, Ask(i)) /\ phase \notin {"unused", "over", "compacting"},
           cur' \in 0..MaxOps, status' \in Statuses, overdue' \in BOOLEAN, watch' \in BOOLEAN,
           failures' \in 0..ProbeLimit
    PROVE  CompactionInv'
PROOF
  <1>0. CompactionTypeOK /\ OneQuestion
    BY DEF CompactionInv
  <1>1. i \in Waiters /\ i # Checker
    BY DEF Waiters, Checker, Ops
  <1>2. /\ answer' \in [Waiters -> Answers] /\ pc' \in [Ops -> Phases]
        /\ answer'[i] = "none" /\ \A v \in Waiters : v # i => answer'[v] = answer[v]
        /\ pc'[i] = phase /\ \A j \in Ops : j # i => pc'[j] = pc[j]
    BY <1>0, <1>1 DEF CompactionTypeOK, Answers
  <1>3. \A v \in Waiters : v # i => (Waiting(v) => Waiting(v)') /\ (v \in Ops => pc'[v] = pc[v])
    BY <1>2 DEF Waiting, Waiters
  <1>4. phase \notin {"unused", "over", "compacting"} => Waiting(i)' /\ pc'[i] # "compacting"
    BY <1>1, <1>2 DEF Waiting
  <1>5. inbox' \in Seq(Requests) /\ OneQuestion'
    BY <1>0, <1>1, <1>2, <1>3, <1>4, GoesOn
  <1>6. \A v \in Waiters : answer'[v] # "none" => Waiting(v)'
    BY <1>0, <1>2, <1>3 DEF CompactionTypeOK
  <1>7. CompactionTypeOK'
    BY <1>0, <1>2, <1>5, <1>6 DEF CompactionTypeOK, Statuses
  <1> QED
    BY <1>5, <1>7 DEF CompactionInv

\* The state of the thread is known: the operation dispatches, or is refused.
LEMMA StartProbedStep ==
    ASSUME CompactionInv, NEW i \in Ops, StartProbed(i)
    PROVE  CompactionInv'
PROOF
  <1>0. /\ cur \in 0..MaxOps /\ status \in Statuses /\ overdue \in BOOLEAN /\ watch \in BOOLEAN
        /\ failures \in 0..ProbeLimit
    BY DEF CompactionInv, CompactionTypeOK, Statuses
  <1>1. /\ answer[i] # "none" /\ answer' = [answer EXCEPT ![i] = "none"]
        /\ UNCHANGED <<checking, pipe, chunk, compacting>>
    BY DEF StartProbed, Resumes
  <1>2. CASE answer[i] = "idle"
    <2>1. /\ watch' \in BOOLEAN /\ pc' = [pc EXCEPT ![i] = "asking"] /\ inbox' = Append(inbox, Ask(i))
          /\ UNCHANGED <<cur, status, overdue, failures>>
      BY <1>2 DEF StartProbed
    <2> QED
      BY <1>0, <1>1, <2>1, OperationGoesOn DEF Phases
  <1>3. CASE answer[i] # "idle"
    <2>1. pc' = [pc EXCEPT ![i] = "over"] /\ inbox' = inbox
      BY <1>3 DEF StartProbed
    <2>2. overdue' \in BOOLEAN /\ watch' \in BOOLEAN
      BY <1>0, <1>3 DEF StartProbed
    <2>3. cur' \in 0..MaxOps /\ status' \in Statuses /\ failures' \in 0..ProbeLimit
      BY <1>0, <1>3, LimitsAssumption DEF StartProbed, Statuses
    <2> QED
      BY <1>1, <2>1, <2>2, <2>3, OperationGoesOn DEF Phases
  <1> QED
    BY <1>2, <1>3

\* A dispatch that failed asks for the state again, or is over.
LEMMA DispatchFailedGoesOn ==
    ASSUME NEW i \in Ops, NEW how \in {"lost", "refused"}, DispatchFailed(i, how)
    PROVE  \E phase \in Phases :
              /\ pc' = [pc EXCEPT ![i] = phase]
              /\ \/ inbox' = inbox
                 \/ inbox' = Append(inbox, Ask(i)) /\ phase \notin {"unused", "over", "compacting"}
PROOF
  <1>1. CASE cur = i
    BY <1>1 DEF DispatchFailed, Phases
  <1>2. CASE cur # i
    BY <1>2 DEF DispatchFailed, Phases
  <1> QED
    BY <1>1, <1>2

\* The dispatch puts one request before the Worker, or fails.
LEMMA DispatchCompactionStep ==
    ASSUME CompactionInv, NEW i \in Ops, DispatchCompaction(i)
    PROVE  CompactionInv'
PROOF
  <1>0. /\ cur' \in 0..MaxOps /\ status' \in Statuses /\ overdue' \in BOOLEAN /\ watch' \in BOOLEAN
        /\ failures' \in 0..ProbeLimit
    BY DEF CompactionInv, CompactionTypeOK, Statuses, DispatchCompaction, operation
  <1>1. /\ answer[i] # "none" /\ answer' = [answer EXCEPT ![i] = "none"]
        /\ UNCHANGED <<checking, pipe, chunk, compacting>>
    BY DEF DispatchCompaction, Resumes
  <1>2. CASE pc' = [pc EXCEPT ![i] = "compacting"] /\ inbox' = Append(inbox, Compact(i))
    BY <1>0, <1>1, <1>2, OperationGoesOn DEF Phases
  <1>3. CASE \E how \in {"lost", "refused"} : DispatchFailed(i, how)
    BY <1>0, <1>1, <1>3, DispatchFailedGoesOn, OperationGoesOn
  <1> QED
    BY <1>2, <1>3 DEF DispatchCompaction

\* The reply to the dispatch ends its await.
LEMMA RepliedStep ==
    ASSUME CompactionInv, NEW i \in Ops, Replied(i)
    PROVE  CompactionInv'
PROOF
  <1>0. CompactionTypeOK
    BY DEF CompactionInv
  <1>1. /\ answer[i] # "none" /\ answer' = [answer EXCEPT ![i] = "none"]
        /\ UNCHANGED <<checking, pipe, chunk, compacting>>
    BY DEF Replied, Resumes
  <1>2. Settle(i, "completed") \/ UNCHANGED <<status, watch>>
    BY DEF Replied
  <1>3. overdue' \in BOOLEAN /\ watch' \in BOOLEAN
    BY <1>0, <1>2, SettleType DEF CompactionTypeOK, Replied
  <1>4. cur' \in 0..MaxOps /\ status' \in Statuses /\ failures' \in 0..ProbeLimit
    BY <1>0, <1>2, SettleType DEF CompactionTypeOK, Replied, Statuses
  <1>5. CASE pc' = [pc EXCEPT ![i] = "over"] /\ inbox' = inbox
    BY <1>1, <1>3, <1>4, <1>5, OperationGoesOn DEF Phases
  <1>6. CASE \E how \in {"lost", "refused"} : DispatchFailed(i, how)
    BY <1>1, <1>3, <1>4, <1>6, DispatchFailedGoesOn, OperationGoesOn
  <1> QED
    BY <1>5, <1>6 DEF Replied

\* The state after a failed dispatch settles the operation, or leaves it to the watchdog.
LEMMA FailureProbedStep ==
    ASSUME CompactionInv, NEW i \in Ops, FailureProbed(i)
    PROVE  CompactionInv'
PROOF
  <1>0. CompactionTypeOK
    BY DEF CompactionInv
  <1>1. /\ answer[i] # "none" /\ answer' = [answer EXCEPT ![i] = "none"]
        /\ pc' = [pc EXCEPT ![i] = "over"]
        /\ UNCHANGED <<checking, pipe, inbox, chunk, compacting>>
    BY DEF FailureProbed, Resumes, pi
  <1>2. \/ Settle(i, "failed") \/ UNCHANGED <<status, watch>>
        \/ status' = "running" /\ UNCHANGED watch
    BY DEF FailureProbed
  <1>3. overdue' \in BOOLEAN /\ watch' \in BOOLEAN
    BY <1>0, <1>2, SettleType DEF CompactionTypeOK, FailureProbed
  <1>4. cur' \in 0..MaxOps /\ status' \in Statuses /\ failures' \in 0..ProbeLimit
    BY <1>0, <1>2, SettleType DEF CompactionTypeOK, FailureProbed, Statuses
  <1> QED
    BY <1>1, <1>3, <1>4, OperationGoesOn DEF Phases

\* A check of the watchdog goes on with the answer it waited for.
LEMMA CheckStep == CompactionInv /\ Check => CompactionInv'
PROOF
  <1> SUFFICES ASSUME CompactionInv, Check PROVE CompactionInv'
    OBVIOUS
  <1>0. CompactionTypeOK /\ OneQuestion
    BY DEF CompactionInv
  <1>1. /\ Checker \in Waiters /\ Checker \notin Ops
        /\ answer[Checker] # "none" /\ answer' = [answer EXCEPT ![Checker] = "none"]
        /\ checking' = 0 /\ UNCHANGED <<cur, overdue, pc, inbox, pipe, compacting, chunk>>
    BY DEF Check, Resumes, Waiters, Checker, Ops, pi
  <1>2. /\ answer' \in [Waiters -> Answers] /\ answer'[Checker] = "none"
        /\ \A v \in Waiters : v # Checker => answer'[v] = answer[v]
    BY <1>0, <1>1 DEF CompactionTypeOK, Answers
  <1>3. \A v \in Waiters : v # Checker => (Waiting(v) => Waiting(v)')
    BY <1>1 DEF Waiting
  <1>4. OneQuestion'
    BY <1>0, <1>1, <1>2, <1>3, GoesOn
  <1>5. \/ Settle(cur, "failed") \/ UNCHANGED <<status, watch>>
        \/ status' = "running" /\ UNCHANGED watch
    BY DEF Check
  <1>6. overdue' \in BOOLEAN /\ watch' \in BOOLEAN
    BY <1>0, <1>1, <1>5, SettleType DEF CompactionTypeOK
  <1>7. status' \in Statuses
    BY <1>0, <1>5, SettleType DEF CompactionTypeOK, Statuses
  <1>8. failures' \in 0..ProbeLimit
    BY <1>0, LimitsAssumption DEF CompactionTypeOK, Check
  <1>9. \A v \in Waiters : answer'[v] # "none" => Waiting(v)'
    BY <1>0, <1>2, <1>3 DEF CompactionTypeOK
  <1>10. CompactionTypeOK'
    BY <1>0, <1>1, <1>2, <1>6, <1>7, <1>8, <1>9, LimitsAssumption DEF CompactionTypeOK, Statuses
  <1> QED
    BY <1>4, <1>10 DEF CompactionInv

\* The watchdog asks only when no check is in flight.
LEMMA TickStep == CompactionInv /\ Tick => CompactionInv'
PROOF
  <1> SUFFICES ASSUME CompactionInv, Tick PROVE CompactionInv'
    OBVIOUS
  <1>0. CompactionTypeOK /\ OneQuestion
    BY DEF CompactionInv
  <1>1. /\ Checker \in Waiters /\ Checker \notin Ops
        /\ answer[Checker] = "none" /\ UNCHANGED <<answer, pc, pipe, chunk, compacting>>
        /\ UNCHANGED operation
        /\ checking = 0 /\ checking' = cur /\ cur # 0 /\ inbox' = Append(inbox, Ask(Checker))
    BY DEF Tick, Quiet, Waiters, Checker, Ops, Active
  <1>2. ~Waiting(Checker) /\ Waiting(Checker)'
    BY <1>1 DEF Waiting
  <1>3. \A v \in Waiters : v # Checker => (Waiting(v) => Waiting(v)')
    BY <1>1 DEF Waiting
  <1>4. inbox' \in Seq(Requests) /\ OneQuestion'
    BY <1>0, <1>1, <1>2, <1>3, GoesOn
  <1>5. \A v \in Waiters : answer'[v] # "none" => Waiting(v)'
    BY <1>0, <1>1, <1>3 DEF CompactionTypeOK
  <1>6. CompactionTypeOK'
    BY <1>0, <1>1, <1>4, <1>5 DEF CompactionTypeOK, operation
  <1> QED
    BY <1>4, <1>6 DEF CompactionInv

\* The deadline settles the operation; the awaits under way go on.
LEMMA DeadlineStep == CompactionInv /\ Deadline => CompactionInv'
PROOF
  <1> SUFFICES ASSUME CompactionInv, Deadline PROVE CompactionInv'
    OBVIOUS
  <1>0. CompactionTypeOK /\ OneQuestion
    BY DEF CompactionInv
  <1>1. OneQuestion'
    BY <1>0, QuestionsLeftAlone DEF Deadline, waits, pi
  <1>2. overdue' \in BOOLEAN
    BY DEF Deadline
  <1>3. CompactionTypeOK'
    BY <1>0, <1>2 DEF CompactionTypeOK, Deadline, waits, pi, Waiting
  <1> QED
    BY <1>1, <1>3 DEF CompactionInv

\* A chunk that is read leaves the wire for the lines due, in its order.
LEMMA ReadStep == CompactionInv /\ Read => CompactionInv'
PROOF
  <1> SUFFICES ASSUME CompactionInv, Read PROVE CompactionInv'
    OBVIOUS
  <1>0. CompactionTypeOK /\ OneQuestion
    BY DEF CompactionInv
  <1>1. OneQuestion'
    BY <1>0, QuestionsLeftAlone DEF Read, waits, pi
  <1>2. chunk' \in 0..Len(pipe)
    BY <1>0 DEF Read, CompactionTypeOK
  <1>3. CompactionTypeOK'
    BY <1>0, <1>2 DEF CompactionTypeOK, Read, operation, waits, pi, Waiting
  <1> QED
    BY <1>1, <1>3 DEF CompactionInv

\* The requests and the lines, by their kind.
LEMMA RequestsAre ==
    ASSUME NEW r \in Requests
    PROVE  \/ r.kind = "state" /\ r.who \in Waiters /\ r = Ask(r.who)
           \/ r.kind = "compact" /\ r.who \in Ops /\ \A w \in Waiters : r \notin {Ask(w)}
PROOF
  <1>1. CASE \E w \in Waiters : r = Ask(w)
    BY <1>1 DEF Ask
  <1>2. CASE \E i \in Ops : r = Compact(i)
    <2>1. r.kind = "compact" /\ r.who \in Ops
      BY <1>2 DEF Compact
    <2> QED
      BY <1>2, <2>1, KindsOfLines DEF Waiters
  <1> QED
    BY <1>1, <1>2 DEF Requests

\* Every line is an answer about the state, to the compaction, or an event.
LEMMA LinesAre ==
    ASSUME NEW line \in Lines
    PROVE  /\ line.kind = "state" =>
                 /\ line.who \in Waiters /\ line \in StateLines(line.who)
                 /\ \A w \in Waiters : w # line.who => line \notin StateLines(w)
           /\ line.kind = "reply" => line.who \in Ops
           /\ line.kind # "state" => \A w \in Waiters : line \notin StateLines(w)
PROOF
  <1>1. CASE \E w \in Waiters, busy \in BOOLEAN : line = State(w, busy)
    <2>1. PICK w \in Waiters, busy \in BOOLEAN : line = State(w, busy)
      BY <1>1
    <2>2. line.kind = "state" /\ line.who = w
      BY <2>1 DEF State
    <2> QED
      BY <2>1, <2>2, KindsOfLines
  <1>2. CASE \E i \in Ops, ok \in BOOLEAN : line = Reply(i, ok)
    <2>1. line.kind = "reply" /\ line.who \in Ops
      BY <1>2 DEF Reply
    <2> QED
      BY <1>2, <2>1, KindsOfLines
  <1>3. CASE line = Started \/ \E ok \in BOOLEAN : line = Ended(ok)
    <2>1. line.kind \in {"started", "ended"}
      BY <1>3 DEF Started, Ended
    <2> QED
      BY <1>3, <2>1, KindsOfLines
  <1> QED
    <2>1. line \in States \/ line \in Replies \/ line \in Events
      BY DEF Lines
    <2>2. line \in States => \E w \in Waiters, busy \in BOOLEAN : line = State(w, busy)
      BY DEF States, StateLines
    <2>3. line \in Replies => \E i \in Ops, ok \in BOOLEAN : line = Reply(i, ok)
      BY DEF Replies
    <2>4. line \in Events => line = Started \/ \E ok \in BOOLEAN : line = Ended(ok)
      BY DEF Events
    <2> QED
      BY <1>1, <1>2, <1>3, <2>1, <2>2, <2>3, <2>4

\* The lines the Worker writes are lines.
LEMMA LinesInclude ==
    /\ \A w \in Waiters, busy \in BOOLEAN : State(w, busy) \in StateLines(w) \cap Lines
    /\ \A i \in Ops, ok \in BOOLEAN : Reply(i, ok) \in Lines
    /\ Started \in Lines /\ \A ok \in BOOLEAN : Ended(ok) \in Lines
PROOF
  <1>1. \A w \in Waiters, busy \in BOOLEAN : State(w, busy) \in StateLines(w)
    BY DEF StateLines
  <1>2. \A w \in Waiters, busy \in BOOLEAN : State(w, busy) \in States
    BY <1>1 DEF States
  <1>3. \A i \in Ops, ok \in BOOLEAN : Reply(i, ok) \in Replies
    BY DEF Replies
  <1>4. Started \in Events /\ \A ok \in BOOLEAN : Ended(ok) \in Events
    BY DEF Events
  <1> QED
    BY <1>1, <1>2, <1>3, <1>4 DEF Lines

\* The Worker takes a request: the question becomes its answer, once.
LEMMA PiTakesStep == CompactionInv /\ PiTakes => CompactionInv'
PROOF
  <1> SUFFICES ASSUME CompactionInv, PiTakes PROVE CompactionInv'
    OBVIOUS
  <1>0. CompactionTypeOK /\ OneQuestion
    BY DEF CompactionInv
  <1> DEFINE request == Head(inbox)
  <1>1. /\ inbox \in Seq(Requests) /\ inbox # <<>> /\ inbox' = Tail(inbox)
        /\ pipe \in Seq(Lines) /\ request \in Requests
        /\ UNCHANGED operation /\ UNCHANGED waits /\ chunk' = chunk
    BY <1>0, TailPlaces DEF CompactionTypeOK, PiTakes
  <1>2. \E line \in Lines :
           /\ pipe' = Append(pipe, line)
           /\ compacting' \in 0..MaxOps
           /\ \/ request.kind = "state" /\ line \in StateLines(request.who)
                 /\ \A w \in Waiters : w # request.who => line \notin StateLines(w)
              \/ request.kind = "compact" /\ \A w \in Waiters : line \notin StateLines(w)
    <2>1. CASE request.kind = "state"
      <3> DEFINE line == State(request.who, compacting # 0)
      <3>1. request.who \in Waiters /\ (compacting # 0) \in BOOLEAN
        BY <1>1, <2>1, RequestsAre
      <3>2. line \in StateLines(request.who) /\ line \in Lines
        BY <3>1, LinesInclude
      <3>3. \A w \in Waiters : w # request.who => line \notin StateLines(w)
        BY <3>1, KindsOfLines
      <3>4. pipe' = Append(pipe, line) /\ compacting' = compacting
        BY <2>1 DEF PiTakes
      <3>5. compacting' \in 0..MaxOps
        BY <1>0, <3>4 DEF CompactionTypeOK
      <3> HIDE DEF line, request
      <3> QED
        BY <2>1, <3>2, <3>3, <3>4, <3>5
    <2>2. CASE request.kind = "compact" /\ compacting = 0
      <3>1. request.who \in Ops /\ Started \in Lines
        BY <1>1, <2>2, RequestsAre, LinesInclude
      <3>2. pipe' = Append(pipe, Started) /\ compacting' = request.who
        BY <2>2 DEF PiTakes
      <3> QED
        BY <2>2, <3>1, <3>2, KindsOfLines, LimitsAssumption DEF Ops
    <2>3. CASE request.kind = "compact" /\ compacting # 0
      <3>1. request.who \in Ops /\ Reply(request.who, FALSE) \in Lines
        BY <1>1, <2>3, RequestsAre, LinesInclude
      <3> DEFINE line == Reply(request.who, FALSE)
      <3>2. pipe' = Append(pipe, line) /\ compacting' = compacting
        BY <2>3 DEF PiTakes
      <3>3. compacting' \in 0..MaxOps
        BY <1>0, <3>2 DEF CompactionTypeOK
      <3>4. line \in Lines /\ \A w \in Waiters : line \notin StateLines(w)
        BY <3>1, KindsOfLines
      <3> HIDE DEF line, request
      <3> QED
        BY <2>3, <3>2, <3>3, <3>4
    <2> QED
      BY <1>1, <2>1, <2>2, <2>3, RequestsAre
  <1>3. PICK line \in Lines :
           /\ pipe' = Append(pipe, line)
           /\ compacting' \in 0..MaxOps
           /\ \/ request.kind = "state" /\ line \in StateLines(request.who)
                 /\ \A w \in Waiters : w # request.who => line \notin StateLines(w)
              \/ request.kind = "compact" /\ \A w \in Waiters : line \notin StateLines(w)
    BY <1>2
  <1>4. \/ request.kind = "state" /\ request.who \in Waiters /\ request = Ask(request.who)
        \/ request.kind = "compact" /\ \A w \in Waiters : request \notin {Ask(w)}
    BY <1>1, RequestsAre
  <1>tail. \A K : /\ Places(inbox, K) = {} => Places(inbox', K) = {}
                  /\ AtMostOne(Places(inbox, K)) => AtMostOne(Places(inbox', K))
                  /\ request \in K => Places(inbox, K) # {}
                  /\ request \in K /\ AtMostOne(Places(inbox, K)) => Places(inbox', K) = {}
    BY <1>1, TailPlaces
  <1>append. \A K : /\ line \notin K => Places(pipe', K) = Places(pipe, K)
                    /\ Places(pipe, K) = {} => AtMostOne(Places(pipe', K))
    BY <1>1, <1>3, AppendPlaces
  <1>5. ASSUME NEW w \in Waiters
        PROVE  /\ AtMostOne(Places(inbox', {Ask(w)})) /\ AtMostOne(Places(pipe', StateLines(w)))
               /\ Places(inbox', {Ask(w)}) = {} \/ Places(pipe', StateLines(w)) = {}
               /\ Places(inbox', {Ask(w)}) # {} \/ Places(pipe', StateLines(w)) # {} =>
                     Places(inbox, {Ask(w)}) # {} \/ Places(pipe, StateLines(w)) # {}
    <2>1. /\ AtMostOne(Places(inbox, {Ask(w)})) /\ AtMostOne(Places(pipe, StateLines(w)))
          /\ Places(inbox, {Ask(w)}) = {} \/ Places(pipe, StateLines(w)) = {}
      BY <1>0 DEF OneQuestion
    <2> HIDE DEF request
    <2>2. CASE request.kind = "state" /\ request.who = w
      <3>1. request \in {Ask(w)}
        BY <1>4, <2>2
      <3> QED
        BY <2>1, <3>1, <1>tail, <1>append
    <2>3. CASE ~(request.kind = "state" /\ request.who = w)
      <3>1. line \notin StateLines(w)
        BY <1>3, <2>3
      <3> QED
        BY <2>1, <3>1, <1>tail, <1>append
    <2> QED
      BY <2>2, <2>3
  <1>6. OneQuestion'
    BY <1>0, <1>1, <1>5 DEF OneQuestion, waits, Waiting
  <1>7. pipe' \in Seq(Lines) /\ inbox' \in Seq(Requests) /\ chunk' \in 0..Len(pipe')
    BY <1>0, <1>1, <1>3 DEF CompactionTypeOK
  <1>8. CompactionTypeOK'
    BY <1>0, <1>1, <1>3, <1>7 DEF CompactionTypeOK, operation, waits, Waiting
  <1> QED
    BY <1>6, <1>8 DEF CompactionInv

\* The compaction ends: its reply and its event follow what was written before.
LEMMA PiFinishesStep == CompactionInv /\ PiFinishes => CompactionInv'
PROOF
  <1> SUFFICES ASSUME CompactionInv, PiFinishes PROVE CompactionInv'
    OBVIOUS
  <1>0. CompactionTypeOK /\ OneQuestion
    BY DEF CompactionInv
  <1>1. compacting \in Ops /\ pipe \in Seq(Lines)
    BY <1>0, LimitsAssumption DEF CompactionTypeOK, PiFinishes, Ops
  <1>2. PICK ok \in BOOLEAN : pipe' = pipe \o <<Ended(ok), Reply(compacting, ok)>>
    BY DEF PiFinishes
  <1> DEFINE ended == Ended(ok)
             reply == Reply(compacting, ok)
  <1>3. /\ ended \in Lines /\ reply \in Lines
        /\ \A w \in Waiters : ended \notin StateLines(w) /\ reply \notin StateLines(w)
    BY <1>1, LinesInclude, KindsOfLines
  <1> HIDE DEF ended, reply
  <1> DEFINE between == Append(pipe, ended)
  <1>4. pipe' = Append(between, reply) /\ between \in Seq(Lines) /\ Len(between) = Len(pipe) + 1
        /\ \A w \in Waiters : Places(between, StateLines(w)) = Places(pipe, StateLines(w))
    BY <1>1, <1>2, <1>3, AppendPlaces DEF ended, reply
  <1> HIDE DEF between
  <1>5. /\ pipe' \in Seq(Lines) /\ Len(pipe') >= Len(pipe)
        /\ \A w \in Waiters : Places(pipe', StateLines(w)) = Places(pipe, StateLines(w))
    BY <1>1, <1>3, <1>4, AppendPlaces
  <1>6. UNCHANGED waits /\ UNCHANGED operation /\ inbox' = inbox /\ chunk' = chunk /\ compacting' = 0
    BY DEF PiFinishes
  <1>7. OneQuestion'
    BY <1>0, <1>5, <1>6 DEF OneQuestion, waits, Waiting
  <1>8. chunk' \in 0..Len(pipe')
    BY <1>0, <1>1, <1>5, <1>6 DEF CompactionTypeOK
  <1>9. CompactionTypeOK'
    BY <1>0, <1>5, <1>6, <1>8, LimitsAssumption DEF CompactionTypeOK, operation, waits, Waiting
  <1> QED
    BY <1>7, <1>9 DEF CompactionInv

\* A line is handled: an answer ends the await it is for, if that is there still.
LEMMA LineStep == CompactionInv /\ Line => CompactionInv'
PROOF
  <1> SUFFICES ASSUME CompactionInv, Line PROVE CompactionInv'
    OBVIOUS
  <1>0. CompactionTypeOK /\ OneQuestion
    BY DEF CompactionInv
  <1> DEFINE line == Head(pipe)
  <1>1. /\ pipe \in Seq(Lines) /\ pipe # <<>> /\ pipe' = Tail(pipe)
        /\ chunk' = chunk - 1 /\ chunk \in 1..Len(pipe)
        /\ UNCHANGED <<cur, overdue, failures, pc, checking, inbox, compacting>>
    BY <1>0 DEF CompactionTypeOK, Line
  <1>2. /\ line \in Lines /\ pipe' \in Seq(Lines) /\ Len(pipe') = Len(pipe) - 1
        /\ \A K : /\ Places(pipe, K) = {} => Places(pipe', K) = {}
                  /\ AtMostOne(Places(pipe, K)) => AtMostOne(Places(pipe', K))
                  /\ line \in K => Places(pipe, K) # {}
                  /\ line \in K /\ AtMostOne(Places(pipe, K)) => Places(pipe', K) = {}
    BY <1>1, TailPlaces
  <1>3. Len(pipe) \in Nat /\ chunk' \in 0..Len(pipe')
    BY <1>1, <1>2
  <1>4. status' \in Statuses /\ watch' \in BOOLEAN
    <2>1. CASE UNCHANGED <<status, watch>>
      BY <1>0, <2>1 DEF CompactionTypeOK, Statuses
    <2>2. CASE HandleEvent(line)
      <3>1. \/ \E result \in {"completed", "failed"} : Settle(cur, result)
            \/ UNCHANGED <<status, watch>>
            \/ status' = "running" /\ UNCHANGED watch
        BY <2>2 DEF HandleEvent
      <3> QED
        BY <1>0, <3>1, SettleType DEF CompactionTypeOK, Statuses
    <2> QED
      BY <2>1, <2>2 DEF Line
  <1>5. \/ /\ line.kind = "state"
           /\ \E result \in Answers \ {"none"} : answer' = [answer EXCEPT ![line.who] = result]
        \/ /\ line.kind = "reply" /\ pc[line.who] = "compacting"
           /\ \E result \in Answers \ {"none"} : answer' = [answer EXCEPT ![line.who] = result]
        \/ line.kind # "state" /\ answer' = answer
    BY DEF Line, Answers
  <1>6. /\ line.kind = "state" =>
              /\ line.who \in Waiters /\ line \in StateLines(line.who)
              /\ \A w \in Waiters : w # line.who => line \notin StateLines(w)
        /\ line.kind = "reply" => line.who \in Ops
        /\ line.kind # "state" => \A w \in Waiters : line \notin StateLines(w)
    BY <1>2, LinesAre
  <1> HIDE DEF line
  <1>7. \A w \in Waiters : Waiting(w)' <=> Waiting(w)
    BY <1>1 DEF Waiting
  <1>8. Ops \subseteq Waiters /\ Checker \notin Ops
    BY DEF Ops, Checker, Waiters
  <1>9. CASE answer' = answer /\ line.kind # "state"
    <2>1. OneQuestion'
      BY <1>0, <1>1, <1>2, <1>7, <1>9 DEF OneQuestion
    <2>2. CompactionTypeOK'
      BY <1>0, <1>1, <1>2, <1>3, <1>4, <1>7, <1>9 DEF CompactionTypeOK, Statuses
    <2> QED
      BY <2>1, <2>2 DEF CompactionInv
  <1>10. ASSUME NEW result \in Answers \ {"none"}, answer' = [answer EXCEPT ![line.who] = result],
                \/ line.kind = "state"
                \/ line.kind = "reply" /\ pc[line.who] = "compacting"
         PROVE  CompactionInv'
    <2> DEFINE w == line.who
    <2>1. w \in Waiters /\ answer' \in [Waiters -> Answers]
          /\ \A v \in Waiters : answer'[v] = IF v = w THEN result ELSE answer[v]
      BY <1>0, <1>6, <1>8, <1>10 DEF CompactionTypeOK
    <2>2. Places(inbox, {Ask(w)}) = {} /\ Places(pipe', StateLines(w)) = {} /\ Waiting(w)
      <3>1. CASE line.kind = "state"
        <4>1. /\ w \in Waiters /\ line \in StateLines(w) /\ AtMostOne(Places(pipe, StateLines(w)))
              /\ Places(inbox, {Ask(w)}) = {} \/ Places(pipe, StateLines(w)) = {}
              /\ Places(pipe, StateLines(w)) # {} => Waiting(w)
          BY <1>0, <1>6, <3>1 DEF OneQuestion
        <4> QED
          BY <1>2, <4>1
      <3>2. CASE line.kind = "reply" /\ pc[w] = "compacting"
        <4>1. w \in Ops /\ w \in Waiters /\ Waiting(w)
          BY <1>6, <1>8, <3>2 DEF Waiting
        <4>2. Places(inbox, {Ask(w)}) = {} /\ Places(pipe, StateLines(w)) = {}
          BY <1>0, <3>2, <4>1, NoQuestion
        <4> QED
          BY <1>2, <4>1, <4>2
      <3> QED
        BY <1>10, <3>1, <3>2
    <2> HIDE DEF w
    <2>3. ASSUME NEW v \in Waiters
          PROVE  /\ AtMostOne(Places(inbox', {Ask(v)})) /\ AtMostOne(Places(pipe', StateLines(v)))
                 /\ Places(inbox', {Ask(v)}) = {} \/ Places(pipe', StateLines(v)) = {}
                 /\ Places(inbox', {Ask(v)}) # {} \/ Places(pipe', StateLines(v)) # {} =>
                       Waiting(v)' /\ answer'[v] = "none" /\ (v \in Ops => pc'[v] # "compacting")
      <3>1. CASE v = w
        BY <1>1, <2>2, <3>1 DEF AtMostOne
      <3>2. CASE v # w
        <4>1. answer'[v] = answer[v] /\ (Waiting(v)' <=> Waiting(v))
          BY <1>7, <2>1, <3>2
        <4> QED
          BY <1>0, <1>1, <1>2, <4>1 DEF OneQuestion
      <3> QED
        BY <3>1, <3>2
    <2>4. OneQuestion'
      BY <2>3 DEF OneQuestion
    <2>5. \A v \in Waiters : answer'[v] # "none" => Waiting(v)'
      BY <1>0, <1>7, <2>1, <2>2 DEF CompactionTypeOK
    <2>6. CompactionTypeOK'
      BY <1>0, <1>1, <1>2, <1>3, <1>4, <2>1, <2>5 DEF CompactionTypeOK, Statuses
    <2> QED
      BY <2>4, <2>6 DEF CompactionInv
  <1> QED
    BY <1>5, <1>9, <1>10

\* A Worker that dies takes its requests with it.
LEMMA PiDiesStep == CompactionInv /\ PiDies => CompactionInv'
PROOF
  <1> SUFFICES ASSUME CompactionInv, PiDies PROVE CompactionInv'
    OBVIOUS
  <1>0. CompactionTypeOK /\ OneQuestion
    BY DEF CompactionInv
  <1>1. /\ inbox' = <<>> /\ pipe' = <<>> /\ compacting' = 0 /\ chunk = 0
        /\ UNCHANGED operation /\ UNCHANGED <<pc, checking, chunk>>
        /\ answer' = [w \in Waiters |-> IF Waiting(w) THEN "error" ELSE "none"]
    BY DEF PiDies, Quiet
  <1>2. \A K : Places(inbox', K) = {} /\ Places(pipe', K) = {}
    BY <1>1 DEF Places
  <1>3. OneQuestion'
    BY <1>2 DEF OneQuestion, AtMostOne
  <1>4. \A w \in Waiters : Waiting(w)' <=> Waiting(w)
    BY <1>1 DEF Waiting
  <1>5. /\ answer' \in [Waiters -> Answers]
        /\ \A w \in Waiters : answer'[w] # "none" => Waiting(w)'
    BY <1>1, <1>4 DEF Answers
  <1>6. CompactionTypeOK'
    BY <1>0, <1>1, <1>5, LimitsAssumption DEF CompactionTypeOK, operation
  <1> QED
    BY <1>3, <1>6 DEF CompactionInv

\* A request that times out ends its await; its answer, if it comes, is for nobody.
LEMMA TimesOutStep ==
    ASSUME CompactionInv, NEW w \in Waiters, TimesOut(w)
    PROVE  CompactionInv'
PROOF
  <1>0. CompactionTypeOK /\ OneQuestion
    BY DEF CompactionInv
  <1>1. /\ inbox \in Seq(Requests) /\ pipe \in Seq(Lines) /\ Waiting(w) /\ chunk = 0
        /\ inbox' = Without(inbox, {Ask(w)}) /\ pipe' = Without(pipe, StateLines(w))
        /\ answer' = [answer EXCEPT ![w] = "error"]
        /\ UNCHANGED operation /\ UNCHANGED <<pc, checking, chunk, compacting>>
    BY <1>0 DEF TimesOut, Quiet, CompactionTypeOK
  <1>2. AtMostOne(Places(inbox, {Ask(w)})) /\ AtMostOne(Places(pipe, StateLines(w)))
    BY <1>0 DEF OneQuestion
  <1>3. /\ inbox' \in Seq(Requests) /\ Places(inbox', {Ask(w)}) = {}
        /\ \A K : /\ AtMostOne(Places(inbox, K)) => AtMostOne(Places(inbox', K))
                  /\ Places(inbox, K) = {} => Places(inbox', K) = {}
    BY <1>1, <1>2, WithoutPlaces
  <1>4. /\ pipe' \in Seq(Lines) /\ Places(pipe', StateLines(w)) = {}
        /\ \A K : /\ AtMostOne(Places(pipe, K)) => AtMostOne(Places(pipe', K))
                  /\ Places(pipe, K) = {} => Places(pipe', K) = {}
    BY <1>1, <1>2, WithoutPlaces
  <1>5. /\ answer' \in [Waiters -> Answers]
        /\ \A v \in Waiters : answer'[v] = IF v = w THEN "error" ELSE answer[v]
    BY <1>0, <1>1 DEF CompactionTypeOK, Answers
  <1>6. \A v \in Waiters : Waiting(v)' <=> Waiting(v)
    BY <1>1 DEF Waiting
  <1>7. ASSUME NEW v \in Waiters
        PROVE  /\ AtMostOne(Places(inbox', {Ask(v)})) /\ AtMostOne(Places(pipe', StateLines(v)))
               /\ Places(inbox', {Ask(v)}) = {} \/ Places(pipe', StateLines(v)) = {}
               /\ Places(inbox', {Ask(v)}) # {} \/ Places(pipe', StateLines(v)) # {} =>
                     Waiting(v)' /\ answer'[v] = "none" /\ (v \in Ops => pc'[v] # "compacting")
    <2>1. CASE v = w
      BY <1>3, <1>4, <2>1 DEF AtMostOne
    <2>2. CASE v # w
      BY <1>0, <1>1, <1>3, <1>4, <1>5, <1>6, <2>2 DEF OneQuestion
    <2> QED
      BY <2>1, <2>2
  <1>8. OneQuestion'
    BY <1>7 DEF OneQuestion
  <1>9. \A v \in Waiters : answer'[v] # "none" => Waiting(v)'
    BY <1>0, <1>1, <1>5, <1>6 DEF CompactionTypeOK
  <1>10. CompactionTypeOK'
    BY <1>0, <1>1, <1>3, <1>4, <1>5, <1>9 DEF CompactionTypeOK, operation
  <1> QED
    BY <1>8, <1>10 DEF CompactionInv

\* Every step of the supervisor, of the Worker, and between them preserves the invariant.
LEMMA CompactionStep == CompactionInv /\ [CompactionNext]_compactionVars => CompactionInv'
PROOF
  <1> SUFFICES ASSUME CompactionInv, [CompactionNext]_compactionVars PROVE CompactionInv'
    OBVIOUS
  <1>1. CASE Awaits
    BY <1>1, StartProbedStep, DispatchCompactionStep, RepliedStep, FailureProbedStep, CheckStep
       DEF Awaits
  <1>2. CASE Start \/ Tick \/ Deadline \/ Read \/ Line
    BY <1>2, StartStep, TickStep, DeadlineStep, ReadStep, LineStep
  <1>3. CASE PiTakes \/ PiFinishes \/ PiDies
    BY <1>3, PiTakesStep, PiFinishesStep, PiDiesStep
  <1>4. CASE \E w \in Waiters : TimesOut(w)
    BY <1>4, TimesOutStep
  <1>5. CASE UNCHANGED compactionVars
    BY <1>5 DEF compactionVars, operation, waits, pi, CompactionInv, CompactionTypeOK, OneQuestion,
       Waiting
  <1> QED
    BY <1>1, <1>2, <1>3, <1>4, <1>5 DEF CompactionNext

\* An answer of the Worker, late, lost or in order, resolves only an await that is
\* there: for any number of compactions, time-outs and deaths of the Worker.
THEOREM AnswersFindTheirAwait == CompactionSpec => []CompactionTypeOK
PROOF
  <1>1. CompactionInv => CompactionTypeOK
    BY DEF CompactionInv
  <1> QED
    BY <1>1, CompactionInitInv, CompactionStep, PTL DEF CompactionSpec

-----------------------------------------------------------------------------
(* The composition that TLC runs.                                          *)

ServicesInv == LeaseInv /\ MemoryInv /\ CompactionInv

\* A step of the composition is a step of one service, or of none.
LEMMA StepOfAService ==
    [Next]_servicesVars =>
        [LeaseNext]_leaseVars /\ [MemNext]_memVars /\ [CompactionNext]_compactionVars
  BY DEF Next, Only, servicesVars

\* Every service keeps its invariant while one of them runs.
LEMMA ServicesInvariant == Spec => []ServicesInv
PROOF
  <1>1. Init => ServicesInv
    BY LeaseInitInv, MemoryInitInv, CompactionInitInv DEF Init, ServicesInv
  <1>2. ServicesInv /\ [Next]_servicesVars => ServicesInv'
    BY StepOfAService, LeaseStep, MemoryStep, CompactionStep DEF ServicesInv
  <1> QED
    BY <1>1, <1>2, PTL DEF Spec

\* The state of every service stays in its type.
THEOREM ServicesKeepTypes == Spec => []ServicesTypeOK
PROOF
  <1>1. ServicesInv => ServicesTypeOK
    BY LeaseInvImplies DEF ServicesInv, ServicesTypeOK, MemoryInv, CompactionInv
  <1> QED
    BY <1>1, ServicesInvariant, PTL

\* In the specification that the run checks, what is deleted is gone.
COROLLARY ServicesDelete == Spec => []DeletedIsGone
PROOF
  <1>1. ServicesInv => DeletedIsGone
    BY LeaseInvImplies DEF ServicesInv
  <1> QED
    BY <1>1, ServicesInvariant, PTL

\* In the specification that the run checks, project memory is what was ruled in.
COROLLARY ServicesRemember == Spec => ProjectMemoryIsVerdicts
PROOF
  <1>1. ServicesInv => HoldsVerdicts
    BY DEF ServicesInv, MemoryInv
  <1>2. ServicesInv /\ [Next]_servicesVars => [VerdictsStand]_memVars
    BY StepOfAService, VerdictsStep DEF ServicesInv
  <1> QED
    BY <1>1, <1>2, ServicesInvariant, PTL DEF Spec, ProjectMemoryIsVerdicts
=============================================================================
