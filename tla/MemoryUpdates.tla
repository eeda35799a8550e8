--------------------------- MODULE MemoryUpdates ---------------------------
(* Butler's memory pipeline: what a job reports becomes project memory.      *)
(*                                                                           *)
(*   - MemoryUpdateScheduler (memory-update-scheduler.ts) records an         *)
(*     observation of every event, queues a model's synthesis of it, and     *)
(*     works the queue one entry at a time;                                  *)
(*   - CodexExecMemoryReviewService (memory-review.ts) has a model review    *)
(*     each Worker report; a report updated meanwhile waits its turn;        *)
(*   - CodexExecMemoryPromotionService (memory-promotion.ts) has a model     *)
(*     rule on the candidates both propose, which the operator may also do;  *)
(*   - the store (state-store-memory.ts, state-store-memory-graph.ts) holds  *)
(*     queue, notes, candidates and project memory, under caps that drop the *)
(*     oldest; it is taken to be saved by the time Butler dies;              *)
(*   - the Worker proposes candidates of its own (codex-harness-memory.ts),  *)
(*     the operator deletes entries of job and project (index.ts).           *)
(*                                                                           *)
(* One job with one turn.  An event, a fact is its idempotency key, its      *)
(* kind and text; times, prompts, entities, relationships, observations and  *)
(* traces are left out.                                                      *)
EXTENDS Integers, Sequences, SequencesExt, FiniteSets

CONSTANTS
    MemoryEvents,    \* the events a synthesis is asked for, besides the reports
    Facts,           \* what a model may find worth keeping
    NoEvent,         \* no synthesis is running
    MaxVersions,     \* bound: how often the turn's report is written
    MaxAttempts,     \* MAX_ATTEMPTS
    MaxQueued,       \* MAX_QUEUE_ENTRIES
    CandidateCap,    \* candidates a job keeps (20)
    ProjectCap,      \* entries project memory keeps (60)
    BatchSize,       \* promotionBatchSize
    MaxCandidates,   \* bound: candidates ever submitted
    MaxMemFaults     \* bound: failures, restarts, settings changes and deletions

(* An entry is tried at least once; a model finds finitely many facts.        *)
ASSUME MemoryAssumption ==
    /\ MaxVersions \in Nat /\ MaxQueued \in Nat
    /\ MaxCandidates \in Nat /\ MaxMemFaults \in Nat
    /\ {CandidateCap, ProjectCap, BatchSize} \subseteq Nat \ {0}
    /\ MaxAttempts \in Nat \ {0}
    /\ IsFiniteSet(Facts)

Versions == 1..MaxVersions
QueueKeys == MemoryEvents \cup Versions

VARIABLES
    memEnabled,      \* the memory synthesis setting
    synth,           \* persistedMemorySynthesisQueueById, by idempotency key
    pass,            \* the due entries this pass of the queue has yet to take
    working,         \* the entry whose synthesis the model is running
    report,          \* the newest recorded report of the turn, 0 for none
    unobserved,      \* reports recorded, their observers not yet told
    reviewing,       \* inFlightReports: the version under review, 0 for none
    queuedReport,    \* queuedReports: the version that waits, 0 for none
    pendingNotes,    \* versions with a review-pending note
    doneNotes,       \* versions with a review-state note
    failedReviews,   \* versions with a memory/review/failed event
    noteLost,        \* history: a note of the turn's reviews was deleted or pushed out
    candidates,      \* every promotion candidate submitted, in order; the job's
                     \* promotionCandidates are those still listed
    batch,           \* candidates the promotion model is ruling on
    project,         \* the project memory's entries
    forgotten,       \* history: facts deleted from it or pushed out, not accepted since
    memFaults        \* faults so far

synthVars == <<synth, pass, working>>
reviewVars == <<reviewing, queuedReport, pendingNotes, doneNotes, failedReviews, noteLost>>
projectVars == <<project, forgotten>>
promotionVars == <<batch, projectVars>>
memVars == <<memEnabled, synthVars, report, unobserved, reviewVars, candidates,
             promotionVars, memFaults>>

Entry == [status : {"none", "pending", "running", "completed", "failed"},
          attempts : 0..MaxAttempts, due : BOOLEAN]
Absent == [status |-> "none", attempts |-> 0, due |-> FALSE]
Candidate == [fact : Facts, by : {"review", "synthesis", "entry", "promote"},
              status : {"pending", "accepted", "rejected"}, listed : BOOLEAN]

MemInit ==
    /\ memEnabled = TRUE
    /\ synth = [k \in QueueKeys |-> Absent] /\ pass = {} /\ working = NoEvent
    /\ report = 0 /\ unobserved = {}
    /\ reviewing = 0 /\ queuedReport = 0
    /\ pendingNotes = {} /\ doneNotes = {} /\ failedReviews = {}
    /\ noteLost = FALSE
    /\ candidates = <<>> /\ batch = {} /\ project = {} /\ forgotten = {}
    /\ memFaults = 0

MemFault == memFaults < MaxMemFaults /\ memFaults' = memFaults + 1

-----------------------------------------------------------------------------
(* The synthesis queue.                                                      *)

Queued(q) == {k \in QueueKeys : q[k].status # "none"}
(* (Fault) Only entries never tried are due.                                 *)
DueOnce == {k \in QueueKeys : synth[k].status = "pending" /\ synth[k].attempts = 0}
(* listDueMemorySynthesis; priority and age order one pass only.             *)
DueEntries == {k \in QueueKeys : synth[k].status = "pending" /\ synth[k].due}

(* Above the cap the oldest completed entries are removed, as many as there  *)
(* are; which of them is the oldest is left open.                            *)
RoomMade(q) ==
    LET excess == Cardinality(Queued(q)) - MaxQueued
        done == {k \in QueueKeys : q[k].status = "completed"}
        number == IF excess < Cardinality(done) THEN excess ELSE Cardinality(done)
    IN IF excess <= 0 THEN {q}
       ELSE {[k \in QueueKeys |-> IF k \in drop THEN Absent ELSE q[k]] :
               drop \in {d \in SUBSET done : Cardinality(d) = number}}

(* recordMemoryEvent: an event that is already queued, or was, is not queued *)
(* twice; with the setting off nothing is queued.                            *)
Enqueue(key) ==
    IF ~memEnabled \/ synth[key].status # "none" THEN UNCHANGED synth
    ELSE synth' \in RoomMade([synth EXCEPT ![key] =
                        [status |-> "pending", attempts |-> 0, due |-> TRUE]])

RecordEvent(e) ==
    /\ Enqueue(e)
    /\ UNCHANGED <<memEnabled, pass, working, report, unobserved, reviewVars,
                   candidates, promotionVars, memFaults>>

(* processDueQueue, from the interval or from recordMemoryEvent: one pass at *)
(* a time, over the entries due at its start.                                *)
StartPass ==
    /\ memEnabled /\ pass = {} /\ working = NoEvent /\ DueEntries # {}
    /\ pass' = DueEntries
    /\ UNCHANGED <<memEnabled, synth, working, report, unobserved, reviewVars,
                   candidates, promotionVars, memFaults>>

(* processQueueEntry up to the model's run; an entry dropped meanwhile is    *)
(* skipped.                                                                  *)
TakeEntry(k) ==
    /\ working = NoEvent /\ k \in pass
    /\ pass' = pass \ {k}
    /\ IF synth[k].status = "none" THEN UNCHANGED <<synth, working>>
       ELSE /\ synth' = [synth EXCEPT ![k].status = "running", ![k].attempts = @ + 1]
            /\ working' = k
    /\ UNCHANGED <<memEnabled, report, unobserved, reviewVars, candidates,
                   promotionVars, memFaults>>

Proposed(facts, by) ==
    SetToSeq({[fact |-> f, by |-> by, status |-> "pending", listed |-> TRUE] : f \in facts})
(* submitStateStoreJobMemoryPromotionCandidate: above the cap the oldest     *)
(* candidates go, ruled on or not.                                           *)
Capped(c) ==
    LET listedFrom(i) == {j \in DOMAIN c : j >= i /\ c[j].listed}
    IN [i \in DOMAIN c |->
          [c[i] EXCEPT !.listed = @ /\ Cardinality(listedFrom(i)) <= CandidateCap]]
Submitted(facts, by) == Capped(candidates \o Proposed(facts, by))
Room(facts) == Len(candidates) + Cardinality(facts) <= MaxCandidates

(* processQueueEntry, the model answered: its candidates are submitted, the  *)
(* fallback candidate when it named none, and the entry is completed.        *)
SynthesisAnswers(facts) ==
    /\ working # NoEvent /\ Room(facts)
    /\ candidates' = Submitted(facts, "synthesis")
    /\ synth' = IF synth[working].status = "none" THEN synth
                ELSE [synth EXCEPT ![working].status = "completed"]
    /\ working' = NoEvent
    /\ UNCHANGED <<memEnabled, pass, report, unobserved, reviewVars,
                   promotionVars, memFaults>>

(* (Fault) The attempt is counted again when it fails.                        *)
CountedTwice(entry) ==
    [entry EXCEPT !.status = IF entry.attempts >= MaxAttempts THEN "failed" ELSE "pending",
                  !.attempts = @ + 1, !.due = FALSE]

(* processQueueEntry, an error: again in five minutes, or never after the    *)
(* last attempt.                                                             *)
RetriedLater(entry) ==
    [entry EXCEPT !.status = IF entry.attempts >= MaxAttempts THEN "failed" ELSE "pending",
                  !.due = FALSE]

SynthesisFails ==
    /\ working # NoEvent /\ MemFault
    /\ synth' = IF synth[working].status = "none" THEN synth
                ELSE [synth EXCEPT ![working] = RetriedLater(@)]
    /\ working' = NoEvent
    /\ UNCHANGED <<memEnabled, pass, report, unobserved, reviewVars, candidates,
                   promotionVars>>

(* runAfter passes.                                                          *)
RetryIsDue(k) ==
    /\ synth[k].status = "pending" /\ ~synth[k].due
    /\ synth' = [synth EXCEPT ![k].due = TRUE]
    /\ UNCHANGED <<memEnabled, pass, working, report, unobserved, reviewVars,
                   candidates, promotionVars, memFaults>>

-----------------------------------------------------------------------------
(* The Worker's report and its review.                                       *)

(* The report action under the job's lock: the store has the report, and     *)
(* the job's payload is still to be written.                                 *)
WriteReport ==
    /\ report < MaxVersions
    /\ report' = report + 1
    /\ unobserved' = unobserved \cup {report + 1}
    /\ UNCHANGED <<memEnabled, synthVars, reviewVars, candidates, promotionVars, memFaults>>

BeginReview(v) ==
    /\ reviewing' = v
    /\ pendingNotes' = pendingNotes \cup {v}
    /\ UNCHANGED queuedReport

(* observeWorkerReport and reviewWorkerReportAsync, once the lock is free.   *)
ObserveReport(v) ==
    /\ v \in unobserved
    /\ unobserved' = unobserved \ {v}
    /\ Enqueue(v)
    /\ IF ~memEnabled THEN UNCHANGED <<reviewing, queuedReport, pendingNotes>>
       ELSE IF reviewing = 0 THEN BeginReview(v)
       ELSE /\ queuedReport' = IF v > queuedReport THEN v ELSE queuedReport
            /\ UNCHANGED <<reviewing, pendingNotes>>
    /\ UNCHANGED <<memEnabled, pass, working, report, doneNotes, failedReviews,
                   noteLost, candidates, promotionVars, memFaults>>

(* (Fault) The waiting report is forgotten with the review it waited for.    *)
QueuedForgotten == reviewing' = 0 /\ queuedReport' = 0 /\ UNCHANGED pendingNotes
(* The finally of reviewWorkerReportAsync: a newer report that waited is     *)
(* reviewed now, unless the setting is off.                                  *)
NextReview ==
    LET next == IF memEnabled /\ queuedReport > reviewing THEN queuedReport ELSE 0
    IN /\ reviewing' = next
       /\ queuedReport' = 0
       /\ pendingNotes' = IF next = 0 THEN pendingNotes ELSE pendingNotes \cup {next}

(* (Fault) Only the waiting report makes a review stale.                     *)
StaleByQueue == queuedReport > reviewing
(* isStaleReview, checked once the model has answered.                       *)
StaleReview == report > reviewing \/ queuedReport > reviewing

Listed == {i \in DOMAIN candidates : candidates[i].listed}
(* reviewWorkerReport after the model's answer.  What a candidate of the job *)
(* says already is not proposed again.                                       *)
ReviewAnswers(facts) ==
    LET known == {candidates[i].fact : i \in Listed}
    IN /\ reviewing # 0
       /\ IF StaleReview THEN facts = {} /\ UNCHANGED <<candidates, doneNotes>>
          ELSE /\ Room(facts)
               /\ candidates' = Submitted(facts \ known, "review")
               /\ doneNotes' = doneNotes \cup {reviewing}
       /\ NextReview
       /\ UNCHANGED <<memEnabled, synthVars, report, unobserved, failedReviews, noteLost,
                      promotionVars, memFaults>>

ReviewFails ==
    /\ reviewing # 0 /\ MemFault
    /\ failedReviews' = failedReviews \cup {reviewing}
    /\ NextReview
    /\ UNCHANGED <<memEnabled, synthVars, report, unobserved, doneNotes, noteLost,
                   candidates, promotionVars>>

-----------------------------------------------------------------------------
(* The Worker's own candidates.                                              *)

(* memory.checkpoint, memory.decision and memory.note with promote, whose    *)
(* entry the candidate belongs to; memory.promote, which makes no entry.     *)
WorkerPromotes(f, by) ==
    /\ Room({f})
    /\ candidates' = Submitted({f}, by)
    /\ UNCHANGED <<memEnabled, synthVars, report, unobserved, reviewVars,
                   promotionVars, memFaults>>

-----------------------------------------------------------------------------
(* Promotion.                                                                *)

PendingIn(c) == {i \in DOMAIN c : c[i].listed /\ c[i].status = "pending"}
PendingOnes == PendingIn(candidates)
OldestPending(c) ==
    {i \in PendingIn(c) : Cardinality({j \in PendingIn(c) : j < i}) < BatchSize}

(* drainPendingCandidates up to the model's run; one drain at a time.        *)
StartBatch ==
    /\ memEnabled /\ batch = {} /\ PendingOnes # {}
    /\ batch' = OldestPending(candidates)
    /\ UNCHANGED <<memEnabled, synthVars, report, unobserved, reviewVars,
                   candidates, projectVars, memFaults>>

Ruled(now, accepted) ==
    [i \in DOMAIN candidates |->
       IF i \in now
         THEN [candidates[i] EXCEPT !.status = IF i \in accepted THEN "accepted" ELSE "rejected"]
         ELSE candidates[i]]

(* Project memory takes the accepted facts it does not hold yet; above the   *)
(* cap the oldest of all go, which of them these are is left open.           *)
Promoted(facts) ==
    LET held == project \cup facts
        size == IF Cardinality(held) > ProjectCap THEN ProjectCap ELSE Cardinality(held)
    IN \E left \in SUBSET held :
          /\ Cardinality(left) = size
          /\ project' = left
          /\ forgotten' = (forgotten \cup held) \ left

(* (Fault) A ruling counts whatever the candidate's status is by now.        *)
ResolvedAgain(ruled, accepted) ==
    /\ candidates' = Ruled(ruled \cap Listed, accepted)
    /\ Promoted({candidates[i].fact : i \in ruled \cap Listed \cap accepted})
(* resolvePromotionCandidate: a candidate already resolved keeps its verdict,*)
(* one that is no longer listed is not found.                                *)
Resolved(ruled, accepted) ==
    /\ candidates' = Ruled(ruled \cap PendingOnes, accepted)
    /\ Promoted({candidates[i].fact : i \in ruled \cap PendingOnes \cap accepted})

(* The model rules on some of the batch; while it does, the drain may go on  *)
(* with the next.                                                            *)
PromotionAnswers(ruled, accepted) ==
    /\ batch # {}
    /\ Resolved(ruled, accepted)
    /\ batch' = {} \/ (ruled \cap Listed # {} /\ batch' = OldestPending(candidates'))
    /\ UNCHANGED <<memEnabled, synthVars, report, unobserved, reviewVars, memFaults>>

PromotionFails ==
    /\ batch # {} /\ MemFault
    /\ batch' = {}
    /\ UNCHANGED <<memEnabled, synthVars, report, unobserved, reviewVars,
                   candidates, projectVars>>

(* POST /api/memory/promotions/resolve, or Butler's resolve tool.            *)
OperatorResolves(i, accepted) ==
    /\ i \in DOMAIN candidates
    /\ Resolved({i}, IF accepted THEN {i} ELSE {})
    /\ UNCHANGED <<memEnabled, synthVars, report, unobserved, reviewVars, batch, memFaults>>

-----------------------------------------------------------------------------
(* What the operator deletes, and what newer entries push out.               *)

(* deleteStateStoreJobMemoryEntry: the entry's candidate goes with it, ruled *)
(* on or not; what was accepted of it stays in project memory.               *)
DeleteJobEntry(i) ==
    /\ i \in Listed /\ candidates[i].by = "entry" /\ MemFault
    /\ candidates' = [candidates EXCEPT ![i].listed = FALSE]
    /\ UNCHANGED <<memEnabled, synthVars, report, unobserved, reviewVars, promotionVars>>

(* The notes of the reviews are entries too; only 40 entries are kept.       *)
NoteGoes(v) ==
    /\ v \in pendingNotes \cup doneNotes /\ MemFault
    /\ \/ pendingNotes' = pendingNotes \ {v} /\ UNCHANGED doneNotes
       \/ doneNotes' = doneNotes \ {v} /\ UNCHANGED pendingNotes
    /\ noteLost' = TRUE
    /\ UNCHANGED <<memEnabled, synthVars, report, unobserved, reviewing, queuedReport,
                   failedReviews, candidates, promotionVars>>

(* deleteStateStoreProjectMemoryEntry.                                       *)
DeleteProjectEntry(f) ==
    /\ f \in project /\ MemFault
    /\ project' = project \ {f} /\ forgotten' = forgotten \cup {f}
    /\ UNCHANGED <<memEnabled, synthVars, report, unobserved, reviewVars, candidates, batch>>

-----------------------------------------------------------------------------
(* Settings, restarting.                                                     *)

(* applySettings: the timers stop and start; runs in flight go on.           *)
SwitchMemory ==
    /\ MemFault
    /\ memEnabled' = ~memEnabled
    /\ UNCHANGED <<synthVars, report, unobserved, reviewVars, candidates,
                   promotionVars>>

(* (Fault) Reviews are asked for by Workers only, never at the start.        *)
NothingResumed ==
    reviewing' = 0 /\ UNCHANGED pendingNotes
(* reviewPendingReportsAsync: a note that waits has the turn's newest report *)
(* reviewed, if that was not.                                                *)
ReviewsResumed ==
    LET again == memEnabled /\ pendingNotes # {} /\ report \notin doneNotes
    IN /\ reviewing' = IF again THEN report ELSE 0
       /\ pendingNotes' = pendingNotes \cup (IF again THEN {report} ELSE {})

(* Butler dies and starts: runs and their queues are gone, reports not yet   *)
(* observed never will be, an entry in the store as running stays so.        *)
RestartMemory ==
    /\ MemFault
    /\ pass' = {} /\ working' = NoEvent /\ unobserved' = {}
    /\ queuedReport' = 0 /\ batch' = {}
    /\ ReviewsResumed
    /\ UNCHANGED <<memEnabled, synth, report, doneNotes, failedReviews, noteLost,
                   candidates, projectVars>>

MemNext ==
    \/ \E e \in MemoryEvents : RecordEvent(e)
    \/ StartPass
    \/ \E k \in QueueKeys : TakeEntry(k) \/ RetryIsDue(k)
    \/ \E facts \in SUBSET Facts : SynthesisAnswers(facts) \/ ReviewAnswers(facts)
    \/ SynthesisFails
    \/ WriteReport
    \/ \E v \in Versions : ObserveReport(v)
    \/ ReviewFails
    \/ StartBatch
    \/ \E ruled \in SUBSET batch : \E accepted \in SUBSET ruled : PromotionAnswers(ruled, accepted)
    \/ PromotionFails
    \/ \E i \in 1..MaxCandidates, accepted \in BOOLEAN : OperatorResolves(i, accepted)
    \/ \E f \in Facts, by \in {"entry", "promote"} : WorkerPromotes(f, by)
    \/ \E i \in 1..MaxCandidates : DeleteJobEntry(i)
    \/ \E v \in Versions : NoteGoes(v)
    \/ \E f \in Facts : DeleteProjectEntry(f)
    \/ SwitchMemory \/ RestartMemory

(* Butler's timers fire, its runs end one way or the other, the retry delay  *)
(* passes.                                                                   *)
MemFairness ==
    /\ WF_memVars(StartPass)
    /\ \A k \in QueueKeys : WF_memVars(TakeEntry(k)) /\ WF_memVars(RetryIsDue(k))
    /\ WF_memVars(\E facts \in SUBSET Facts : SynthesisAnswers(facts))
    /\ WF_memVars(\E facts \in SUBSET Facts : ReviewAnswers(facts))

MemSpec == MemInit /\ [][MemNext]_memVars /\ MemFairness

-----------------------------------------------------------------------------
MemoryTypeOK ==
    /\ memEnabled \in BOOLEAN
    /\ synth \in [QueueKeys -> Entry]
    /\ pass \subseteq QueueKeys
    /\ working \in QueueKeys \cup {NoEvent}
    /\ report \in 0..MaxVersions /\ unobserved \subseteq Versions
    /\ reviewing \in 0..MaxVersions /\ queuedReport \in 0..MaxVersions
    /\ pendingNotes \subseteq Versions /\ doneNotes \subseteq Versions
    /\ failedReviews \subseteq Versions /\ noteLost \in BOOLEAN
    /\ candidates \in Seq(Candidate) /\ Len(candidates) <= MaxCandidates
    /\ batch \subseteq 1..MaxCandidates /\ project \subseteq Facts /\ forgotten \subseteq Facts
    /\ memFaults \in 0..MaxMemFaults

AcceptedFacts ==
    {candidates[i].fact : i \in {j \in DOMAIN candidates : candidates[j].status = "accepted"}}
HoldsVerdicts == project = AcceptedFacts \ forgotten
(* No step overturns a verdict or forgets what a candidate said.             *)
VerdictsStand ==
    \A i \in DOMAIN candidates :
      /\ i \in DOMAIN candidates' /\ candidates'[i].fact = candidates[i].fact
      /\ candidates[i].status # "pending" => candidates'[i].status = candidates[i].status

(* The model rules on a batch that the operator may have ruled on since, or  *)
(* deleted, or newer candidates pushed out: whoever ruled first is never     *)
(* overturned, and project memory holds the accepted facts and no other, but *)
(* for those the operator deleted from it or its cap pushed out since.       *)
ProjectMemoryIsVerdicts ==
    /\ []HoldsVerdicts
    /\ [][VerdictsStand]_memVars

(* A review that ends after its report was rewritten proposes nothing.       *)
NewestReviewSpeaks ==
    [][\A i \in DOMAIN candidates' \ DOMAIN candidates :
         candidates'[i].by = "review" => reviewing = report]_memVars

(* A report under review, or waiting for the review of the one before, is    *)
(* reviewed, across restarts and later failures, unless it is rewritten, its *)
(* own review failed, the setting is turned off, or a note of the turn went. *)
PendingReviewEnds ==
    \A v \in Versions :
      (v \in pendingNotes \/ v = queuedReport) /\ report = v
        ~> v \in doneNotes \/ report # v \/ v \in failedReviews \/ ~memEnabled \/ noteLost

(* Queued work ends, completed or given up, unless a restart caught it       *)
(* running (it then stays so) or the setting was turned off.                 *)
SynthesisEnds ==
    \A k \in QueueKeys :
      synth[k].status \in {"pending", "running"}
        ~> \/ synth[k].status \in {"completed", "failed"}
           \/ synth[k].status = "running" /\ working # k
           \/ ~memEnabled
=============================================================================
