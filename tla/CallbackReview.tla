--------------------------- MODULE CallbackReview ---------------------------
(***************************************************************************)
(* The operator closeout obligation ("callback") of one delegated Worker   *)
(* job, as Butler's server keeps it.  Every delegation and every follow-up *)
(* message arms an obligation to tell the operator the outcome.  A Worker  *)
(* report, or recovery of a silent Worker, queues an isolated review; the  *)
(* review posts the closeout, messages the Worker again, or fails and is   *)
(* retried.  Main-session tools, the operator's Stop and Retry, store      *)
(* events, watchdogs and restarts interleave with it.                      *)
(*                                                                         *)
(* Mutations of a job run under its mutation lock (module MutationLock):   *)
(* `op' is the section in progress when it is one that awaits; sections    *)
(* that only await their own final save are single actions.  Time is the   *)
(* logical clock `now', so a request, a report and the end of a turn never *)
(* share a timestamp; timers are nondeterministic.                         *)
(***************************************************************************)
EXTENDS Naturals, FiniteSets

CONSTANTS
    MaxTime,             \* bound on the clock: requests, reports and turn ends
    ReviewMaxAttempts,   \* CALLBACK_REVIEW_MAX_ATTEMPTS
    Steers,              \* the follow-up messages: <<by, disposition, next action>>
    Statuses,            \* the statuses a Worker reports
    Scenario             \* the optional parts of Next that happen

ASSUME BoundsAssumption == /\ MaxTime \in Nat \ {0}
                           /\ ReviewMaxAttempts \in Nat \ {0}

ASSUME InputsAssumption ==
    /\ Steers \subseteq {"main", "tool"} \X {"preserve", "replace"} \X {"review", "reply_to_operator"}
    /\ Statuses \subseteq {"completed", "blocked"}

VARIABLES
    cb, fails, msgs, delivered,           \* Butler's memory of the job
    disk,                                 \* callback and message state files
    op,                                   \* section that holds the job lock
    rv, pend,                             \* review attempt and its queued mutation
    quiescing,                            \* session is closing
    scope, ok, verdict,                   \* job payload scope, checklist, reviews
    turn, active, starting, ended, reply, report, marks,  \* Worker thread
    now

butler == <<cb, fails, msgs, delivered, disk>>
review == <<rv, pend>>
gate   == <<scope, ok, verdict>>
worker == <<turn, active, starting, ended, reply, report, marks>>
vars   == <<butler, op, review, quiescing, gate, worker, now>>

-----------------------------------------------------------------------------
(* Records *)

Times == 0..MaxTime

NoOp     == [kind |-> "none"]
NoReport == [at |-> 0, turn |-> 0, status |-> "none"]
NoPend   == [kind |-> "none", own |-> FALSE]
IdleRv   == [pc |-> "idle", obj |-> "none", rep |-> 0]

\* `rv.obj' tells whether the pending callback is still the object the attempt
\* began on: "same", or replaced, while it was running ("orphan") or not ("left").
\* `pend.own' says the same of the mutation that waits for the lock.
NewCallback(at, slice, dispatch, next) ==
    [at |-> at, slice |-> slice, turn |-> 0, state |-> "waiting",
     dispatch |-> dispatch, status |-> "owed", next |-> next,
     review |-> "idle", reason |-> "none", blocked |-> "none", blockedAt |-> 0,
     term |-> 0, tries |-> 0, wait |-> FALSE]

NoCb == [NewCallback(0, 0, "ready", "review") EXCEPT !.status = "none"]

Outstanding(c) == c.status = "owed"

Closed(c, status) ==
    [c EXCEPT !.state = "closed", !.status = status, !.review = "idle",
              !.reason = "none", !.blocked = "none", !.blockedAt = 0, !.wait = FALSE]

Queue(c, reason) ==
    [c EXCEPT !.review = "queued", !.reason = reason, !.next = "review",
              !.blocked = "none", !.blockedAt = 0, !.wait = FALSE]

Idle(c) == [c EXCEPT !.review = "idle", !.blocked = "none", !.blockedAt = 0, !.wait = FALSE]

Block(c, why, reason, at) ==
    [c EXCEPT !.review = "blocked", !.next = "review", !.reason = reason,
              !.blocked = why, !.blockedAt = at, !.wait = FALSE]

\* Fault: the failures are counted without end.
CountFailureOn == fails + 1

\* The failure counter saturates: every value from ReviewMaxAttempts on acts alike.
CountFailure == IF fails < ReviewMaxAttempts THEN fails + 1 ELSE fails

\* Fault: the attempts are never exhausted.
RetriedReview(c, failures) == [c EXCEPT !.review = "queued", !.wait = TRUE]

FailedReview(c, failures) ==
    IF failures >= ReviewMaxAttempts
    THEN [c EXCEPT !.review = "blocked", !.blocked = "paused",
                   !.blockedAt = report.at, !.wait = FALSE]
    ELSE [c EXCEPT !.review = "queued", !.wait = TRUE]

Max2(a, b) == IF a > b THEN a ELSE b
Min2(a, b) == IF a < b THEN a ELSE b

-----------------------------------------------------------------------------
(* What Butler reads from the store *)

\* The report the callback is waiting for, as far as Butler can tell.
Relevant(c) == /\ report.at > 0
               /\ report.at >= c.at
               /\ c.turn \in {0, report.turn}
               /\ report.status = "completed" \/ ~active

RelevantReport(c) == IF Relevant(c) THEN report ELSE NoReport

\* Fault: the acceptance of an earlier report is taken for this one.
BlockerOfAnyReport(r) ==
    CASE r.status # "blocked" /\ ~ok                                      -> "checklist"
      [] r.status = "completed" /\ ~\E t \in Times : verdict[t] = "accepted" -> "verdict"
      [] OTHER                                                           -> "none"

\* Why a closeout on report r may not be posted.
Blocker(r) ==
    CASE r.status # "blocked" /\ ~ok                             -> "checklist"
      [] r.status = "completed" /\ verdict[r.at] = "none"        -> "verdict"
      [] r.status = "completed" /\ verdict[r.at] = "rejected"    -> "rejected"
      [] OTHER                                                   -> "none"

CloseoutId(c) == [slice |-> c.slice,
                  turn  |-> IF Relevant(c) THEN report.turn ELSE turn]

Legacy(id) == [id EXCEPT !.slice = 0]

\* Fault: only the callback state's record of deliveries is consulted.
AlreadyDelivered(c) == CloseoutId(c) \in delivered

AlreadyPosted(c) ==
    \/ CloseoutId(c) \in delivered
    \/ \E m \in msgs : \/ m.id = CloseoutId(c)
                       \/ m.id = Legacy(CloseoutId(c)) /\ m.at >= c.at

\* The message carries the time of the request it answers, whatever the time of
\* the report; with a report `rep' its id differs from that of a recovered closeout.
Closeout(c) ==
    [id  |-> CloseoutId(c),
     at  |-> c.at,
     rep |-> RelevantReport(c)]

Recoverable(c) == ~active /\ ended >= c.at

\* buildChatCallbackText / buildFallbackChatCallbackText return a text.
HasCloseoutText(c) ==
    \/ c.state = "received" /\ Relevant(c)
    \/ c.state = "missing" /\ ~active /\ reply >= c.at

Persist == disk' = [disk EXCEPT !.cb = cb', !.delivered = delivered]

-----------------------------------------------------------------------------
(* The review attempt *)

\* isCurrent of the running attempt: the same object, running and outstanding.
Current == /\ ~quiescing
           /\ rv.obj = "same"
           /\ Outstanding(cb)
           /\ cb.review = "running"

\* The attempt may still use its guarded tools.
ToolGuard == rv.pc = "tool" /\ Current

LockFree == op.kind = "none"

\* processCallbackReviews, one callback: the locked begin.  The queued mutation
\* of an earlier attempt precedes this one in the job's lock queue.
BeginGuard == LockFree /\ rv.pc = "idle" /\ pend.kind = "none"

Begin ==
    /\ BeginGuard
    /\ ~quiescing
    /\ Outstanding(cb)
    /\ cb.review = "queued"
    /\ cb.dispatch # "reserving"
    /\ IF cb.slice # 0 /\ cb.slice # scope
       THEN /\ cb' = [Closed(cb, "not_required") EXCEPT !.reason = cb.reason]
            /\ UNCHANGED rv
       ELSE /\ cb' = [cb EXCEPT !.review = "running", !.tries = fails + 1,
                                !.wait = FALSE]
            /\ rv' = [pc |-> "review", obj |-> "same", rep |-> report.at]
    /\ Persist
    /\ UNCHANGED <<fails, msgs, delivered, op, pend, quiescing, gate, worker, now>>

\* Saving the begun attempt failed: the callback runs in memory, nobody runs it.
BeginFails ==
    /\ BeginGuard
    /\ ~quiescing
    /\ Outstanding(cb)
    /\ cb.review = "queued" /\ cb.dispatch # "reserving" /\ cb.slice \in {0, scope}
    /\ cb' = [cb EXCEPT !.review = "running", !.tries = fails + 1, !.wait = FALSE]
    /\ UNCHANGED <<fails, msgs, delivered, disk, op, review, quiescing, gate, worker, now>>

\* ensureButlerAdversarialReview: a verdict is recorded only for the report the
\* attempt started from, while both the attempt and the report are current.
RecordVerdict ==
    /\ rv.pc = "review"
    /\ Current
    /\ report.status = "completed" /\ report.at = rv.rep
    /\ report.at >= cb.at /\ cb.turn \in {0, report.turn}
    /\ verdict[report.at] = "none"
    /\ \E v \in {"accepted", "rejected"} : verdict' = [verdict EXCEPT ![report.at] = v]
    /\ rv' = [rv EXCEPT !.pc = "supervise", !.rep = 0]
    /\ UNCHANGED <<butler, op, pend, quiescing, scope, ok, worker, now>>

\* ... and it returns without one when there is nothing of its own to review.
SkipVerdict ==
    /\ rv.pc = "review"
    /\ \/ ~Current
       \/ report.status # "completed" \/ report.at # rv.rep
       \/ report.at < cb.at \/ cb.turn \notin {0, report.turn}
       \/ verdict[report.at] # "none"
    /\ IF Current
       THEN rv' = [rv EXCEPT !.pc = "supervise", !.rep = 0] /\ UNCHANGED pend
       ELSE /\ rv' = [rv EXCEPT !.pc = "await", !.rep = 0]
            /\ pend' = [kind |-> "terminal", own |-> rv.obj = "same"]
    /\ UNCHANGED <<butler, op, quiescing, gate, worker, now>>

\* An error of the provider or of the supervisor, a watchdog that finds the
\* attempt superseded, inactive or past its deadline: the attempt is over, a
\* tool it started may still run, and the failure waits for the job lock.
AttemptFails ==
    /\ rv.pc \in {"review", "supervise", "tool"}
    /\ rv' = [rv EXCEPT !.pc = "await", !.rep = 0]
    /\ pend' = [kind |-> "settle", own |-> rv.obj = "same"]
    /\ UNCHANGED <<butler, op, quiescing, gate, worker, now>>

\* A completion tool succeeded, and the supervisor ends normally.
ToolSucceeds ==
    IF rv.pc = "tool"
    THEN /\ rv' = [rv EXCEPT !.pc = "await"]
         /\ pend' = [kind |-> "terminal", own |-> rv.obj = "same"]
    ELSE UNCHANGED <<rv, pend>>

ToolFails ==
    IF rv.pc = "tool" THEN rv' = [rv EXCEPT !.pc = "supervise"] /\ UNCHANGED pend
                      ELSE UNCHANGED <<rv, pend>>

\* review_acceptance_point(s) and disprove_review_finding, from the review's
\* supervisor or from the main session.
ReviewPoints ==
    /\ LockFree
    /\ ok' \in BOOLEAN /\ ok' # ok
    /\ UNCHANGED <<butler, op, review, quiescing, scope, verdict, worker, now>>

DisproveFinding ==
    /\ LockFree
    /\ report.at > 0 /\ verdict[report.at] = "rejected"
    /\ verdict' = [verdict EXCEPT ![report.at] = "accepted"]
    /\ UNCHANGED <<butler, op, review, quiescing, scope, ok, worker, now>>

\* settleCallbackReviewFailure, once it has the lock.
Settle ==
    /\ LockFree
    /\ pend.kind = "settle"
    /\ IF pend.own /\ Outstanding(cb) /\ cb.review = "running"
       THEN /\ fails' = CountFailure
            /\ cb' = FailedReview(cb, fails')
            /\ Persist
       ELSE UNCHANGED <<cb, fails, disk>>
    /\ pend' = NoPend
    /\ rv' = IF rv.pc = "await" THEN IdleRv ELSE rv
    /\ UNCHANGED <<msgs, delivered, op, quiescing, gate, worker, now>>

\* settleReviewMutationWithin gives up after five seconds; the mutation stays
\* queued.  An attempt given up this way leaves the callback running.
SettleTimesOut ==
    /\ rv.pc = "await" /\ pend.kind = "settle"
    /\ ~LockFree
    /\ rv' = IdleRv
    /\ UNCHANGED <<butler, op, pend, quiescing, gate, worker, now>>

\* The unlocked failure of an attempt whose terminalization failed or timed out.
\* It reads the object of the attempt, which a newer request may have replaced.
FailureCounts == IF rv.obj = "same" THEN cb.review = "running" ELSE rv.obj = "orphan"

TerminalizationFails ==
    /\ rv' = IdleRv
    /\ IF FailureCounts
       THEN /\ fails' = CountFailure
            /\ cb' = IF rv.obj = "same" THEN FailedReview(cb, fails') ELSE cb
            /\ Persist
       ELSE UNCHANGED <<cb, fails, disk>>

TerminalizeTimesOut ==
    /\ rv.pc = "await"
    /\ \/ pend.kind = "terminal" /\ ~LockFree
       \/ op.kind = "post" /\ op.by = "review"
    /\ TerminalizationFails
    /\ UNCHANGED <<msgs, delivered, op, pend, quiescing, gate, worker, now>>

\* Fault: only attempts that failed before are recovered.
RecoverFailedOrphan ==
    /\ ~quiescing
    /\ Outstanding(cb) /\ cb.review = "running"
    /\ rv.pc = "idle" /\ fails > 0
    /\ fails' = CountFailure
    /\ cb' = FailedReview(cb, fails')
    /\ Persist
    /\ UNCHANGED <<msgs, delivered, op, review, quiescing, gate, worker, now>>

\* recoverOrphanedCallbackReviews: a running callback nobody runs.  Unlocked.
RecoverOrphan ==
    /\ ~quiescing
    /\ Outstanding(cb) /\ cb.review = "running"
    /\ rv.pc = "idle"
    /\ fails' = CountFailure
    /\ cb' = FailedReview(cb, fails')
    /\ Persist
    /\ UNCHANGED <<msgs, delivered, op, review, quiescing, gate, worker, now>>

-----------------------------------------------------------------------------
(* Posting the operator's update: postOperatorJobReply *)

\* A new callback object takes the place of the attempt's.
DetachTo(pc) ==
    /\ rv' = [rv EXCEPT !.pc = pc,
                        !.obj = IF @ # "same" THEN @
                                ELSE IF cb.review = "running" THEN "orphan" ELSE "left"]
    /\ pend' = [pend EXCEPT !.own = FALSE]

PostOp(by, pc, c) ==
    [kind |-> "post", by |-> by, pc |-> pc,
     id |-> CloseoutId(c), msg |-> Closeout(c)]

\* Up to the first await.  The caller may have brought the callback up to date (c).
PostStart(by, c) ==
    /\ Outstanding(c)
    /\ c.slice \in {0, scope}
    /\ \/ /\ AlreadyPosted(c)
          /\ op' = PostOp(by, "already", c)
          /\ cb' = c
          /\ UNCHANGED disk
       \/ /\ ~AlreadyPosted(c)
          /\ Blocker(RelevantReport(c)) = "none"
          /\ op' = PostOp(by, "rotate", c)
          /\ cb' = c
          /\ UNCHANGED disk
       \/ /\ ~AlreadyPosted(c)
          /\ Blocker(RelevantReport(c)) # "none"
          /\ cb' = Block(c, Blocker(RelevantReport(c)),
                         IF Relevant(c) THEN "worker_callback" ELSE "thread_recovery",
                         RelevantReport(c).at)
          /\ Persist
          /\ UNCHANGED op

\* Fault: the expected callback is not compared again after an await.
ExpectedUnchecked == TRUE

\* Only the review's terminalization passes the callback it expects.
ExpectedCurrent == op.by # "review" \/ (Outstanding(cb) /\ cb.review = "running")

\* The section ends with an error: rotating the baseline or saving failed, or
\* the expected callback is no longer current.
PostFails ==
    /\ op.kind = "post" /\ op.pc \in {"already", "rotate", "written"}
    /\ op.pc = "written" => ~ExpectedCurrent
    /\ op' = NoOp
    /\ LET restored == IF op.pc = "written" THEN [disk EXCEPT !.msgs = msgs] ELSE disk IN
       CASE op.by = "review" /\ rv.pc = "await" ->
              /\ rv' = IdleRv
              /\ IF FailureCounts
                 THEN /\ fails' = CountFailure
                      /\ cb' = IF rv.obj = "same" THEN FailedReview(cb, fails') ELSE cb
                      /\ disk' = [restored EXCEPT !.cb = cb', !.delivered = delivered]
                 ELSE disk' = restored /\ UNCHANGED <<cb, fails>>
              /\ UNCHANGED pend
         [] op.by = "tool" -> ToolFails /\ disk' = restored /\ UNCHANGED <<cb, fails>>
         [] OTHER -> disk' = restored /\ UNCHANGED <<cb, fails, rv, pend>>
    /\ UNCHANGED <<msgs, delivered, quiescing, gate, worker, now>>

PostEnds(by) ==
    CASE by = "tool"                       -> ToolSucceeds
      [] by = "review" /\ rv.pc = "await"  -> rv' = IdleRv /\ UNCHANGED pend
      [] OTHER                             -> UNCHANGED <<rv, pend>>

\* The closeout was found posted: close without posting it again.
PostAlready ==
    /\ op.kind = "post" /\ op.pc = "already"
    /\ ExpectedCurrent
    /\ delivered' = delivered \cup {op.id}
    /\ cb' = Closed(cb, "posted")
    /\ disk' = [disk EXCEPT !.cb = cb', !.delivered = delivered']
    /\ op' = NoOp
    /\ PostEnds(op.by)
    /\ UNCHANGED <<fails, msgs, quiescing, gate, worker, now>>

\* Fault: the message is left to the save at the end.
PostWriteLater ==
    /\ op.kind = "post" /\ op.pc = "rotate"
    /\ ExpectedCurrent
    /\ op' = [op EXCEPT !.pc = "written"]
    /\ UNCHANGED <<cb, fails, msgs, delivered, disk, review, quiescing, gate, worker, now>>

\* The message is made durable before anyone is told of it.
PostWrite ==
    /\ op.kind = "post" /\ op.pc = "rotate"
    /\ ExpectedCurrent
    /\ disk' = [disk EXCEPT !.msgs = msgs \cup {op.msg}]
    /\ op' = [op EXCEPT !.pc = "written"]
    /\ UNCHANGED <<cb, fails, msgs, delivered, review, quiescing, gate, worker, now>>

\* Fault: the message is shown before it is written.
PostCommitFirst ==
    /\ op.kind = "post" /\ op.pc \in {"rotate", "written"}
    /\ ExpectedCurrent
    /\ msgs' = msgs \cup {op.msg}
    /\ delivered' = delivered \cup {op.id}
    /\ cb' = Closed(cb, "posted")
    /\ op' = [op EXCEPT !.pc = "save"]
    /\ UNCHANGED <<fails, disk, review, quiescing, gate, worker, now>>

PostCommit ==
    /\ op.kind = "post" /\ op.pc = "written"
    /\ ExpectedCurrent
    /\ msgs' = msgs \cup {op.msg}
    /\ delivered' = delivered \cup {op.id}
    /\ cb' = Closed(cb, "posted")
    /\ op' = [op EXCEPT !.pc = "save"]
    /\ UNCHANGED <<fails, disk, review, quiescing, gate, worker, now>>

PostSave ==
    /\ op.kind = "post" /\ op.pc = "save"
    /\ disk' = [cb |-> cb, msgs |-> msgs, delivered |-> delivered]
    /\ op' = NoOp
    /\ PostEnds(op.by)
    /\ UNCHANGED <<cb, fails, msgs, delivered, quiescing, gate, worker, now>>

\* reply_to_operator.  Its gate looks at the thread's report, not the callback's.
MainReply ==
    /\ LockFree
    /\ Blocker(report) = "none"
    /\ PostStart("main", cb)
    /\ UNCHANGED <<fails, msgs, delivered, review, quiescing, gate, worker, now>>

\* The supervisor's reply_to_operator: a gated reply also completes the attempt.
SupervisorReply ==
    /\ LockFree
    /\ rv.pc = "supervise" /\ Current
    /\ IF Blocker(report) = "none"
       THEN /\ PostStart("tool", cb)
            /\ rv' = [rv EXCEPT !.pc = IF op'.kind = "post" THEN "tool" ELSE "supervise"]
            /\ UNCHANGED pend
       ELSE /\ rv' = [rv EXCEPT !.pc = "await"]
            /\ pend' = [kind |-> "terminal", own |-> rv.obj = "same"]
            /\ UNCHANGED <<cb, disk, op>>
    /\ UNCHANGED <<fails, msgs, delivered, quiescing, gate, worker, now>>

\* The attempt's outcome, once it has the lock.
TerminalizeApplies ==
    /\ pend.own /\ Outstanding(cb) /\ cb.review = "running"
    /\ cb.slice \in {0, scope}

Terminalize ==
    /\ LockFree
    /\ pend.kind = "terminal"
    /\ pend' = NoPend
    /\ IF ~TerminalizeApplies
       THEN /\ rv' = IF rv.pc = "await" THEN IdleRv ELSE rv
            /\ UNCHANGED <<cb, fails, disk, op>>
       ELSE /\ fails' = 0
            /\ \/ /\ HasCloseoutText(cb)
                  /\ Blocker(RelevantReport(cb)) # "none"
                  /\ cb' = Block(cb, Blocker(RelevantReport(cb)),
                                 IF cb.state = "missing" THEN "thread_recovery" ELSE "worker_callback",
                                 RelevantReport(cb).at)
                  /\ Persist
                  /\ rv' = IF rv.pc = "await" THEN IdleRv ELSE rv
                  /\ UNCHANGED op
               \/ /\ HasCloseoutText(cb)
                  /\ Blocker(RelevantReport(cb)) = "none"
                  /\ PostStart("review", cb)
                  /\ UNCHANGED rv
               \/ /\ ~HasCloseoutText(cb)
                  /\ cb' = Idle(cb)
                  /\ Persist
                  /\ rv' = IF rv.pc = "await" THEN IdleRv ELSE rv
                  /\ UNCHANGED op
    /\ UNCHANGED <<msgs, delivered, quiescing, gate, worker, now>>

-----------------------------------------------------------------------------
(* Messaging the Worker again: message_job, flush_rejected_acceptance_points *)
(* and the operator's direct message, by the main side or by the review's    *)
(* supervisor.  The whole section holds the job lock.                        *)

\* The Worker takes a message: it joins the active turn (which may not show the
\* dispatch marker) or a new turn will start.
WorkerTakes(at) ==
    IF active
    THEN UNCHANGED starting /\ marks' \in {marks, marks \cup {<<at, turn>>}}
    ELSE starting = 0 /\ starting' = at /\ UNCHANGED marks

ReplacesObject(by, disp) == ~(by = "tool" /\ disp = "preserve")

\* reserveDirectCodexMessage: a new callback object takes the place of the old
\* one, unless a current review messages the Worker within its scope.
SteerReserve(by, disp, next) ==
    /\ LockFree
    /\ ~quiescing
    /\ now < MaxTime
    /\ by = "tool" => rv.pc = "supervise" /\ Current
    /\ now' = now + 1
    /\ op' = [kind |-> "steer", by |-> by, disp |-> disp, pc |-> "reserved", at |-> now',
              report |-> report.at, cb |-> cb, fails |-> fails, scope |-> scope, ok |-> ok]
    /\ LET new == NewCallback(now', IF disp = "replace" THEN 0 ELSE scope, "reserving", next)
       IN  IF ReplacesObject(by, disp)
           THEN /\ cb' = new
                /\ DetachTo(IF by = "tool" THEN "tool" ELSE rv.pc)
           ELSE /\ cb' = [new EXCEPT !.review = "running",
                                     !.reason = cb.reason, !.tries = cb.tries]
                /\ rv' = [rv EXCEPT !.pc = "tool"] /\ UNCHANGED pend
    /\ fails' = 0
    /\ Persist
    /\ UNCHANGED <<msgs, delivered, quiescing, gate, worker>>

\* The job payload, then bindPendingChatCallbackWorkSlice: a replacement opens a
\* new scope with a fresh checklist.
SteerBind ==
    /\ op.kind = "steer" /\ op.pc = "reserved"
    /\ IF op.disp = "replace" THEN scope' = op.at /\ ok' = FALSE ELSE UNCHANGED <<scope, ok>>
    /\ cb' = [cb EXCEPT !.slice = scope']
    /\ Persist
    /\ op' = [op EXCEPT !.pc = "bound"]
    /\ UNCHANGED <<fails, msgs, delivered, review, quiescing, verdict, worker, now>>

\* markPendingChatCallbackDispatched; the Worker's client names no turn.
MarkDispatched ==
    IF quiescing THEN UNCHANGED <<cb, disk>>
    ELSE cb' = [cb EXCEPT !.dispatch = "ready", !.turn = 0] /\ Persist

SteerAccepted ==
    /\ op.kind = "steer" /\ op.pc = "bound"
    /\ op.by = "tool" => ToolGuard
    /\ WorkerTakes(op.at)
    /\ MarkDispatched
    /\ op' = NoOp
    /\ IF op.by = "tool" THEN ToolSucceeds ELSE UNCHANGED <<rv, pend>>
    /\ UNCHANGED <<fails, msgs, delivered, quiescing, gate,
                   turn, active, ended, reply, report, now>>

\* A transport error: the Worker may have taken the message.
SteerAmbiguous ==
    /\ op.kind = "steer" /\ op.pc = "bound"
    /\ op.by = "tool" => ToolGuard
    /\ WorkerTakes(op.at) \/ UNCHANGED <<starting, marks>>
    /\ MarkDispatched
    /\ op' = NoOp
    /\ IF op.by = "tool" THEN ToolFails ELSE UNCHANGED <<rv, pend>>
    /\ UNCHANGED <<fails, msgs, delivered, quiescing, gate,
                   turn, active, ended, reply, report, now>>

\* rollbackDirectCodexMessage restores the previous callback in the current
\* object, and the scope unless a Worker report produced a newer job payload.
SteerRejected ==
    /\ op.kind = "steer" /\ op.pc \in {"reserved", "bound"}
    /\ IF op.pc = "bound" /\ op.by = "tool" /\ ~ToolGuard
       THEN WorkerTakes(op.at) \/ UNCHANGED <<starting, marks>>
       ELSE UNCHANGED <<starting, marks>>
    /\ IF quiescing
       THEN UNCHANGED <<cb, fails, disk, scope, ok>>
       ELSE /\ cb' = IF op.cb = NoCb THEN NoCb
                     ELSE IF op.cb.review = "running" /\ ~(op.by = "tool" /\ ToolGuard)
                     THEN [op.cb EXCEPT !.review = "queued", !.wait = FALSE] ELSE op.cb
            /\ fails' = op.fails
            /\ IF report.at = op.report THEN scope' = op.scope /\ ok' = op.ok
                                        ELSE UNCHANGED <<scope, ok>>
            /\ Persist
    /\ op' = NoOp
    /\ IF op.by = "tool" THEN ToolFails ELSE UNCHANGED <<rv, pend>>
    /\ UNCHANGED <<msgs, delivered, quiescing, verdict,
                   turn, active, ended, reply, report, now>>

\* hold_job_context: context for the running turn's review, not sent to the Worker.
HoldContext ==
    /\ LockFree
    /\ ~quiescing
    /\ active /\ now < MaxTime
    /\ now' = now + 1
    /\ cb' = NewCallback(now', IF cb.slice # 0 THEN cb.slice ELSE scope, "ready", "review")
    /\ DetachTo(rv.pc)
    /\ fails' = 0
    /\ Persist
    /\ UNCHANGED <<msgs, delivered, op, quiescing, gate, worker>>

-----------------------------------------------------------------------------
(* Store events and periodic reconciliation *)

\* reconcileAcceptedWorkerTurn and reconcileReservedCallbackDispatch.  A marker
\* names the turn that took the message; without one the reservation expires.
DispatchSeen(c, expired) ==
    LET seen == {m \in marks : m[1] = c.at}
    IN  [c EXCEPT !.turn = IF @ = 0 /\ seen # {} THEN (CHOOSE m \in seen : TRUE)[2] ELSE @,
                  !.dispatch = IF seen # {} \/ expired THEN "ready" ELSE @]

PostedFor(c) ==
    \E m \in msgs : /\ m.at >= c.at
                    /\ m.id = CloseoutId(c) \/ (c.slice # 0 /\ m.id = Legacy(CloseoutId(c)))

\* What became of the Worker since the request.
Tracked(c, timedOut) ==
    LET state == IF Relevant(c) THEN "received"
                 ELSE IF timedOut /\ Recoverable(c) THEN "missing" ELSE "waiting"
    IN  IF state = c.state THEN c
        ELSE [c EXCEPT !.state  = state,
                       !.term   = IF Relevant(c) THEN report.at ELSE @,
                       !.review = IF state = "waiting" THEN @ ELSE "queued",
                       !.reason = CASE state = "received" -> "worker_callback"
                                    [] state = "missing"  -> "thread_recovery"
                                    [] OTHER              -> @]

\* The Worker is silent: active, or idle without a trace of the request.
ProbeDue(c) ==
    /\ c.state = "waiting" /\ ~Relevant(c)
    /\ active \/ (c.turn = 0 /\ reply < c.at /\ ended < c.at)

\* reconcilePendingChatCallbacks for the job.  Its final save is a SaveCallbacks.
Reconcile ==
    /\ LockFree
    /\ ~quiescing
    /\ Outstanding(cb)
    /\ \E expired, timedOut, probe \in BOOLEAN :
         LET c == DispatchSeen(cb, expired) IN
         \/ /\ c.dispatch = "reserving"
            /\ cb' = c
            /\ UNCHANGED <<disk, op>>
         \/ /\ c.dispatch = "ready" /\ PostedFor(c)
            /\ IF c.slice \in {0, scope} THEN PostStart("recon", c)
                                         ELSE cb' = c /\ UNCHANGED <<disk, op>>
         \/ /\ c.dispatch = "ready" /\ ~PostedFor(c)
            /\ cb' = Tracked(c, timedOut)
            /\ op' = IF probe /\ ProbeDue(cb') THEN [kind |-> "probe"] ELSE NoOp
            /\ UNCHANGED disk
    /\ UNCHANGED <<fails, msgs, delivered, review, quiescing, gate, worker, now>>

\* reconcileWorkerWatchdog: the probe answered, found activity, or lost its callback.
ProbeLeaves ==
    /\ op.kind = "probe"
    /\ op' = NoOp
    /\ UNCHANGED <<butler, review, quiescing, gate, worker, now>>

\* ... or it confirmed that the turn is over, or stopped it.  A report that was
\* waiting for the turn to end now makes the recovery unnecessary.
ProbeRecovers ==
    /\ op.kind = "probe"
    /\ ~quiescing /\ Outstanding(cb) /\ ~Relevant(cb)
    /\ IF active THEN now < MaxTime /\ now' = now + 1 /\ ended' = now'
                 ELSE UNCHANGED <<now, ended>>
    /\ active' = FALSE
    /\ starting' = 0
    /\ cb' = IF report.at >= cb.at /\ report.at > 0 /\ cb.turn \in {0, report.turn} THEN cb
             ELSE [cb EXCEPT !.state = "missing", !.review = "queued", !.reason = "thread_recovery"]
    /\ op' = NoOp
    /\ UNCHANGED <<fails, msgs, delivered, disk, review, quiescing, gate,
                   turn, reply, report, marks>>

\* processPendingChatCallbacks on a relevant report.  A pause for the same report
\* and an unchanged blocker are left alone; a checklist blocker lists the open
\* points, so it may or may not be the same text.
LeftBlocked(c) ==
    /\ c.review = "blocked" /\ c.blockedAt = report.at
    /\ c.blocked \in {"paused", "stopped"} \/ (c.blocked = Blocker(report) /\ c.blocked # "verdict")

ProcessBlocked(c) ==
    /\ Relevant(c) /\ c.review = "blocked"
    /\ \/ LeftBlocked(c) /\ cb' = c
       \/ ~LeftBlocked(c) /\ cb' = Queue(c, "worker_callback")
       \/ c.blocked = "checklist" /\ cb' = Queue(c, "worker_callback")
    /\ Persist
    /\ UNCHANGED op

DirectReply(c) == c.next = "reply_to_operator" /\ report.status = "blocked"

ProcessDirectReply(c) ==
    /\ Relevant(c) /\ c.review # "blocked" /\ DirectReply(c)
    /\ IF c.slice \in {0, scope} THEN PostStart("direct", c)
                                 ELSE cb' = c /\ UNCHANGED <<disk, op>>

ProcessReport(c) ==
    /\ Relevant(c) /\ c.review # "blocked" /\ ~DirectReply(c)
    /\ cb' = IF c.state # "received" \/ c.reason # "worker_callback" \/ c.review = "idle"
             THEN [c EXCEPT !.state = "received", !.review = "queued", !.reason = "worker_callback"]
             ELSE c
    /\ Persist
    /\ UNCHANGED op

ProcessMissing(c) ==
    /\ ~Relevant(c) /\ c.state = "missing"
    /\ cb' = [c EXCEPT !.review = IF @ \in {"queued", "running"} THEN @ ELSE "queued",
                       !.reason = "thread_recovery"]
    /\ Persist
    /\ UNCHANGED op

ProcessPending ==
    /\ LockFree
    /\ ~quiescing
    /\ Outstanding(cb) /\ cb.dispatch = "ready"
    /\ LET c == IF Relevant(cb) THEN [cb EXCEPT !.term = report.at] ELSE cb
       IN  ProcessBlocked(c) \/ ProcessDirectReply(c) \/ ProcessReport(c) \/ ProcessMissing(c)
    /\ UNCHANGED <<fails, msgs, delivered, review, quiescing, gate, worker, now>>

\* Every save writes the callbacks of all jobs, so another job's save, or the one
\* that ends a reconciliation, may come at any time.
SaveCallbacks ==
    /\ disk' = [disk EXCEPT !.cb = cb, !.delivered = delivered]
    /\ UNCHANGED <<cb, fails, msgs, delivered, op, review, quiescing, gate, worker, now>>

-----------------------------------------------------------------------------
(* Operator controls *)

\* retryBlockedCallbackReviews.  Unlocked.
Retry ==
    /\ cb.review = "blocked" /\ cb.blocked \in {"paused", "stopped"}
    /\ fails' = 0
    /\ cb' = Queue([cb EXCEPT !.tries = 0],
                   IF cb.reason = "none" THEN "worker_callback" ELSE cb.reason)
    /\ Persist
    /\ UNCHANGED <<msgs, delivered, op, review, quiescing, gate, worker, now>>

\* resetCallbackReviewFailures after the authentication changed.  Unlocked, not saved.
AuthReset ==
    /\ ~quiescing
    /\ fails' = 0
    /\ cb' = IF cb.review = "blocked" /\ cb.blocked = "paused"
             THEN Queue(cb, IF cb.reason = "none" THEN "worker_callback" ELSE cb.reason) ELSE cb
    /\ UNCHANGED <<msgs, delivered, disk, op, review, quiescing, gate, worker, now>>

\* cancelCallbackReview and pauseCallbackReview: the operator's Stop, and a closing session.
Cancel ==
    /\ LockFree
    /\ cb.review \in {"running", "queued"}
    /\ fails' = 0
    /\ cb' = [cb EXCEPT !.review = "blocked", !.blocked = "stopped",
                        !.blockedAt = report.at, !.wait = FALSE]
    /\ Persist
    /\ UNCHANGED <<msgs, delivered, op, review, quiescing, gate, worker, now>>

Quiesce ==
    /\ ~quiescing
    /\ quiescing' = TRUE
    /\ UNCHANGED <<butler, op, review, gate, worker, now>>

\* stop_job: the Worker is stopped, then closeExternalWorkerDelegation.
StopJob ==
    /\ LockFree
    /\ IF active THEN now < MaxTime /\ now' = now + 1 /\ ended' = now'
                 ELSE UNCHANGED <<now, ended>>
    /\ active' = FALSE
    /\ starting' = 0
    /\ cb' = Closed(cb, "not_required")
    /\ fails' = 0
    /\ Persist
    /\ UNCHANGED <<msgs, delivered, op, review, quiescing, gate,
                   turn, reply, report, marks>>

\* removeExternalWorkerDelegation: the job is deleted or handed to another Worker.
Remove ==
    /\ LockFree
    /\ cb # NoCb
    /\ DetachTo(rv.pc)
    /\ cb' = NoCb
    /\ fails' = 0
    /\ Persist
    /\ UNCHANGED <<msgs, delivered, op, quiescing, gate, worker, now>>

-----------------------------------------------------------------------------
(* Crash and restart of Butler's process.  The Worker and its events survive. *)

\* normalizeCallbackEntry
Normalized(c) ==
    LET interrupted == c.review = "running" \/ (c.review = "blocked" /\ c.blocked = "paused")
        blocked == interrupted \/ c.review = "blocked"
    IN  [c EXCEPT !.reason    = CASE c.state = "received" -> "worker_callback"
                                  [] c.state = "missing"  -> "thread_recovery"
                                  [] OTHER                -> "none",
                  !.review    = IF blocked THEN "blocked" ELSE @,
                  !.blocked   = IF ~blocked THEN "none" ELSE IF @ = "none" THEN "paused" ELSE @,
                  !.blockedAt = IF ~blocked THEN 0 ELSE IF @ = 0 THEN c.term ELSE @,
                  !.wait      = @ /\ c.review = "queued"]

\* start: a paused review whose verdict is recorded needs no new attempt.
Resumed(c) ==
    IF c.review = "blocked" /\ c.blocked = "paused" /\ report.at > 0 /\ verdict[report.at] # "none"
    THEN [c EXCEPT !.review = "queued", !.blocked = "none", !.blockedAt = 0, !.wait = FALSE]
    ELSE c

CrashRestart ==
    LET c == Normalized(disk.cb) IN
    /\ cb' = Resumed(c)
    /\ fails' = IF c.review = "queued" /\ c.wait
                THEN Min2(ReviewMaxAttempts, Max2(1, c.tries)) ELSE 0
    /\ msgs' = disk.msgs
    /\ delivered' = disk.delivered
    /\ disk' = [disk EXCEPT !.cb = cb']
    /\ op' = NoOp /\ rv' = IdleRv /\ pend' = NoPend
    /\ quiescing' = FALSE
    /\ IF op.kind = "steer" /\ op.pc = "bound"
       THEN WorkerTakes(op.at) \/ UNCHANGED <<starting, marks>>
       ELSE UNCHANGED <<starting, marks>>
    /\ UNCHANGED <<gate, turn, active, ended, reply, report, now>>

-----------------------------------------------------------------------------
(* The Worker, as its events reach the store *)

WorkerReport ==
    /\ active /\ now < MaxTime
    /\ now' = now + 1
    /\ \E status \in Statuses :
         report' = [at |-> now', turn |-> turn, status |-> status]
    /\ UNCHANGED <<butler, op, review, quiescing, gate,
                   turn, active, starting, ended, reply, marks>>

TurnStart ==
    /\ ~active /\ starting # 0
    /\ turn' = turn + 1
    /\ active' = TRUE
    /\ marks' = marks \cup {<<starting, turn'>>}
    /\ starting' = 0
    /\ UNCHANGED <<butler, op, review, quiescing, gate, ended, reply, report, now>>

TurnEnd ==
    /\ active /\ now < MaxTime
    /\ now' = now + 1
    /\ active' = FALSE
    /\ ended' = now'
    /\ reply' \in {reply, now'}
    /\ UNCHANGED <<butler, op, review, quiescing, gate, turn, starting, report, marks>>

-----------------------------------------------------------------------------
(* A delegated job whose first turn runs and whose callback is registered. *)
Init ==
    /\ cb = NewCallback(1, 1, "ready", "review")
    /\ fails = 0
    /\ msgs = {} /\ delivered = {}
    /\ disk = [cb |-> cb, msgs |-> {}, delivered |-> {}]
    /\ op = NoOp /\ rv = IdleRv /\ pend = NoPend
    /\ quiescing = FALSE
    /\ scope = 1
    /\ ok \in BOOLEAN
    /\ verdict = [t \in 0..MaxTime |-> "none"]
    /\ turn = 1 /\ active = TRUE /\ starting = 0
    /\ ended = 0 /\ reply = 0 /\ report = NoReport
    /\ marks = {}
    /\ now = 1

Attempt ==
    \/ Begin \/ BeginFails \/ RecordVerdict \/ SkipVerdict \/ AttemptFails
    \/ Settle \/ SettleTimesOut \/ Terminalize \/ TerminalizeTimesOut \/ RecoverOrphan

Post == PostFails \/ PostAlready \/ PostWrite \/ PostCommit \/ PostSave

Steer ==
    \/ \E s \in Steers : SteerReserve(s[1], s[2], s[3])
    \/ SteerBind \/ SteerAccepted \/ SteerAmbiguous \/ SteerRejected

Tools == MainReply \/ SupervisorReply \/ ReviewPoints \/ DisproveFinding

Observe == Reconcile \/ ProbeLeaves \/ ProbeRecovers \/ ProcessPending \/ SaveCallbacks

Worker == WorkerReport \/ TurnStart \/ TurnEnd

Next ==
    \/ Attempt \/ Post \/ Steer \/ Tools \/ Observe \/ Worker
    \/ "hold"  \in Scenario /\ HoldContext
    \/ "retry" \in Scenario /\ Retry
    \/ "stop"  \in Scenario /\ Cancel
    \/ "auth"  \in Scenario /\ AuthReset
    \/ "end"   \in Scenario /\ (StopJob \/ Remove)
    \/ "close" \in Scenario /\ (Quiesce \/ (quiescing /\ Cancel))
    \/ "crash" \in Scenario /\ CrashRestart

Spec == Init /\ [][Next]_vars

\* Timers and provider deadlines end an attempt, store events and the periodic
\* reconciliation return, and the first-in first-out job lock serves everyone who
\* waits, however often others take it: strong fairness for its waiters.
Fairness ==
    /\ WF_vars(RecordVerdict \/ SkipVerdict) /\ WF_vars(AttemptFails)
    /\ WF_vars(RecoverOrphan)
    /\ WF_vars(Post) /\ WF_vars(SteerBind)
    /\ WF_vars(SteerAccepted \/ SteerAmbiguous \/ SteerRejected)
    /\ WF_vars(ProbeLeaves)
    /\ SF_vars(Settle) /\ SF_vars(Terminalize) /\ SF_vars(Begin)
    /\ SF_vars(ProcessPending) /\ SF_vars(Reconcile)

\* A post that is tried again and again goes through: its errors (rotating the
\* baseline, writing the message, the five seconds) are transient.
PostsRecover == SF_vars(PostWrite) /\ SF_vars(PostAlready \/ PostCommit)

LiveSpec == Spec /\ Fairness
HealthySpec == LiveSpec /\ PostsRecover

-----------------------------------------------------------------------------
(* Properties *)

Turns      == Times
Flags      == BOOLEAN
States     == {"waiting", "received", "missing", "closed"}
Dispatches == {"reserving", "ready"}
Closures   == {"none", "owed", "posted", "not_required"}
NextActions == {"review", "reply_to_operator"}
Reviews    == {"idle", "queued", "running", "blocked"}
Reasons    == {"none", "worker_callback", "thread_recovery"}
Blocks     == {"none", "checklist", "verdict", "rejected", "paused", "stopped"}
Failures   == 0..ReviewMaxAttempts
Tries      == 0..ReviewMaxAttempts + 1
Callback ==
    [at : Times, slice : Times, turn : Turns, state : States, dispatch : Dispatches,
     status : Closures, next : NextActions, review : Reviews, reason : Reasons,
     blocked : Blocks, blockedAt : Times, term : Times, tries : Tries, wait : Flags]
Id       == [slice : Times, turn : Turns]
Report   == [at : Times, turn : Turns, status : {"none", "completed", "blocked"}]
Message  == [id : Id, at : Times, rep : Report]
PostOps ==
    [kind : {"post"}, by : {"main", "tool", "review", "direct", "recon"},
     pc : {"already", "rotate", "written", "save"}, id : Id, msg : Message]
SteerOps ==
    [kind : {"steer"}, by : {"main", "tool"}, disp : {"preserve", "replace"},
     pc : {"reserved", "bound"}, at : Times, report : Times, cb : Callback,
     fails : Failures, scope : Times, ok : Flags]
Operation == {NoOp, [kind |-> "probe"]} \cup PostOps \cup SteerOps
Disk    == [cb : Callback, msgs : SUBSET Message, delivered : SUBSET Id]
Attempts == [pc : {"idle", "review", "supervise", "tool", "await"},
             obj : {"none", "same", "left", "orphan"}, rep : Times]
Pending  == [kind : {"none", "settle", "terminal"}, own : Flags]
Verdicts == [Times -> {"none", "accepted", "rejected"}]
Marks    == Times \X Turns

\* Every variable holds a value of its kind: the record shapes of the code's
\* callback, of its closeout messages and of the sections that hold the job lock.
TypeOK ==
    /\ cb \in Callback
    /\ fails \in Failures
    /\ msgs \in SUBSET Message /\ delivered \in SUBSET Id
    /\ disk \in Disk
    /\ op \in Operation
    /\ rv \in Attempts /\ pend \in Pending
    /\ quiescing \in Flags
    /\ scope \in Times /\ ok \in Flags
    /\ verdict \in Verdicts
    /\ turn \in Turns /\ active \in Flags /\ starting \in Times
    /\ ended \in Times /\ reply \in Times
    /\ report \in Report
    /\ marks \in SUBSET Marks
    /\ now \in Times

\* A closeout the operator can see in memory survives a crash: the message file
\* is written before anyone is told (postOperatorJobReply).
ShownIsDurable == msgs \subseteq disk.msgs

\* Recording a closeout as delivered never outlives the message itself: no crash
\* between the two state files leaves a delivered closeout without its message.
DeliveredHasMessage ==
    \A id \in disk.delivered : \E m \in disk.msgs : m.id \in {id, Legacy(id)}

\* The closeout of a turn within a work slice is shown once, across retries,
\* reconciliation, repeated posts and crashes between the two state files.
OneMessagePerCloseout ==
    \A m1, m2 \in disk.msgs : m1.id = m2.id => m1 = m2

\* A completed Worker report reaches the operator only once its adversarial
\* review accepted it (getOperatorCloseoutBlocker before every post).
CompletedCloseoutsWereAccepted ==
    \A m \in disk.msgs : m.rep.status = "completed" => verdict[m.rep.at] = "accepted"

\* Once a failure of an attempt is counted, by its timeout or its error, that
\* attempt's own closeout, still waiting for a write, is no longer posted.
CountedFailureDoesNotPost ==
    [][op.kind = "post" /\ op.by = "review" /\ cb'.status = "posted" => fails = 0]_cb

\* A review in progress always ends: whatever is lost, superseded or timed out,
\* somebody queues it again, blocks it or closes it.
RunningReviewEnds == cb.review = "running" ~> cb.review # "running"

\* A report that answers the outstanding request leads to its closeout, or to a
\* blocked review that shows the operator why, unless a newer request replaces it.
AnsweredIsSettled ==
    Outstanding(cb) /\ Relevant(cb) /\ cb.dispatch = "ready"
        ~> ~Outstanding(cb) \/ cb.review = "blocked" \/ ~Relevant(cb)

-----------------------------------------------------------------------------
(* Expectations that the code does not meet *)

\* Closing a callback as posted means that the operator got a message that
\* answers this request.
PostedMeansMessage ==
    cb.status = "posted" => \E m \in msgs : m.at >= cb.at

\* A review the operator stopped stays stopped for the report it was stopped on.
StoppedStaysStopped ==
    [][cb.review = "blocked" /\ cb.blocked = "stopped" /\ cb.blockedAt = report.at
         => cb'.review = "blocked" \/ ~Outstanding(cb')]_cb

=============================================================================
