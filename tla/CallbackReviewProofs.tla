------------------------ MODULE CallbackReviewProofs ------------------------
(***************************************************************************)
(* The type invariant of CallbackReview, for every clock bound, attempt    *)
(* limit and choice of messages.  It is not inductive by itself: nothing   *)
(* in the type of the turn counter bounds it.  A turn starts for a message *)
(* only, and every message moves the clock (TurnsBounded).                 *)
(***************************************************************************)
EXTENDS CallbackReview, TLAPS

\* Turns, those about to start included, are no more than the messages sent.
TurnsBounded ==
    turn + (IF starting # 0 THEN 1 ELSE 0) + (IF op.kind = "steer" THEN 1 ELSE 0) <= now

TInv == TypeOK /\ TurnsBounded

\* The values the code assigns are values of the fields they are assigned to.
LEMMA Values ==
    /\ 0 \in Times /\ \A t \in Times : t \in Turns
    /\ TRUE \in Flags /\ FALSE \in Flags /\ \A b \in Flags : b \in BOOLEAN
    /\ \A s \in {"waiting", "received", "missing", "closed"} : s \in States
    /\ \A s \in {"reserving", "ready"} : s \in Dispatches
    /\ \A s \in {"none", "owed", "posted", "not_required"} : s \in Closures
    /\ \A s \in {"review", "reply_to_operator"} : s \in NextActions
    /\ \A s \in {"idle", "queued", "running", "blocked"} : s \in Reviews
    /\ \A s \in {"none", "worker_callback", "thread_recovery"} : s \in Reasons
    /\ \A s \in {"none", "checklist", "verdict", "rejected", "paused", "stopped"} : s \in Blocks
    /\ 0 \in Tries /\ 0 \in Failures
    /\ \A f \in Failures : f + 1 \in Tries
  BY BoundsAssumption DEF Times, Turns, Flags, States, Dispatches, Closures, NextActions,
     Reviews, Reasons, Blocks, Tries, Failures

\* A request arms a well-formed callback.
LEMMA NewCallbackType ==
    ASSUME NEW at \in Times, NEW slice \in Times, NEW dispatch \in {"reserving", "ready"},
           NEW next \in {"review", "reply_to_operator"}
    PROVE  NewCallback(at, slice, dispatch, next) \in Callback
  BY Values DEF NewCallback, Callback

\* A job without a callback.
LEMMA NoCbType == NoCb \in Callback
  BY Values DEF NoCb, NewCallback, Callback

\* Closing, queueing, blocking and resetting keep a callback well formed.
LEMMA ClosedType ==
    ASSUME NEW c \in Callback, NEW status \in {"posted", "not_required"}
    PROVE  Closed(c, status) \in Callback
  BY Values DEF Closed, Callback

\* Queueing a review.
LEMMA QueueType ==
    ASSUME NEW c \in Callback, NEW reason \in Reasons
    PROVE  Queue(c, reason) \in Callback
  BY Values DEF Queue, Callback

\* Blocking a closeout.
LEMMA BlockType ==
    ASSUME NEW c \in Callback, NEW why \in Blocks, NEW reason \in Reasons, NEW at \in Times
    PROVE  Block(c, why, reason, at) \in Callback
  BY Values DEF Block, Callback

\* A review with nothing to post.
LEMMA IdleType ==
    ASSUME NEW c \in Callback
    PROVE  Idle(c) \in Callback
  BY Values DEF Idle, Callback

\* A counted failure queues or blocks the review.
LEMMA FailedReviewType ==
    ASSUME NEW c \in Callback, NEW failures, TypeOK
    PROVE  FailedReview(c, failures) \in Callback
  BY Values DEF FailedReview, Callback, TypeOK, Report

\* The failure counter stays within the attempts.
LEMMA CountFailureType ==
    ASSUME TypeOK
    PROVE  CountFailure \in Failures
  BY BoundsAssumption DEF CountFailure, TypeOK, Failures

\* Saving a well-formed callback keeps the files well formed.
LEMMA PersistType ==
    ASSUME TypeOK, cb' \in Callback, Persist
    PROVE  disk' \in Disk
  BY DEF Persist, TypeOK, Disk

\* Moving an attempt to a later stage.
LEMMA RvType ==
    ASSUME NEW r \in Attempts, NEW pc \in {"idle", "review", "supervise", "tool", "await"}
    PROVE  /\ [r EXCEPT !.pc = pc] \in Attempts
           /\ [r EXCEPT !.pc = pc, !.rep = 0] \in Attempts
           /\ IdleRv \in Attempts
  BY Values DEF Attempts, IdleRv

\* A mutation that waits for the lock.
LEMMA PendType ==
    ASSUME NEW kind \in {"none", "settle", "terminal"}, NEW own \in BOOLEAN
    PROVE  [kind |-> kind, own |-> own] \in Pending /\ NoPend \in Pending
  BY Values DEF Pending, NoPend, Flags

\* The number recorded for a new attempt.
LEMMA TriesType == ASSUME TypeOK PROVE fails + 1 \in Tries /\ fails + 1 \in Nat
  BY Values DEF TypeOK, Failures

\* The initial states are well typed.
LEMMA InitType == Init => TypeOK
PROOF
  <1> SUFFICES ASSUME Init PROVE TypeOK
    OBVIOUS
  <1>1. 1 \in Times /\ 0 \in Times /\ 1 \in Turns
    BY BoundsAssumption DEF Times, Turns
  <1>2. cb \in Callback
    BY <1>1, NewCallbackType DEF Init
  <1>3. report \in Report
    BY <1>1, Values DEF Init, NoReport, Report
  <1>4. op \in Operation /\ rv \in Attempts /\ pend \in Pending
    BY RvType, PendType, <1>1 DEF Init, Operation, IdleRv, Attempts
  <1>5. disk \in Disk
    BY <1>2 DEF Init, Disk
  <1>6. verdict \in Verdicts
    BY DEF Init, Verdicts, Times
  <1> QED
    BY <1>1, <1>2, <1>3, <1>4, <1>5, <1>6, Values DEF Init, TypeOK, Flags

\* Begin keeps every variable of its type.
LEMMA BeginType == ASSUME TypeOK, Begin PROVE TypeOK'
PROOF
  <1>1. cb' \in Callback
    <2>1. CASE cb.slice # 0 /\ cb.slice # scope
      BY <2>1, Values, ClosedType DEF Begin, TypeOK, Callback
    <2>2. CASE ~(cb.slice # 0 /\ cb.slice # scope)
      <3>1. cb' = [cb EXCEPT !.review = "running", !.tries = fails + 1, !.wait = FALSE]
        BY <2>2 DEF Begin
      <3>2. cb \in Callback /\ fails + 1 \in Tries
        BY TriesType DEF TypeOK
      <3> QED
        BY <3>1, <3>2, Values DEF Callback
    <2> QED BY <2>1, <2>2
  <1>2. disk' \in Disk
    BY <1>1, PersistType DEF Begin
  <1>3. rv' \in Attempts
    BY DEF Begin, TypeOK, Report, Attempts
  <1> QED
    BY <1>1, <1>2, <1>3 DEF Begin, TypeOK, gate, worker

\* BeginFails keeps every variable of its type.
LEMMA BeginFailsType == ASSUME TypeOK, BeginFails PROVE TypeOK'
PROOF
  <1>1. cb' \in Callback
    BY Values, TriesType DEF BeginFails, TypeOK, Callback
  <1> QED
    BY <1>1 DEF BeginFails, TypeOK, gate, worker, review

\* RecordVerdict keeps every variable of its type.
LEMMA RecordVerdictType == ASSUME TypeOK, RecordVerdict PROVE TypeOK'
PROOF
  <1>1. verdict' \in Verdicts
    BY DEF RecordVerdict, TypeOK, Verdicts
  <1>2. rv' \in Attempts
    BY RvType DEF RecordVerdict, TypeOK
  <1> QED
    BY <1>1, <1>2 DEF RecordVerdict, TypeOK, butler, worker

\* SkipVerdict keeps every variable of its type.
LEMMA SkipVerdictType == ASSUME TypeOK, SkipVerdict PROVE TypeOK'
PROOF
  <1>1. rv' \in Attempts /\ pend' \in Pending
    BY RvType, PendType DEF SkipVerdict, TypeOK
  <1> QED
    BY <1>1 DEF SkipVerdict, TypeOK, butler, gate, worker

\* AttemptFails keeps every variable of its type.
LEMMA AttemptFailsType == ASSUME TypeOK, AttemptFails PROVE TypeOK'
PROOF
  <1>1. rv' \in Attempts /\ pend' \in Pending
    BY RvType, PendType DEF AttemptFails, TypeOK
  <1> QED
    BY <1>1 DEF AttemptFails, TypeOK, butler, gate, worker

\* Settle keeps every variable of its type.
LEMMA SettleType == ASSUME TypeOK, Settle PROVE TypeOK'
PROOF
  <1>1. rv' \in Attempts /\ pend' \in Pending
    BY RvType, PendType DEF Settle, TypeOK, NoPend
  <1>2. cb' \in Callback /\ fails' \in Failures
    BY FailedReviewType, CountFailureType DEF Settle, TypeOK
  <1>3. disk' \in Disk
    BY <1>2, PersistType DEF Settle, TypeOK
  <1> QED
    BY <1>1, <1>2, <1>3 DEF Settle, TypeOK, gate, worker

\* SettleTimesOut keeps every variable of its type.
LEMMA SettleTimesOutType == ASSUME TypeOK, SettleTimesOut PROVE TypeOK'
  BY RvType DEF SettleTimesOut, TypeOK, butler, gate, worker

\* TerminalizeTimesOut keeps every variable of its type.
LEMMA TerminalizeTimesOutType == ASSUME TypeOK, TerminalizeTimesOut PROVE TypeOK'
PROOF
  <1>1. cb' \in Callback /\ fails' \in Failures
    BY FailedReviewType, CountFailureType DEF TerminalizeTimesOut, TerminalizationFails, TypeOK
  <1>2. disk' \in Disk
    BY <1>1, PersistType DEF TerminalizeTimesOut, TerminalizationFails, TypeOK
  <1>3. rv' \in Attempts
    BY RvType DEF TerminalizeTimesOut, TerminalizationFails, TypeOK
  <1> QED
    BY <1>1, <1>2, <1>3 DEF TerminalizeTimesOut, TypeOK, gate, worker

\* RecoverOrphan keeps every variable of its type.
LEMMA RecoverOrphanType == ASSUME TypeOK, RecoverOrphan PROVE TypeOK'
PROOF
  <1>1. cb' \in Callback /\ fails' \in Failures
    BY FailedReviewType, CountFailureType DEF RecoverOrphan, TypeOK
  <1>2. disk' \in Disk
    BY <1>1, PersistType DEF RecoverOrphan
  <1> QED
    BY <1>1, <1>2 DEF RecoverOrphan, TypeOK, review, gate, worker

\* Taking the callback object away from an attempt.
LEMMA DetachType ==
    ASSUME TypeOK, NEW pc \in {"idle", "review", "supervise", "tool", "await"}, DetachTo(pc)
    PROVE  rv' \in Attempts /\ pend' \in Pending
  BY Values DEF DetachTo, TypeOK, Attempts, Pending

\* The same, for a steer by either side.
LEMMA DetachCase ==
    ASSUME TypeOK, NEW by, DetachTo(IF by = "tool" THEN "tool" ELSE rv.pc)
    PROVE  rv' \in Attempts /\ pend' \in Pending
PROOF
  <1>1. CASE by = "tool"
    BY <1>1, DetachType
  <1>2. CASE by # "tool"
    BY <1>2, DetachType DEF TypeOK, Attempts
  <1> QED
    BY <1>1, <1>2

\* A steer that keeps the running attempt's object.
LEMMA PreservedType ==
    ASSUME NEW c \in Callback, NEW reason \in Reasons, NEW tries \in Tries
    PROVE  [c EXCEPT !.review = "running", !.reason = reason, !.tries = tries] \in Callback
  BY Values DEF Callback

\* The end of a tool call moves the attempt on.
LEMMA ToolEndsType ==
    ASSUME TypeOK, ToolSucceeds \/ ToolFails
    PROVE  rv' \in Attempts /\ pend' \in Pending
  BY RvType, PendType DEF ToolSucceeds, ToolFails, TypeOK

\* The end of a post moves the attempt on.
LEMMA PostEndsType ==
    ASSUME TypeOK, NEW by, PostEnds(by)
    PROVE  rv' \in Attempts /\ pend' \in Pending
  BY RvType, ToolEndsType DEF PostEnds, TypeOK

\* The closeout computed from a callback is a message.
LEMMA CloseoutType ==
    ASSUME TypeOK, NEW c \in Callback
    PROVE  /\ CloseoutId(c) \in Id
           /\ RelevantReport(c) \in Report
           /\ RelevantReport(c).at \in Times
           /\ Closeout(c) \in Message
PROOF
  <1>1. CloseoutId(c) \in Id
    BY DEF CloseoutId, Id, TypeOK, Callback, Report
  <1>2. RelevantReport(c) \in Report
    BY Values DEF RelevantReport, NoReport, Report, TypeOK
  <1>3. Closeout(c) \in Message
    BY <1>1, <1>2 DEF Closeout, Message, Callback
  <1> QED
    BY <1>1, <1>2, <1>3 DEF Report

\* A post that begins is an operation.
LEMMA PostOpType ==
    ASSUME TypeOK, NEW c \in Callback,
           NEW by \in {"main", "tool", "review", "direct", "recon"},
           NEW pc \in {"already", "rotate", "written", "save"}
    PROVE  PostOp(by, pc, c) \in PostOps
  BY CloseoutType DEF PostOp, PostOps

\* The gate answers with a blocker.
LEMMA BlockerType ==
    ASSUME NEW r
    PROVE  Blocker(r) \in {"none", "checklist", "verdict", "rejected"} /\ Blocker(r) \in Blocks
  BY DEF Blocker, Blocks

\* Starting a post leaves callback, section and files well formed.
LEMMA PostStartType ==
    ASSUME TypeOK, NEW c \in Callback,
           NEW by \in {"main", "tool", "review", "direct", "recon"}, PostStart(by, c)
    PROVE  /\ cb' \in Callback /\ op' \in Operation /\ disk' \in Disk
           /\ op' = op \/ op' \in PostOps
PROOF
  <1>1. CASE /\ op' \in {PostOp(by, "already", c), PostOp(by, "rotate", c)}
             /\ cb' = c /\ UNCHANGED disk
    BY <1>1, PostOpType DEF TypeOK, Operation
  <1>2. CASE /\ cb' = Block(c, Blocker(RelevantReport(c)),
                            IF Relevant(c) THEN "worker_callback" ELSE "thread_recovery",
                            RelevantReport(c).at)
             /\ Persist
             /\ UNCHANGED op
    <2>1. cb' \in Callback
      BY <1>2, BlockType, BlockerType, CloseoutType, Values
    <2> QED
      BY <1>2, <2>1, PersistType DEF TypeOK
  <1> QED
    BY <1>1, <1>2 DEF PostStart

\* PostFails keeps every variable of its type.
LEMMA PostFailsType == ASSUME TypeOK, PostFails PROVE TypeOK'
PROOF
  <1> DEFINE restored == IF op.pc = "written" THEN [disk EXCEPT !.msgs = msgs] ELSE disk
  <1>1. op' \in Operation
    BY DEF PostFails, Operation
  <1>2. restored \in Disk
    BY DEF TypeOK, Disk
  <1>3. CASE op.by = "review" /\ rv.pc = "await"
    <2>1. rv' \in Attempts /\ pend' \in Pending
      BY <1>3, RvType DEF PostFails, TypeOK
    <2>2. cb' \in Callback /\ fails' \in Failures
      BY <1>3, FailedReviewType, CountFailureType DEF PostFails, TypeOK
    <2>3. disk' = restored \/ disk' = [restored EXCEPT !.cb = cb', !.delivered = delivered]
      BY <1>3 DEF PostFails
    <2>4. disk' \in Disk
      BY <1>2, <2>2, <2>3 DEF TypeOK, Disk
    <2> QED
      BY <1>1, <2>1, <2>2, <2>4 DEF PostFails, TypeOK, gate, worker
  <1>4. CASE ~(op.by = "review" /\ rv.pc = "await")
    <2>1. rv' \in Attempts /\ pend' \in Pending
      BY <1>4, ToolEndsType DEF PostFails, TypeOK
    <2>2. disk' = restored /\ UNCHANGED <<cb, fails>>
      BY <1>4 DEF PostFails
    <2> QED
      BY <1>1, <1>2, <2>1, <2>2 DEF PostFails, TypeOK, gate, worker
  <1> QED
    BY <1>3, <1>4

\* What is known of the section in progress when it is a post.
LEMMA PostFields ==
    ASSUME TypeOK, op.kind = "post"
    PROVE  /\ op \in PostOps /\ op.id \in Id /\ op.msg \in Message
           /\ NoOp \in Operation
           /\ \A pc \in {"written", "save"} :
                /\ [op EXCEPT !.pc = pc] \in PostOps
                /\ [op EXCEPT !.pc = pc].kind = "post"
                /\ [op EXCEPT !.pc = pc].pc = pc
                /\ [op EXCEPT !.pc = pc].id = op.id
                /\ [op EXCEPT !.pc = pc].msg = op.msg
PROOF
  <1>1. op \in PostOps
    BY DEF TypeOK, Operation, NoOp, SteerOps
  <1> QED
    BY <1>1 DEF PostOps, Operation

\* PostAlready keeps every variable of its type.
LEMMA PostAlreadyType == ASSUME TypeOK, PostAlready PROVE TypeOK'
PROOF
  <1>1. cb' \in Callback
    BY ClosedType DEF PostAlready, TypeOK
  <1>2. delivered' \in SUBSET Id /\ op' \in Operation
    BY PostFields DEF PostAlready, TypeOK
  <1>3. disk' \in Disk
    BY <1>1, <1>2 DEF PostAlready, TypeOK, Disk
  <1>4. rv' \in Attempts /\ pend' \in Pending
    BY PostEndsType DEF PostAlready
  <1> QED
    BY <1>1, <1>2, <1>3, <1>4 DEF PostAlready, TypeOK, gate, worker

\* PostWrite keeps every variable of its type.
LEMMA PostWriteType == ASSUME TypeOK, PostWrite PROVE TypeOK'
PROOF
  <1>1. op' \in Operation
    BY PostFields DEF PostWrite, Operation
  <1>2. disk' \in Disk
    BY PostFields DEF PostWrite, TypeOK, Disk
  <1> QED
    BY <1>1, <1>2 DEF PostWrite, TypeOK, review, gate, worker

\* PostCommit keeps every variable of its type.
LEMMA PostCommitType == ASSUME TypeOK, PostCommit PROVE TypeOK'
PROOF
  <1>1. op' \in Operation
    BY PostFields DEF PostCommit, Operation
  <1>2. cb' \in Callback
    BY ClosedType DEF PostCommit, TypeOK
  <1>3. msgs' \in SUBSET Message /\ delivered' \in SUBSET Id
    BY PostFields DEF PostCommit, TypeOK
  <1> QED
    BY <1>1, <1>2, <1>3 DEF PostCommit, TypeOK, review, gate, worker

\* PostSave keeps every variable of its type.
LEMMA PostSaveType == ASSUME TypeOK, PostSave PROVE TypeOK'
PROOF
  <1>1. disk' \in Disk /\ op' \in Operation
    BY DEF PostSave, TypeOK, Disk, Operation
  <1>2. rv' \in Attempts /\ pend' \in Pending
    BY PostEndsType DEF PostSave
  <1> QED
    BY <1>1, <1>2 DEF PostSave, TypeOK, gate, worker

\* MainReply keeps every variable of its type.
LEMMA MainReplyType == ASSUME TypeOK, MainReply PROVE TypeOK'
PROOF
  <1>1. cb' \in Callback /\ op' \in Operation /\ disk' \in Disk
    BY PostStartType DEF MainReply, TypeOK
  <1> QED
    BY <1>1 DEF MainReply, TypeOK, review, gate, worker

\* SupervisorReply keeps every variable of its type.
LEMMA SupervisorReplyType == ASSUME TypeOK, SupervisorReply PROVE TypeOK'
PROOF
  <1>1. cb' \in Callback /\ op' \in Operation /\ disk' \in Disk
    BY PostStartType DEF SupervisorReply, TypeOK
  <1>2. rv' \in Attempts /\ pend' \in Pending
    BY RvType, PendType DEF SupervisorReply, TypeOK
  <1> QED
    BY <1>1, <1>2 DEF SupervisorReply, TypeOK, gate, worker

\* Terminalize keeps every variable of its type.
LEMMA TerminalizeType == ASSUME TypeOK, Terminalize PROVE TypeOK'
PROOF
  <1>1. rv' \in Attempts /\ pend' \in Pending
    BY RvType, PendType DEF Terminalize, TypeOK
  <1>2. fails' \in Failures
    BY Values DEF Terminalize, TypeOK
  <1>3. cb' \in Callback /\ op' \in Operation /\ disk' \in Disk
    <2>1. CASE UNCHANGED <<cb, disk, op>>
      BY <2>1 DEF TypeOK
    <2>2. CASE PostStart("review", cb)
      BY <2>2, PostStartType DEF TypeOK
    <2>3. CASE /\ cb' = Block(cb, Blocker(RelevantReport(cb)),
                              IF cb.state = "missing" THEN "thread_recovery" ELSE "worker_callback",
                              RelevantReport(cb).at)
               /\ Persist /\ UNCHANGED op
      BY <2>3, BlockType, BlockerType, CloseoutType, PersistType, Values DEF TypeOK
    <2>4. CASE cb' = Idle(cb) /\ Persist /\ UNCHANGED op
      BY <2>4, IdleType, PersistType DEF TypeOK
    <2> QED
      BY <2>1, <2>2, <2>3, <2>4 DEF Terminalize
  <1> QED
    BY <1>1, <1>2, <1>3 DEF Terminalize, TypeOK, gate, worker

\* ReviewPoints keeps every variable of its type.
LEMMA ReviewPointsType == ASSUME TypeOK, ReviewPoints PROVE TypeOK'
  BY DEF ReviewPoints, TypeOK, Flags, butler, review, worker

\* DisproveFinding keeps every variable of its type.
LEMMA DisproveFindingType == ASSUME TypeOK, DisproveFinding PROVE TypeOK'
PROOF
  <1>1. verdict' \in Verdicts
    BY DEF DisproveFinding, TypeOK, Verdicts
  <1> QED
    BY <1>1 DEF DisproveFinding, TypeOK, butler, review, worker

\* The clock may advance within its bound.
LEMMA TickType ==
    ASSUME TypeOK, now < MaxTime
    PROVE  now + 1 \in Times
  BY BoundsAssumption DEF TypeOK, Times

\* What is known of the section in progress when it is a steer.
LEMMA SteerFields ==
    ASSUME TypeOK, op.kind = "steer"
    PROVE  /\ op \in SteerOps /\ op.at \in Times /\ op.report \in Times /\ op.cb \in Callback
           /\ op.fails \in Failures /\ op.scope \in Times /\ op.ok \in Flags
           /\ [op EXCEPT !.pc = "bound"] \in SteerOps
           /\ [op EXCEPT !.pc = "bound"].kind = "steer"
           /\ NoOp \in Operation
PROOF
  <1>1. op \in SteerOps
    BY DEF TypeOK, Operation, NoOp, PostOps
  <1> QED
    BY <1>1 DEF SteerOps, Operation

\* The Worker takes a message.
LEMMA WorkerTakesType ==
    ASSUME TypeOK, NEW at \in Times, WorkerTakes(at)
    PROVE  starting' \in Times /\ marks' \in SUBSET Marks
  BY DEF WorkerTakes, TypeOK, Marks

\* Marking the dispatch keeps callback and files well formed.
LEMMA MarkDispatchedType ==
    ASSUME TypeOK, MarkDispatched
    PROVE  cb' \in Callback /\ disk' \in Disk
PROOF
  <1>1. [cb EXCEPT !.dispatch = "ready", !.turn = 0] \in Callback
    BY Values DEF TypeOK, Callback
  <1> QED
    BY <1>1, PersistType DEF MarkDispatched, TypeOK

\* SteerReserve keeps every variable of its type.
LEMMA SteerReserveType ==
    ASSUME TypeOK, NEW s \in Steers, SteerReserve(s[1], s[2], s[3])
    PROVE  TypeOK'
PROOF
  <1> DEFINE new == NewCallback(now', IF s[2] = "replace" THEN 0 ELSE scope, "reserving", s[3])
  <1>1. /\ s[1] \in {"main", "tool"} /\ s[2] \in {"preserve", "replace"}
        /\ s[3] \in {"review", "reply_to_operator"}
    BY InputsAssumption
  <1>2. now' \in Times
    BY TickType DEF SteerReserve
  <1>3. new \in Callback
    BY <1>1, <1>2, Values, NewCallbackType DEF TypeOK
  <1>4. ASSUME ReplacesObject(s[1], s[2])
        PROVE  cb' \in Callback /\ rv' \in Attempts /\ pend' \in Pending
    <2>1. cb' = new /\ DetachTo(IF s[1] = "tool" THEN "tool" ELSE rv.pc)
      BY <1>4 DEF SteerReserve
    <2> QED
      BY <1>3, <2>1, DetachCase
  <1>5. ASSUME ~ReplacesObject(s[1], s[2])
        PROVE  cb' \in Callback /\ rv' \in Attempts /\ pend' \in Pending
    <2>1. /\ cb' = [new EXCEPT !.review = "running", !.reason = cb.reason, !.tries = cb.tries]
          /\ rv' = [rv EXCEPT !.pc = "tool"] /\ UNCHANGED pend
      BY <1>5 DEF SteerReserve
    <2>2. cb.reason \in Reasons /\ cb.tries \in Tries
      BY DEF TypeOK, Callback
    <2>3. cb' \in Callback
      BY <1>3, <2>1, <2>2, PreservedType
    <2> QED
      BY <2>1, <2>3, RvType DEF TypeOK
  <1>6. cb' \in Callback /\ rv' \in Attempts /\ pend' \in Pending
    BY <1>4, <1>5
  <1>7. op' \in SteerOps
    BY <1>1, <1>2 DEF SteerReserve, SteerOps, TypeOK, Report
  <1>8. disk' \in Disk
    BY <1>6, PersistType DEF SteerReserve
  <1>9. fails' \in Failures
    BY Values DEF SteerReserve
  <1> QED
    BY <1>2, <1>6, <1>7, <1>8, <1>9 DEF SteerReserve, TypeOK, Operation, gate, worker

\* SteerBind keeps every variable of its type.
LEMMA SteerBindType == ASSUME TypeOK, SteerBind PROVE TypeOK'
PROOF
  <1>1. scope' \in Times /\ ok' \in Flags
    BY SteerFields, Values DEF SteerBind, TypeOK
  <1>2. cb' \in Callback
    BY <1>1 DEF SteerBind, TypeOK, Callback
  <1>3. disk' \in Disk
    BY <1>2, PersistType DEF SteerBind
  <1>4. op' \in Operation
    BY SteerFields DEF SteerBind, Operation
  <1> QED
    BY <1>1, <1>2, <1>3, <1>4 DEF SteerBind, TypeOK, review, worker

\* SteerAccepted keeps every variable of its type.
LEMMA SteerAcceptedType == ASSUME TypeOK, SteerAccepted PROVE TypeOK'
PROOF
  <1>1. starting' \in Times /\ marks' \in SUBSET Marks
    BY SteerFields, WorkerTakesType DEF SteerAccepted
  <1>2. cb' \in Callback /\ disk' \in Disk
    BY MarkDispatchedType DEF SteerAccepted
  <1>3. rv' \in Attempts /\ pend' \in Pending
    BY ToolEndsType DEF SteerAccepted, TypeOK
  <1>4. op' \in Operation
    BY DEF SteerAccepted, Operation
  <1> QED
    BY <1>1, <1>2, <1>3, <1>4 DEF SteerAccepted, TypeOK, gate

\* SteerAmbiguous keeps every variable of its type.
LEMMA SteerAmbiguousType == ASSUME TypeOK, SteerAmbiguous PROVE TypeOK'
PROOF
  <1>1. starting' \in Times /\ marks' \in SUBSET Marks
    BY SteerFields, WorkerTakesType DEF SteerAmbiguous, TypeOK
  <1>2. cb' \in Callback /\ disk' \in Disk
    BY MarkDispatchedType DEF SteerAmbiguous
  <1>3. rv' \in Attempts /\ pend' \in Pending
    BY ToolEndsType DEF SteerAmbiguous, TypeOK
  <1>4. op' \in Operation
    BY DEF SteerAmbiguous, Operation
  <1> QED
    BY <1>1, <1>2, <1>3, <1>4 DEF SteerAmbiguous, TypeOK, gate

\* SteerRejected keeps every variable of its type.
LEMMA SteerRejectedType == ASSUME TypeOK, SteerRejected PROVE TypeOK'
PROOF
  <1>1. starting' \in Times /\ marks' \in SUBSET Marks
    BY SteerFields, WorkerTakesType DEF SteerRejected, TypeOK
  <1>2. /\ cb' \in Callback /\ fails' \in Failures /\ disk' \in Disk
        /\ scope' \in Times /\ ok' \in Flags
    <2>1. CASE quiescing
      BY <2>1 DEF SteerRejected, TypeOK
    <2>2. CASE ~quiescing
      <3>1. [op.cb EXCEPT !.review = "queued", !.wait = FALSE] \in Callback
        BY SteerFields, Values DEF SteerRejected, Callback
      <3>2. cb' \in Callback
        BY <2>2, <3>1, SteerFields, NoCbType DEF SteerRejected
      <3>3. /\ fails' \in Failures /\ scope' \in Times /\ ok' \in Flags
        BY <2>2, SteerFields DEF SteerRejected, TypeOK
      <3> QED
        BY <2>2, <3>2, <3>3, PersistType DEF SteerRejected
    <2> QED
      BY <2>1, <2>2
  <1>3. rv' \in Attempts /\ pend' \in Pending
    BY ToolEndsType DEF SteerRejected, TypeOK
  <1>4. op' \in Operation
    BY DEF SteerRejected, Operation
  <1> QED
    BY <1>1, <1>2, <1>3, <1>4 DEF SteerRejected, TypeOK

\* HoldContext keeps every variable of its type.
LEMMA HoldContextType == ASSUME TypeOK, HoldContext PROVE TypeOK'
PROOF
  <1>1. now' \in Times
    BY TickType DEF HoldContext
  <1>2. cb' \in Callback
    BY <1>1, NewCallbackType DEF HoldContext, TypeOK, Callback
  <1>3. rv' \in Attempts /\ pend' \in Pending
    BY DetachType DEF HoldContext, TypeOK, Attempts
  <1>4. disk' \in Disk
    BY <1>2, PersistType DEF HoldContext
  <1> QED
    BY <1>1, <1>2, <1>3, <1>4, Values DEF HoldContext, TypeOK, gate, worker

\* Reconciling a dispatch marker names a turn that exists.
LEMMA DispatchSeenType ==
    ASSUME TypeOK, NEW c \in Callback, NEW expired
    PROVE  DispatchSeen(c, expired) \in Callback
PROOF
  <1> DEFINE seen == {m \in marks : m[1] = c.at}
             t == IF c.turn = 0 /\ seen # {} THEN (CHOOSE m \in seen : TRUE)[2] ELSE c.turn
             d == IF seen # {} \/ expired THEN "ready" ELSE c.dispatch
  <1>1. t \in Turns
    <2>1. CASE c.turn = 0 /\ seen # {}
      <3>1. (CHOOSE m \in seen : TRUE) \in seen
        BY <2>1
      <3>2. (CHOOSE m \in seen : TRUE) \in Times \X Turns
        BY <3>1 DEF TypeOK, Marks
      <3> QED
        BY <2>1, <3>2
    <2> QED
      BY <2>1 DEF Callback
  <1>2. d \in Dispatches
    BY Values DEF Callback
  <1>3. DispatchSeen(c, expired) = [c EXCEPT !.turn = t, !.dispatch = d]
    BY DEF DispatchSeen
  <1> HIDE DEF t, d
  <1> QED
    BY <1>1, <1>2, <1>3 DEF Callback

\* Tracking the Worker keeps the callback well formed.
LEMMA TrackedType ==
    ASSUME TypeOK, NEW c \in Callback, NEW timedOut
    PROVE  Tracked(c, timedOut) \in Callback
PROOF
  <1> DEFINE state == IF Relevant(c) THEN "received"
                      ELSE IF timedOut /\ Recoverable(c) THEN "missing" ELSE "waiting"
             term   == IF Relevant(c) THEN report.at ELSE c.term
             rev    == IF state = "waiting" THEN c.review ELSE "queued"
             reason == CASE state = "received" -> "worker_callback"
                         [] state = "missing"  -> "thread_recovery"
                         [] OTHER              -> c.reason
  <1>1. state \in States /\ term \in Times /\ rev \in Reviews /\ reason \in Reasons
    BY Values DEF TypeOK, Report, Callback
  <1>2. Tracked(c, timedOut) = IF state = c.state THEN c
          ELSE [c EXCEPT !.state = state, !.term = term, !.review = rev, !.reason = reason]
    BY DEF Tracked
  <1> HIDE DEF state, term, rev, reason
  <1> QED
    BY <1>1, <1>2 DEF Callback

\* Reconcile keeps every variable of its type.
LEMMA ReconcileType == ASSUME TypeOK, Reconcile PROVE TypeOK'
PROOF
  <1>1. PICK expired \in BOOLEAN, timedOut \in BOOLEAN, probe \in BOOLEAN :
          LET c == DispatchSeen(cb, expired) IN
          \/ cb' = c /\ UNCHANGED <<disk, op>>
          \/ PostStart("recon", c)
          \/ /\ cb' = Tracked(c, timedOut)
             /\ op' = IF probe /\ ProbeDue(cb') THEN [kind |-> "probe"] ELSE NoOp
             /\ UNCHANGED disk
    BY DEF Reconcile
  <1>2. DispatchSeen(cb, expired) \in Callback
    BY DispatchSeenType DEF TypeOK
  <1>3. cb' \in Callback /\ op' \in Operation /\ disk' \in Disk
    BY <1>1, <1>2, PostStartType, TrackedType DEF TypeOK, Operation
  <1> QED
    BY <1>3 DEF Reconcile, TypeOK, review, gate, worker

\* ProbeLeaves keeps every variable of its type.
LEMMA ProbeLeavesType == ASSUME TypeOK, ProbeLeaves PROVE TypeOK'
  BY DEF ProbeLeaves, TypeOK, Operation, butler, review, gate, worker

\* ProbeRecovers keeps every variable of its type.
LEMMA ProbeRecoversType == ASSUME TypeOK, ProbeRecovers PROVE TypeOK'
PROOF
  <1>1. now' \in Times /\ ended' \in Times
    BY TickType DEF ProbeRecovers, TypeOK
  <1>2. cb' \in Callback
    BY Values DEF ProbeRecovers, TypeOK, Callback
  <1> QED
    BY <1>1, <1>2, Values DEF ProbeRecovers, TypeOK, Operation, review, gate

\* ProcessPending keeps every variable of its type.
LEMMA ProcessPendingType == ASSUME TypeOK, ProcessPending PROVE TypeOK'
PROOF
  <1> DEFINE c == IF Relevant(cb) THEN [cb EXCEPT !.term = report.at] ELSE cb
  <1>1. c \in Callback
    BY DEF TypeOK, Callback, Report
  <1>2. ProcessBlocked(c) \/ ProcessDirectReply(c) \/ ProcessReport(c) \/ ProcessMissing(c)
    BY DEF ProcessPending
  <1> HIDE DEF c
  <1>3. ASSUME ProcessBlocked(c)
        PROVE  cb' \in Callback /\ op' \in Operation /\ disk' \in Disk
    BY <1>1, <1>3, QueueType, PersistType, Values DEF ProcessBlocked, TypeOK
  <1>4. ASSUME ProcessDirectReply(c)
        PROVE  cb' \in Callback /\ op' \in Operation /\ disk' \in Disk
    BY <1>1, <1>4, PostStartType DEF ProcessDirectReply, TypeOK
  <1>5. ASSUME ProcessReport(c)
        PROVE  cb' \in Callback /\ op' \in Operation /\ disk' \in Disk
    <2>1. [c EXCEPT !.state = "received", !.review = "queued", !.reason = "worker_callback"] \in Callback
      BY <1>1, Values DEF Callback
    <2> QED
      BY <1>1, <1>5, <2>1, PersistType DEF ProcessReport, TypeOK
  <1>6. ASSUME ProcessMissing(c)
        PROVE  cb' \in Callback /\ op' \in Operation /\ disk' \in Disk
    <2>1. cb' \in Callback
      BY <1>1, <1>6, Values DEF ProcessMissing, Callback
    <2> QED
      BY <1>6, <2>1, PersistType DEF ProcessMissing, TypeOK
  <1>7. cb' \in Callback /\ op' \in Operation /\ disk' \in Disk
    BY <1>2, <1>3, <1>4, <1>5, <1>6
  <1> QED
    BY <1>7 DEF ProcessPending, TypeOK, review, gate, worker

\* SaveCallbacks keeps every variable of its type.
LEMMA SaveCallbacksType == ASSUME TypeOK, SaveCallbacks PROVE TypeOK'
PROOF
  <1>1. disk' \in Disk
    BY DEF SaveCallbacks, TypeOK, Disk
  <1> QED
    BY <1>1 DEF SaveCallbacks, TypeOK, review, gate, worker

\* Retry keeps every variable of its type.
LEMMA RetryType == ASSUME TypeOK, Retry PROVE TypeOK'
PROOF
  <1>1. [cb EXCEPT !.tries = 0] \in Callback
    BY Values DEF TypeOK, Callback
  <1>2. cb' \in Callback
    BY <1>1, QueueType, Values DEF Retry, TypeOK, Callback
  <1>3. disk' \in Disk
    BY <1>2, PersistType DEF Retry
  <1> QED
    BY <1>2, <1>3, Values DEF Retry, TypeOK, review, gate, worker

\* AuthReset keeps every variable of its type.
LEMMA AuthResetType == ASSUME TypeOK, AuthReset PROVE TypeOK'
PROOF
  <1>1. cb' \in Callback
    BY QueueType, Values DEF AuthReset, TypeOK, Callback
  <1> QED
    BY <1>1, Values DEF AuthReset, TypeOK, review, gate, worker

\* Cancel keeps every variable of its type.
LEMMA CancelType == ASSUME TypeOK, Cancel PROVE TypeOK'
PROOF
  <1>1. cb' \in Callback
    BY Values DEF Cancel, TypeOK, Callback, Report
  <1>2. disk' \in Disk
    BY <1>1, PersistType DEF Cancel
  <1> QED
    BY <1>1, <1>2, Values DEF Cancel, TypeOK, review, gate, worker

\* Quiesce keeps every variable of its type.
LEMMA QuiesceType == ASSUME TypeOK, Quiesce PROVE TypeOK'
  BY Values DEF Quiesce, TypeOK, butler, review, gate, worker

\* StopJob keeps every variable of its type.
LEMMA StopJobType == ASSUME TypeOK, StopJob PROVE TypeOK'
PROOF
  <1>1. now' \in Times /\ ended' \in Times
    BY TickType DEF StopJob, TypeOK
  <1>2. cb' \in Callback
    BY ClosedType DEF StopJob, TypeOK
  <1>3. disk' \in Disk
    BY <1>2, PersistType DEF StopJob
  <1> QED
    BY <1>1, <1>2, <1>3, Values DEF StopJob, TypeOK, review, gate

\* Remove keeps every variable of its type.
LEMMA RemoveType == ASSUME TypeOK, Remove PROVE TypeOK'
PROOF
  <1>1. cb' \in Callback
    BY NoCbType DEF Remove
  <1>2. rv' \in Attempts /\ pend' \in Pending
    BY DetachType DEF Remove, TypeOK, Attempts
  <1>3. disk' \in Disk
    BY <1>1, PersistType DEF Remove
  <1> QED
    BY <1>1, <1>2, <1>3, Values DEF Remove, TypeOK, gate, worker

\* Loading a saved callback yields a callback.
LEMMA NormalizedType ==
    ASSUME NEW c \in Callback
    PROVE  Normalized(c) \in Callback
PROOF
  <1> DEFINE interrupted == c.review = "running" \/ (c.review = "blocked" /\ c.blocked = "paused")
             isBlocked == interrupted \/ c.review = "blocked"
             reason    == CASE c.state = "received" -> "worker_callback"
                            [] c.state = "missing"  -> "thread_recovery"
                            [] OTHER                -> "none"
             rev       == IF isBlocked THEN "blocked" ELSE c.review
             blocked   == IF ~isBlocked THEN "none" ELSE IF c.blocked = "none" THEN "paused" ELSE c.blocked
             blockedAt == IF ~isBlocked THEN 0 ELSE IF c.blockedAt = 0 THEN c.term ELSE c.blockedAt
             wait      == c.wait /\ c.review = "queued"
  <1>1. /\ reason \in Reasons /\ rev \in Reviews /\ blocked \in Blocks
        /\ blockedAt \in Times
    BY Values DEF Callback
  <1>2. wait \in Flags
    BY DEF Flags
  <1>3. Normalized(c) = [c EXCEPT !.reason = reason, !.review = rev, !.blocked = blocked,
                                  !.blockedAt = blockedAt, !.wait = wait]
    BY DEF Normalized
  <1> HIDE DEF reason, rev, blocked, blockedAt, wait
  <1> QED
    BY <1>1, <1>2, <1>3 DEF Callback

\* Resuming a reviewed callback yields a callback.
LEMMA ResumedType ==
    ASSUME NEW c \in Callback
    PROVE  Resumed(c) \in Callback
  BY Values DEF Resumed, Callback

\* The failures restored from the saved attempt number.
LEMMA ResumedFailuresType ==
    ASSUME NEW t \in Tries
    PROVE  Min2(ReviewMaxAttempts, Max2(1, t)) \in Failures
  BY BoundsAssumption DEF Min2, Max2, Tries, Failures

\* CrashRestart keeps every variable of its type.
LEMMA CrashRestartType == ASSUME TypeOK, CrashRestart PROVE TypeOK'
PROOF
  <1> DEFINE c == Normalized(disk.cb)
  <1>1. c \in Callback /\ disk.cb \in Callback
    BY NormalizedType DEF TypeOK, Disk
  <1>2. cb' = Resumed(c)
    BY DEF CrashRestart
  <1>3. fails' = IF c.review = "queued" /\ c.wait
                 THEN Min2(ReviewMaxAttempts, Max2(1, c.tries)) ELSE 0
    BY DEF CrashRestart
  <1> HIDE DEF c
  <1>4. cb' \in Callback
    BY <1>1, <1>2, ResumedType
  <1>5. fails' \in Failures
    BY <1>1, <1>3, ResumedFailuresType, Values DEF Callback
  <1>6. disk' \in Disk /\ msgs' \in SUBSET Message /\ delivered' \in SUBSET Id
    BY <1>4 DEF CrashRestart, TypeOK, Disk
  <1>7. starting' \in Times /\ marks' \in SUBSET Marks
    BY SteerFields, WorkerTakesType DEF CrashRestart, TypeOK
  <1>8. op' \in Operation /\ rv' \in Attempts /\ pend' \in Pending
    BY RvType, PendType, Values DEF CrashRestart, Operation, Attempts, IdleRv
  <1> QED
    BY <1>4, <1>5, <1>6, <1>7, <1>8, Values DEF CrashRestart, TypeOK, gate

\* WorkerReport keeps every variable of its type.
LEMMA WorkerReportType == ASSUME TypeOK, WorkerReport PROVE TypeOK'
PROOF
  <1>1. now' \in Times
    BY TickType DEF WorkerReport
  <1>2. report' \in Report
    BY <1>1, InputsAssumption DEF WorkerReport, TypeOK, Report
  <1> QED
    BY <1>1, <1>2 DEF WorkerReport, TypeOK, butler, review, gate

\* A turn that starts is within bounds because a message started it.
LEMMA TurnStartType == ASSUME TypeOK, TurnsBounded, TurnStart PROVE TypeOK'
PROOF
  <1>1. turn' \in Turns
    BY BoundsAssumption DEF TurnStart, TurnsBounded, TypeOK, Turns, Times
  <1>2. marks' \in SUBSET Marks
    BY <1>1 DEF TurnStart, TypeOK, Marks
  <1> QED
    BY <1>1, <1>2, Values DEF TurnStart, TypeOK, butler, review, gate

\* TurnEnd keeps every variable of its type.
LEMMA TurnEndType == ASSUME TypeOK, TurnEnd PROVE TypeOK'
PROOF
  <1>1. now' \in Times /\ ended' \in Times /\ reply' \in Times
    BY TickType DEF TurnEnd, TypeOK
  <1> QED
    BY <1>1, Values DEF TurnEnd, TypeOK, butler, review, gate

\* Every step keeps the state well typed.
LEMMA NextType ==
    ASSUME TypeOK, TurnsBounded, Next
    PROVE  TypeOK'
PROOF
  <1>1. CASE Attempt
    BY <1>1, BeginType, BeginFailsType, RecordVerdictType, SkipVerdictType, AttemptFailsType,
       SettleType, SettleTimesOutType, TerminalizeType, TerminalizeTimesOutType,
       RecoverOrphanType DEF Attempt
  <1>2. CASE Post
    BY <1>2, PostFailsType, PostAlreadyType, PostWriteType, PostCommitType, PostSaveType DEF Post
  <1>3. CASE Steer
    BY <1>3, SteerReserveType, SteerBindType, SteerAcceptedType, SteerAmbiguousType,
       SteerRejectedType DEF Steer
  <1>4. CASE Tools
    BY <1>4, MainReplyType, SupervisorReplyType, ReviewPointsType, DisproveFindingType DEF Tools
  <1>5. CASE Observe
    BY <1>5, ReconcileType, ProbeLeavesType, ProbeRecoversType, ProcessPendingType,
       SaveCallbacksType DEF Observe
  <1>6. CASE Worker
    BY <1>6, WorkerReportType, TurnStartType, TurnEndType DEF Worker
  <1>7. CASE HoldContext \/ Retry \/ Cancel \/ AuthReset \/ StopJob \/ Remove \/ Quiesce \/ CrashRestart
    BY <1>7, HoldContextType, RetryType, CancelType, AuthResetType, StopJobType, RemoveType,
       QuiesceType, CrashRestartType
  <1> QED
    BY <1>1, <1>2, <1>3, <1>4, <1>5, <1>6, <1>7 DEF Next

-----------------------------------------------------------------------------
(* A turn is started for a message only, and a message moves the clock. *)

TurnsQuiet ==
    /\ turn' = turn /\ starting' \in {starting, 0} /\ now' >= now
    /\ op'.kind = "steer" => op.kind = "steer"

\* A step that starts no turn and takes no message keeps turns below the clock.
LEMMA QuietTurns ==
    ASSUME TypeOK, TypeOK', TurnsBounded, TurnsQuiet
    PROVE  TurnsBounded'
  BY DEF TurnsBounded, TurnsQuiet, TypeOK, Turns, Times

\* A post is not a steer.
LEMMA PostKind == \A by, pc, c : PostOp(by, pc, c).kind = "post"
  BY DEF PostOp

\* Starting a post starts no steer.
LEMMA StartKind ==
    ASSUME NEW by, NEW c, PostStart(by, c)
    PROVE  op' = op \/ op'.kind = "post"
  BY PostKind DEF PostStart

\* Turns stay below the clock.
LEMMA TurnsInvariant ==
    ASSUME TypeOK, TypeOK', TurnsBounded, Next
    PROVE  TurnsBounded'
PROOF
  <1> USE DEF NoOp
  <1>0. now \in Nat /\ now + 1 >= now
    BY DEF TypeOK, Times
  <1>1. CASE Attempt
    BY <1>0, <1>1, StartKind, QuietTurns
       DEF TurnsQuiet, Attempt, Begin, BeginFails, RecordVerdict, SkipVerdict, AttemptFails,
           Settle, SettleTimesOut, Terminalize, TerminalizeTimesOut, RecoverOrphan, worker
  <1>2. CASE Post
    <2>1. UNCHANGED <<worker, now>> /\ (op'.kind = "steer" => op.kind = "steer")
      <3>1. CASE PostFails
        BY <3>1 DEF PostFails
      <3>2. CASE PostAlready
        BY <3>2 DEF PostAlready
      <3>3. CASE PostWrite
        BY <3>3, PostFields DEF PostWrite
      <3>4. CASE PostCommit
        BY <3>4, PostFields DEF PostCommit
      <3>5. CASE PostSave
        BY <3>5 DEF PostSave
      <3> QED
        BY <1>2, <3>1, <3>2, <3>3, <3>4, <3>5 DEF Post
    <2> QED
      BY <1>0, <2>1, QuietTurns DEF TurnsQuiet, worker
  <1>3. CASE Tools
    BY <1>0, <1>3, StartKind, QuietTurns
       DEF TurnsQuiet, Tools, MainReply, SupervisorReply, ReviewPoints, DisproveFinding, worker
  <1>4. CASE Observe
    BY <1>0, <1>4, StartKind, QuietTurns
       DEF TurnsQuiet, Observe, Reconcile, ProbeLeaves, ProbeRecovers, ProcessPending,
           ProcessBlocked, ProcessDirectReply, ProcessReport, ProcessMissing,
           SaveCallbacks, worker
  <1>5. CASE Steer \/ CrashRestart
    <2>1. CASE \E s \in Steers : SteerReserve(s[1], s[2], s[3])
      BY <2>1 DEF SteerReserve, LockFree, TurnsBounded, TypeOK, Turns, Times, worker
    <2>2. CASE SteerBind
      BY <1>0, <2>2, SteerFields, QuietTurns DEF TurnsQuiet, SteerBind, worker
    <2>3. CASE SteerAccepted \/ SteerAmbiguous \/ SteerRejected \/ CrashRestart
      BY <2>3 DEF SteerAccepted, SteerAmbiguous, SteerRejected, CrashRestart, WorkerTakes,
                  TurnsBounded, TypeOK, Turns, Times
    <2> QED
      BY <1>5, <2>1, <2>2, <2>3 DEF Steer
  <1>6. CASE Worker
    <2>1. CASE TurnStart
      BY <2>1 DEF TurnStart, TurnsBounded, TypeOK, Turns, Times
    <2>2. CASE WorkerReport \/ TurnEnd
      BY <1>0, <2>2, QuietTurns DEF TurnsQuiet, WorkerReport, TurnEnd
    <2> QED
      BY <1>6, <2>1, <2>2 DEF Worker
  <1>7. CASE HoldContext \/ Retry \/ Cancel \/ AuthReset \/ StopJob \/ Remove \/ Quiesce
    BY <1>0, <1>7, QuietTurns
       DEF TurnsQuiet, HoldContext, Retry, Cancel, AuthReset, StopJob, Remove, Quiesce, worker
  <1> QED
    BY <1>1, <1>2, <1>3, <1>4, <1>5, <1>6, <1>7 DEF Next

-----------------------------------------------------------------------------
(* The inductive invariant of the type theorem: turns stay below the clock.  *)

\* The type invariant holds initially ...
LEMMA TypeInit == Init => TInv
PROOF
  <1> SUFFICES ASSUME Init PROVE TInv
    OBVIOUS
  <1>1. TurnsBounded
    BY DEF Init, TurnsBounded, NoOp
  <1> QED
    BY <1>1, InitType DEF TInv

\* ... and every step preserves it.
LEMMA TypeStep == TInv /\ [Next]_vars => TInv'
PROOF
  <1> SUFFICES ASSUME TInv, [Next]_vars PROVE TInv'
    OBVIOUS
  <1>1. CASE Next
    BY <1>1, NextType, TurnsInvariant DEF TInv
  <1>2. CASE UNCHANGED vars
    BY <1>2 DEF TInv, TypeOK, TurnsBounded, vars, butler, review, gate, worker
  <1> QED
    BY <1>1, <1>2

\* Every reachable state is well typed, for every clock bound, attempt limit and
\* choice of follow-up messages: in particular no turn outruns the messages that
\* start turns, although a message, a crash and a report may come in any order.
THEOREM TypeInvariance == Spec => []TInv
PROOF
  <1> QED
    BY TypeInit, TypeStep, PTL DEF Spec

\* The type invariant that the runs check.
THEOREM TypeCorrect == Spec => []TypeOK
PROOF
  <1>1. TInv => TypeOK
    BY DEF TInv
  <1> QED
    BY <1>1, TypeInvariance, PTL

=============================================================================
