------------------------ MODULE CallbackLedgerProofs ------------------------
(***************************************************************************)
(* The two state files and what the operator has been shown: no closeout   *)
(* is lost, shown twice for one turn, or shown before its review accepted  *)
(* the report, whatever interleaves with the five steps of a post and      *)
(* whenever Butler crashes.  The runs check the same four invariants on    *)
(* one small instance; the theorems hold for every value of the constants. *)
(* The second half is about the review attempt and its own post.           *)
(***************************************************************************)
EXTENDS CallbackReviewProofs

-----------------------------------------------------------------------------
(* The two files: the inductive invariant *)

\* The record of deliveries on disk only lags behind the one in memory.
RecordLags == disk.delivered \subseteq delivered

\* A delivered closeout is among the messages shown, perhaps under its older id.
DeliveredShown == \A id \in delivered : \E m \in msgs : m.id \in {id, Legacy(id)}

\* A message whose report was completed and accepted.
Accepted(m) == m.rep.status = "completed" => verdict[m.rep.at] = "accepted"

\* What a post in progress has established and still relies on after each await.
PostJustified ==
    op.kind = "post" =>
        /\ op.pc = "already" => \E m \in msgs : m.id \in {op.id, Legacy(op.id)}
        /\ op.pc \in {"rotate", "written"} =>
             /\ op.msg.id = op.id
             /\ Accepted(op.msg)
             /\ \A m \in msgs : m.id # op.id
        /\ op.pc = "written" => op.msg \in disk.msgs

LInv ==
    /\ TInv
    /\ ShownIsDurable
    /\ RecordLags
    /\ DeliveredShown
    /\ OneMessagePerCloseout
    /\ CompletedCloseoutsWereAccepted
    /\ PostJustified

-----------------------------------------------------------------------------
(* Steps that leave the ledger alone *)

\* Accepting a report is final.
VerdictsStand == \A t \in Times : verdict[t] = "accepted" => verdict'[t] = "accepted"

\* No message appears or disappears; the record of deliveries may be saved; the
\* section in progress goes on, or another begins with its post justified.
LedgerQuiet ==
    /\ UNCHANGED <<msgs, delivered>>
    /\ disk'.msgs = disk.msgs
    /\ disk'.delivered \in {disk.delivered, delivered}
    /\ VerdictsStand
    /\ op' = op \/ PostJustified'

\* A message that was justified stays justified while verdicts stand.
LEMMA AcceptedStays ==
    ASSUME TypeOK, VerdictsStand, NEW m \in Message, Accepted(m)
    PROVE  Accepted(m)'
  BY DEF VerdictsStand, Accepted, Message, Report

\* A quiet step preserves the invariant.
LEMMA QuietLedger ==
    ASSUME LInv, TInv', LedgerQuiet
    PROVE  LInv'
PROOF
  <1>1. ShownIsDurable' /\ RecordLags' /\ DeliveredShown' /\ OneMessagePerCloseout'
    BY DEF LInv, LedgerQuiet, ShownIsDurable, RecordLags, DeliveredShown, OneMessagePerCloseout
  <1>2. CompletedCloseoutsWereAccepted'
    <2>1. \A m \in disk.msgs : m \in Message
      BY DEF LInv, TInv, TypeOK, Disk
    <2>2. \A m \in disk.msgs : Accepted(m)
      BY DEF LInv, CompletedCloseoutsWereAccepted, Accepted
    <2>3. \A m \in disk.msgs : Accepted(m)'
      BY <2>1, <2>2, AcceptedStays DEF LedgerQuiet, LInv, TInv
    <2> QED
      BY <2>3 DEF LedgerQuiet, CompletedCloseoutsWereAccepted, Accepted
  <1>3. PostJustified'
    <2>1. CASE op' = op /\ op.kind = "post"
      <3>1. op.msg \in Message
        BY <2>1, PostFields DEF LInv, TInv
      <3>2. op.pc \in {"rotate", "written"} => Accepted(op.msg)'
        BY <2>1, <3>1, AcceptedStays DEF LInv, TInv, PostJustified, LedgerQuiet
      <3>3. op'.pc \in {"rotate", "written"} => Accepted(op.msg)'
        BY <2>1, <3>2
      <3> QED
        BY <2>1, <3>3 DEF LInv, PostJustified, LedgerQuiet, Accepted
    <2>2. CASE op' = op /\ op.kind # "post"
      BY <2>2 DEF PostJustified
    <2> QED
      BY <2>1, <2>2 DEF LedgerQuiet
  <1> QED
    BY <1>1, <1>2, <1>3 DEF LInv

\* A step that leaves all of it unchanged is quiet.
LEMMA SameLedger ==
    ASSUME UNCHANGED <<msgs, delivered, verdict>>,
           disk'.msgs = disk.msgs, disk'.delivered \in {disk.delivered, delivered},
           op' = op \/ op'.kind # "post"
    PROVE  LedgerQuiet
  BY DEF LedgerQuiet, VerdictsStand, PostJustified

\* What Persist does to the files.
LEMMA PersistLedger ==
    ASSUME TypeOK, Persist
    PROVE  disk'.msgs = disk.msgs /\ disk'.delivered = delivered
  BY DEF Persist, TypeOK, Disk

\* A closeout is begun only if it was shown, or if nothing blocks it and no
\* message has its id.
LEMMA StartJustified ==
    ASSUME LInv, NEW c \in Callback, NEW by, PostStart(by, c),
           UNCHANGED <<msgs, delivered, verdict>>
    PROVE  LedgerQuiet
PROOF
  <1>0. TypeOK
    BY DEF LInv, TInv
  <1>1. CASE op' = PostOp(by, "already", c) /\ AlreadyPosted(c) /\ UNCHANGED disk
    <2>1. \E m \in msgs : m.id \in {CloseoutId(c), Legacy(CloseoutId(c))}
      BY <1>1 DEF AlreadyPosted, LInv, DeliveredShown
    <2>2. op'.pc = "already" /\ op'.id = CloseoutId(c)
      BY <1>1 DEF PostOp
    <2>3. PostJustified'
      BY <2>1, <2>2 DEF PostJustified
    <2> QED
      BY <1>1, <2>3 DEF LedgerQuiet, VerdictsStand
  <1>2. CASE /\ op' = PostOp(by, "rotate", c) /\ ~AlreadyPosted(c)
             /\ Blocker(RelevantReport(c)) = "none" /\ UNCHANGED disk
    <2>1. /\ op'.pc = "rotate" /\ op'.id = CloseoutId(c)
          /\ op'.msg = Closeout(c)
      BY <1>2 DEF PostOp
    <2>2. \A m \in msgs : m.id # CloseoutId(c)
      BY <1>2 DEF AlreadyPosted
    <2>3. Accepted(Closeout(c))
      <3>1. RelevantReport(c) \in Report
        BY <1>0, CloseoutType
      <3>2. RelevantReport(c).status = "completed" =>
              verdict[RelevantReport(c).at] \notin {"none", "rejected"}
        BY <1>2 DEF Blocker
      <3>3. RelevantReport(c).status = "completed" =>
              verdict[RelevantReport(c).at] = "accepted"
        BY <1>0, <3>1, <3>2 DEF TypeOK, Verdicts, Report
      <3> QED
        BY <3>3 DEF Accepted, Closeout
    <2>4. PostJustified'
      BY <2>1, <2>2, <2>3 DEF PostJustified, Closeout, Accepted
    <2> QED
      BY <1>2, <2>4 DEF LedgerQuiet, VerdictsStand
  <1>3. CASE Persist /\ UNCHANGED op
    BY <1>0, <1>3, PersistLedger, SameLedger
  <1> QED
    BY <1>1, <1>2, <1>3 DEF PostStart

\* Every step of the review attempt but the settling of its outcome.
LEMMA AttemptQuiet ==
    ASSUME LInv, Attempt
    PROVE  LedgerQuiet
PROOF
  <1>0. TypeOK
    BY DEF LInv, TInv
  <1>1. ASSUME Begin \/ RecoverOrphan
        PROVE  LedgerQuiet
    BY <1>0, <1>1, PersistLedger, SameLedger DEF Begin, RecoverOrphan, gate
  <1>2. ASSUME BeginFails \/ SkipVerdict \/ AttemptFails \/ SettleTimesOut
        PROVE  LedgerQuiet
    BY <1>2, SameLedger DEF BeginFails, SkipVerdict, AttemptFails, SettleTimesOut, gate, butler
  <1>3. ASSUME RecordVerdict
        PROVE  LedgerQuiet
    <2>1. VerdictsStand
      BY <1>0, <1>3 DEF RecordVerdict, VerdictsStand, TypeOK, Verdicts
    <2> QED
      BY <1>3, <2>1 DEF RecordVerdict, LedgerQuiet, butler
  <1>4. ASSUME Settle \/ TerminalizeTimesOut
        PROVE  LedgerQuiet
    BY <1>0, <1>4, PersistLedger, SameLedger
       DEF Settle, TerminalizeTimesOut, TerminalizationFails, gate
  <1>5. ASSUME Terminalize
        PROVE  LedgerQuiet
    <2>1. UNCHANGED <<msgs, delivered, verdict>>
      BY <1>5 DEF Terminalize, gate
    <2>2. \/ UNCHANGED <<disk, op>>
          \/ Persist /\ UNCHANGED op
          \/ PostStart("review", cb)
      BY <1>5 DEF Terminalize
    <2>3. cb \in Callback
      BY <1>0 DEF TypeOK
    <2> QED
      BY <1>0, <2>1, <2>2, <2>3, PersistLedger, SameLedger, StartJustified
  <1> QED
    BY <1>1, <1>2, <1>3, <1>4, <1>5 DEF Attempt

\* The tools of the main session and of the supervisor.
LEMMA ToolsQuiet ==
    ASSUME LInv, Tools
    PROVE  LedgerQuiet
PROOF
  <1>0. TypeOK /\ cb \in Callback
    BY DEF LInv, TInv, TypeOK
  <1>1. ASSUME MainReply
        PROVE  LedgerQuiet
    BY <1>0, <1>1, StartJustified DEF MainReply, gate
  <1>2. ASSUME SupervisorReply
        PROVE  LedgerQuiet
    BY <1>0, <1>2, StartJustified, SameLedger DEF SupervisorReply, gate
  <1>3. ASSUME ReviewPoints
        PROVE  LedgerQuiet
    BY <1>3, SameLedger DEF ReviewPoints, butler
  <1>4. ASSUME DisproveFinding
        PROVE  LedgerQuiet
    <2>1. VerdictsStand
      BY <1>0, <1>4 DEF DisproveFinding, VerdictsStand, TypeOK, Verdicts
    <2> QED
      BY <1>4, <2>1 DEF DisproveFinding, LedgerQuiet, butler
  <1> QED
    BY <1>1, <1>2, <1>3, <1>4 DEF Tools

\* Messaging the Worker: the whole section is not a post.
LEMMA SteerQuiet ==
    ASSUME LInv, Steer
    PROVE  LedgerQuiet
PROOF
  <1>0. TypeOK
    BY DEF LInv, TInv
  <1>1. ASSUME NEW s \in Steers, SteerReserve(s[1], s[2], s[3])
        PROVE  LedgerQuiet
    BY <1>0, <1>1, PersistLedger, SameLedger DEF SteerReserve, gate
  <1>2. ASSUME SteerBind
        PROVE  LedgerQuiet
    BY <1>0, <1>2, PersistLedger, SteerFields, SameLedger DEF SteerBind
  <1>3. ASSUME SteerAccepted \/ SteerAmbiguous
        PROVE  LedgerQuiet
    BY <1>0, <1>3, PersistLedger, SameLedger
       DEF SteerAccepted, SteerAmbiguous, MarkDispatched, NoOp, gate
  <1>4. ASSUME SteerRejected
        PROVE  LedgerQuiet
    <2>1. UNCHANGED disk \/ Persist
      BY <1>4 DEF SteerRejected
    <2>2. UNCHANGED <<msgs, delivered, verdict>> /\ op'.kind # "post"
      BY <1>4 DEF SteerRejected, NoOp
    <2> QED
      BY <1>0, <2>1, <2>2, PersistLedger, SameLedger
  <1> QED
    BY <1>1, <1>2, <1>3, <1>4 DEF Steer

\* Store events, probes and periodic reconciliation.
LEMMA ObserveQuiet ==
    ASSUME LInv, Observe
    PROVE  LedgerQuiet
PROOF
  <1>0. TypeOK /\ cb \in Callback
    BY DEF LInv, TInv, TypeOK
  <1>1. ASSUME Reconcile
        PROVE  LedgerQuiet
    <2>1. PICK expired \in BOOLEAN, probe \in BOOLEAN :
            LET c == DispatchSeen(cb, expired) IN
            \/ UNCHANGED <<disk, op>>
            \/ PostStart("recon", c)
            \/ /\ op' = IF probe /\ ProbeDue(cb') THEN [kind |-> "probe"] ELSE NoOp
               /\ UNCHANGED disk
      BY <1>1 DEF Reconcile
    <2>2. DispatchSeen(cb, expired) \in Callback
      BY <1>0, DispatchSeenType
    <2>3. UNCHANGED <<msgs, delivered, verdict>>
      BY <1>1 DEF Reconcile, gate
    <2> QED
      BY <2>1, <2>2, <2>3, StartJustified, SameLedger DEF NoOp
  <1>2. ASSUME ProbeLeaves \/ ProbeRecovers
        PROVE  LedgerQuiet
    BY <1>2, SameLedger DEF ProbeLeaves, ProbeRecovers, NoOp, butler, gate
  <1>3. ASSUME ProcessPending
        PROVE  LedgerQuiet
    <2> DEFINE c == IF Relevant(cb) THEN [cb EXCEPT !.term = report.at] ELSE cb
    <2>1. c \in Callback
      BY <1>0 DEF TypeOK, Callback, Report
    <2>2. ProcessBlocked(c) \/ ProcessDirectReply(c) \/ ProcessReport(c) \/ ProcessMissing(c)
      BY <1>3 DEF ProcessPending
    <2>3. UNCHANGED <<msgs, delivered, verdict>>
      BY <1>3 DEF ProcessPending, gate
    <2> HIDE DEF c
    <2>4. \/ PostStart("direct", c)
          \/ UNCHANGED <<disk, op>>
          \/ Persist /\ UNCHANGED op
      BY <2>2 DEF ProcessBlocked, ProcessDirectReply, ProcessReport, ProcessMissing
    <2> QED
      BY <1>0, <2>1, <2>3, <2>4, PersistLedger, StartJustified, SameLedger
  <1>4. ASSUME SaveCallbacks
        PROVE  LedgerQuiet
    BY <1>0, <1>4, SameLedger DEF SaveCallbacks, TypeOK, Disk, gate
  <1> QED
    BY <1>1, <1>2, <1>3, <1>4 DEF Observe

\* The Worker's events, the operator's controls and the end of the session.
LEMMA OutsideQuiet ==
    ASSUME LInv,
           \/ Worker \/ HoldContext \/ Retry \/ Cancel \/ AuthReset
           \/ StopJob \/ Remove \/ Quiesce
    PROVE  LedgerQuiet
PROOF
  <1>0. TypeOK
    BY DEF LInv, TInv
  <1>1. ASSUME Worker \/ AuthReset \/ Quiesce
        PROVE  LedgerQuiet
    BY <1>1, SameLedger
       DEF Worker, WorkerReport, TurnStart, TurnEnd, AuthReset, Quiesce, butler, gate
  <1>2. ASSUME HoldContext \/ Retry \/ Cancel \/ StopJob \/ Remove
        PROVE  LedgerQuiet
    BY <1>0, <1>2, PersistLedger, SameLedger
       DEF HoldContext, Retry, Cancel, StopJob, Remove, gate
  <1> QED
    BY <1>1, <1>2

-----------------------------------------------------------------------------
(* Steps that change the ledger: the post itself, and a crash *)

\* A failed post takes back what it wrote, if it wrote.
LEMMA PostFailsLedger ==
    ASSUME LInv, TInv', PostFails
    PROVE  LInv'
PROOF
  <1> DEFINE restored == IF op.pc = "written" THEN [disk EXCEPT !.msgs = msgs] ELSE disk
  <1>0. disk \in Disk
    BY DEF LInv, TInv, TypeOK
  <1>1. restored \in Disk /\ restored.msgs \in {disk.msgs, msgs} /\ restored.delivered = disk.delivered
    <2>1. msgs \in SUBSET Message
      BY DEF LInv, TInv, TypeOK
    <2> QED
      BY <1>0, <2>1 DEF Disk
  <1>2. disk' = restored \/ disk' = [restored EXCEPT !.cb = cb', !.delivered = delivered]
    BY DEF PostFails
  <1>3. UNCHANGED <<msgs, delivered, verdict>> /\ op' = NoOp
    BY DEF PostFails, gate
  <1>4. disk'.msgs \in {disk.msgs, msgs} /\ disk'.delivered \in {disk.delivered, delivered}
    <2> HIDE DEF restored
    <2> QED
      BY <1>1, <1>2 DEF Disk
  <1>5. msgs \subseteq disk.msgs
    BY DEF LInv, ShownIsDurable
  <1>6. ShownIsDurable' /\ RecordLags' /\ DeliveredShown'
    BY <1>3, <1>4, <1>5 DEF LInv, ShownIsDurable, RecordLags, DeliveredShown
  <1>7. OneMessagePerCloseout' /\ CompletedCloseoutsWereAccepted'
    BY <1>3, <1>4, <1>5 DEF LInv, OneMessagePerCloseout, CompletedCloseoutsWereAccepted
  <1>8. PostJustified'
    BY <1>3 DEF PostJustified, NoOp
  <1> QED
    BY <1>6, <1>7, <1>8 DEF LInv

\* Closing an obligation whose closeout was shown records the delivery.
LEMMA PostAlreadyLedger ==
    ASSUME LInv, TInv', PostAlready
    PROVE  LInv'
PROOF
  <1>1. disk'.msgs = disk.msgs /\ disk'.delivered = delivered'
    BY DEF PostAlready, LInv, TInv, TypeOK, Disk
  <1>2. delivered' = delivered \cup {op.id} /\ UNCHANGED <<msgs, verdict>> /\ op' = NoOp
    BY DEF PostAlready, gate
  <1>3. \E m \in msgs : m.id \in {op.id, Legacy(op.id)}
    BY DEF PostAlready, LInv, PostJustified
  <1>4. ShownIsDurable' /\ RecordLags' /\ DeliveredShown'
    BY <1>1, <1>2, <1>3 DEF LInv, ShownIsDurable, RecordLags, DeliveredShown, Legacy
  <1>5. OneMessagePerCloseout' /\ CompletedCloseoutsWereAccepted' /\ PostJustified'
    BY <1>1, <1>2 DEF LInv, OneMessagePerCloseout, CompletedCloseoutsWereAccepted,
                      PostJustified, NoOp
  <1> QED
    BY <1>4, <1>5 DEF LInv

\* The message is written: its id is new and its report was accepted.
LEMMA PostWriteLedger ==
    ASSUME LInv, TInv', PostWrite
    PROVE  LInv'
PROOF
  <1>1. disk'.msgs = msgs \cup {op.msg} /\ disk'.delivered = disk.delivered
    BY DEF PostWrite, LInv, TInv, TypeOK, Disk
  <1>2. UNCHANGED <<msgs, delivered, verdict>>
    BY DEF PostWrite, gate
  <1>3. op.msg.id = op.id /\ Accepted(op.msg) /\ \A m \in msgs : m.id # op.id
    BY DEF PostWrite, LInv, PostJustified
  <1>4. op'.kind = "post" /\ op'.pc = "written" /\ op'.id = op.id /\ op'.msg = op.msg
    BY PostFields DEF PostWrite, LInv, TInv
  <1>5. msgs \subseteq disk.msgs
    BY DEF LInv, ShownIsDurable
  <1>6. ShownIsDurable' /\ RecordLags' /\ DeliveredShown'
    BY <1>1, <1>2 DEF LInv, ShownIsDurable, RecordLags, DeliveredShown
  <1>7. OneMessagePerCloseout'
    BY <1>1, <1>3, <1>5 DEF LInv, OneMessagePerCloseout
  <1>8. CompletedCloseoutsWereAccepted'
    BY <1>1, <1>2, <1>3, <1>5 DEF LInv, CompletedCloseoutsWereAccepted, Accepted
  <1>9. PostJustified'
    BY <1>1, <1>2, <1>3, <1>4 DEF PostJustified, Accepted
  <1> QED
    BY <1>6, <1>7, <1>8, <1>9 DEF LInv

\* The message is shown and recorded as delivered together.
LEMMA PostCommitLedger ==
    ASSUME LInv, TInv', PostCommit
    PROVE  LInv'
PROOF
  <1>1. UNCHANGED <<disk, verdict>> /\ msgs' = msgs \cup {op.msg} /\ delivered' = delivered \cup {op.id}
    BY DEF PostCommit, gate
  <1>2. op.msg.id = op.id /\ op.msg \in disk.msgs
    BY DEF PostCommit, LInv, PostJustified
  <1>3. op'.pc = "save"
    BY PostFields DEF PostCommit, LInv, TInv
  <1>4. ShownIsDurable' /\ RecordLags' /\ DeliveredShown'
    BY <1>1, <1>2 DEF LInv, ShownIsDurable, RecordLags, DeliveredShown, Legacy
  <1>5. OneMessagePerCloseout' /\ CompletedCloseoutsWereAccepted' /\ PostJustified'
    BY <1>1, <1>3 DEF LInv, OneMessagePerCloseout, CompletedCloseoutsWereAccepted, PostJustified
  <1> QED
    BY <1>4, <1>5 DEF LInv

\* The last save makes the files agree with memory.
LEMMA PostSaveLedger ==
    ASSUME LInv, TInv', PostSave
    PROVE  LInv'
PROOF
  <1>1. disk'.msgs = msgs /\ disk'.delivered = delivered /\ op' = NoOp
    BY DEF PostSave
  <1>2. UNCHANGED <<msgs, delivered, verdict>> /\ msgs \subseteq disk.msgs
    BY DEF PostSave, LInv, ShownIsDurable, gate
  <1>3. ShownIsDurable' /\ RecordLags' /\ DeliveredShown'
    BY <1>1, <1>2 DEF LInv, ShownIsDurable, RecordLags, DeliveredShown
  <1>4. OneMessagePerCloseout' /\ CompletedCloseoutsWereAccepted' /\ PostJustified'
    BY <1>1, <1>2 DEF LInv, OneMessagePerCloseout, CompletedCloseoutsWereAccepted,
                      PostJustified, NoOp
  <1> QED
    BY <1>3, <1>4 DEF LInv

\* After a crash memory is what the files say.
LEMMA CrashLedger ==
    ASSUME LInv, TInv', CrashRestart
    PROVE  LInv'
PROOF
  <1>1. /\ msgs' = disk.msgs /\ delivered' = disk.delivered /\ op' = NoOp
        /\ UNCHANGED verdict
    BY DEF CrashRestart, gate
  <1>2. disk'.msgs = disk.msgs /\ disk'.delivered = disk.delivered
    BY DEF CrashRestart, LInv, TInv, TypeOK, Disk
  <1>3. \A id \in disk.delivered : \E m \in disk.msgs : m.id \in {id, Legacy(id)}
    BY DEF LInv, RecordLags, DeliveredShown, ShownIsDurable
  <1>4. ShownIsDurable' /\ RecordLags' /\ DeliveredShown'
    BY <1>1, <1>2, <1>3 DEF ShownIsDurable, RecordLags, DeliveredShown, Legacy
  <1>5. OneMessagePerCloseout' /\ CompletedCloseoutsWereAccepted' /\ PostJustified'
    BY <1>1, <1>2 DEF LInv, OneMessagePerCloseout, CompletedCloseoutsWereAccepted,
                      PostJustified, NoOp
  <1> QED
    BY <1>4, <1>5 DEF LInv

-----------------------------------------------------------------------------
(* The theorems *)

\* Nothing was shown or written at the start.
LEMMA LedgerInit == Init => LInv
PROOF
  <1> SUFFICES ASSUME Init PROVE LInv
    OBVIOUS
  <1>1. msgs = {} /\ delivered = {} /\ disk.msgs = {} /\ disk.delivered = {} /\ op.kind = "none"
    BY DEF Init, NoOp
  <1> QED
    BY <1>1, TypeInit DEF LInv, ShownIsDurable, RecordLags, DeliveredShown,
       OneMessagePerCloseout, CompletedCloseoutsWereAccepted, PostJustified

\* The invariant is inductive.
LEMMA LedgerStep == LInv /\ [Next]_vars => LInv'
PROOF
  <1> SUFFICES ASSUME LInv, [Next]_vars PROVE LInv'
    OBVIOUS
  <1>0. TInv'
    BY TypeStep DEF LInv
  <1>1. CASE Attempt \/ Tools \/ Steer \/ Observe
    BY <1>0, <1>1, AttemptQuiet, ToolsQuiet, SteerQuiet, ObserveQuiet, QuietLedger
  <1>2. CASE \/ Worker \/ HoldContext \/ Retry \/ Cancel \/ AuthReset
             \/ StopJob \/ Remove \/ Quiesce
    BY <1>0, <1>2, OutsideQuiet, QuietLedger
  <1>3. CASE Post
    BY <1>0, <1>3, PostFailsLedger, PostAlreadyLedger, PostWriteLedger, PostCommitLedger,
       PostSaveLedger DEF Post
  <1>4. CASE CrashRestart
    BY <1>0, <1>4, CrashLedger
  <1>5. CASE UNCHANGED vars
    BY <1>0, <1>5, SameLedger, QuietLedger DEF vars, butler, gate
  <1> QED
    BY <1>1, <1>2, <1>3, <1>4, <1>5 DEF Next

\* The invariant of the ledger holds in every reachable state.
THEOREM LedgerInvariance == Spec => []LInv
PROOF
  <1> QED
    BY LedgerInit, LedgerStep, PTL DEF Spec

\* postOperatorJobReply writes the message file before it shows the message:
\* whatever the operator saw is still there after a crash at any point.
THEOREM ShownSurvives == Spec => []ShownIsDurable
PROOF
  <1>1. LInv => ShownIsDurable
    BY DEF LInv
  <1> QED
    BY <1>1, LedgerInvariance, PTL

\* The file of deliveries never claims a closeout whose message is not in the
\* message file, in whatever order and however often the two files are saved.
THEOREM DeliveryIsShown == Spec => []DeliveredHasMessage
PROOF
  <1>1. LInv => DeliveredHasMessage
    BY DEF LInv, RecordLags, DeliveredShown, ShownIsDurable, DeliveredHasMessage
  <1> QED
    BY <1>1, LedgerInvariance, PTL

\* However many posts, retries, reconciliations and restarts race for the closeout
\* of a turn, one message carries its id.
THEOREM ClosedOnce == Spec => []OneMessagePerCloseout
PROOF
  <1>1. LInv => OneMessagePerCloseout
    BY DEF LInv
  <1> QED
    BY <1>1, LedgerInvariance, PTL

\* No path to the operator, whether the tool, the review, the direct reply or
\* reconciliation, tells of a completed report that its review did not accept.
THEOREM ReviewedBeforeShown == Spec => []CompletedCloseoutsWereAccepted
PROOF
  <1>1. LInv => CompletedCloseoutsWereAccepted
    BY DEF LInv
  <1> QED
    BY <1>1, LedgerInvariance, PTL

-----------------------------------------------------------------------------
(* The review attempt and its own post.  A terminalization that runs out   *)
(* of its five seconds counts a failure without the job lock, while the    *)
(* post it began is still under way; the attempt is over from then on and  *)
(* its post must not go through (CountedFailureDoesNotPost).  The argument *)
(* relates the attempt, the mutation that it queued, the section that      *)
(* holds the lock and the failure counter.                                 *)


\* The section in progress is the post of a review's terminalization.
ReviewPosts == op.kind = "post" /\ op.by = "review"

\* A mutation waits for the lock only once its attempt is over; if the attempt
\* still awaits it, both speak of the same callback object.
PendingEndsAttempt ==
    pend.kind # "none" =>
        /\ rv.pc \in {"idle", "await"}
        /\ pend.own /\ rv.pc = "await" => rv.obj = "same"

\* While the attempt's post holds the lock no other mutation of an attempt waits,
\* and the attempt is the one that posts, or was given up.
ReviewPostIsOwn ==
    ReviewPosts =>
        /\ pend.kind = "none"
        /\ rv.pc \in {"idle", "await"}
        /\ rv.pc = "await" => rv.obj = "same"

\* A posted callback is not under review, and neither is one that the rollback of
\* a follow-up would restore.
PostedIsOver ==
    /\ cb.status = "posted" => cb.review # "running"
    /\ op.kind = "steer" => (op.cb.status = "posted" => op.cb.review # "running")

\* The callback file never runs ahead of memory.
PostedInMemory == disk.cb.status = "posted" => cb.status = "posted"

\* Failures counted since the post began made its callback no longer current.
CountedIsNotCurrent ==
    ReviewPosts /\ (cb.status = "posted" \/ (Outstanding(cb) /\ cb.review = "running"))
        => fails = 0

CallbackInv == PostedIsOver /\ PostedInMemory
AttemptInv  == PendingEndsAttempt /\ ReviewPostIsOwn /\ CountedIsNotCurrent
AInv        == TInv /\ CallbackInv /\ AttemptInv

-----------------------------------------------------------------------------
(* The status of the callback *)

\* A step that does not post: the callback keeps its status and comes under
\* review only when it is owed, or it gets another status, which is saved.
StatusQuiet ==
    /\ disk'.cb \in {disk.cb, cb'}
    /\ \/ cb'.status = cb.status /\ (cb'.review = "running" => cb.review = "running" \/ cb.status = "owed")
       \/ cb'.status # "posted" /\ disk'.cb = cb'
    /\ \/ op' = op
       \/ op'.kind = "steer" => op'.cb = cb \/ (op.kind = "steer" /\ op'.cb = op.cb)

\* Such a step preserves what is said of the callback.
LEMMA QuietStatus ==
    ASSUME CallbackInv, StatusQuiet
    PROVE  CallbackInv'
  BY DEF CallbackInv, PostedIsOver, PostedInMemory, StatusQuiet

\* What Persist does to the callback file.
LEMMA PersistWrites ==
    ASSUME TypeOK, Persist
    PROVE  disk'.cb = cb'
  BY DEF Persist, TypeOK, Disk

\* The transitions of the callback that leave its status alone.
LEMMA SameStatus ==
    ASSUME NEW c \in Callback, NEW reason, NEW why, NEW at, NEW failures
    PROVE  /\ Queue(c, reason).status = c.status /\ Queue(c, reason).review = "queued"
           /\ Idle(c).status = c.status /\ Idle(c).review = "idle"
           /\ Block(c, why, reason, at).status = c.status
           /\ Block(c, why, reason, at).review = "blocked"
           /\ FailedReview(c, failures).status = c.status
           /\ FailedReview(c, failures).review \in {"queued", "blocked"}
           /\ Closed(c, why).status = why /\ Closed(c, why).review = "idle"
  BY DEF Callback, Queue, Idle, Block, FailedReview, Closed

\* The start of a post on a callback that was brought up to date.
LEMMA StartStatus ==
    ASSUME TypeOK, NEW c \in Callback, NEW by, PostStart(by, c),
           c.status = cb.status, c.review = "running" => cb.review = "running"
    PROVE  StatusQuiet
PROOF
  <1>1. op' = op \/ op'.kind = "post"
    BY DEF PostStart, PostOp
  <1>2. CASE cb' = c /\ UNCHANGED disk
    BY <1>1, <1>2 DEF StatusQuiet
  <1>3. CASE /\ Persist
             /\ cb' = Block(c, Blocker(RelevantReport(c)),
                            IF Relevant(c) THEN "worker_callback" ELSE "thread_recovery",
                            RelevantReport(c).at)
    BY <1>1, <1>3, SameStatus, PersistWrites DEF StatusQuiet
  <1> QED
    BY <1>2, <1>3 DEF PostStart

\* Every step of the review attempt.
LEMMA AttemptStatus ==
    ASSUME TypeOK, Attempt
    PROVE  StatusQuiet
PROOF
  <1>0. cb \in Callback
    BY DEF TypeOK
  <1>1. ASSUME Begin
        PROVE  StatusQuiet
    <2>1. disk'.cb = cb' /\ UNCHANGED op /\ cb.status = "owed"
      BY <1>0, <1>1, PersistWrites DEF Begin, Outstanding
    <2>2. CASE cb' = [cb EXCEPT !.review = "running", !.tries = fails + 1, !.wait = FALSE]
      BY <1>0, <2>1, <2>2 DEF StatusQuiet, Callback
    <2>3. CASE cb' = [Closed(cb, "not_required") EXCEPT !.reason = cb.reason]
      BY <1>0, <2>1, <2>3 DEF StatusQuiet, Callback, Closed
    <2> QED
      BY <1>1, <2>2, <2>3 DEF Begin
  <1>2. ASSUME BeginFails
        PROVE  StatusQuiet
    BY <1>0, <1>2 DEF BeginFails, StatusQuiet, Callback, Outstanding
  <1>3. ASSUME RecordVerdict \/ SkipVerdict \/ AttemptFails \/ SettleTimesOut
        PROVE  StatusQuiet
    BY <1>3 DEF RecordVerdict, SkipVerdict, AttemptFails, SettleTimesOut, StatusQuiet, butler
  <1>4. ASSUME Settle \/ TerminalizeTimesOut \/ RecoverOrphan
        PROVE  StatusQuiet
    <2>1. UNCHANGED op
      BY <1>4 DEF Settle, TerminalizeTimesOut, RecoverOrphan
    <2>2. \/ UNCHANGED <<cb, disk>>
          \/ Persist /\ cb' \in {cb, FailedReview(cb, fails')}
      BY <1>4 DEF Settle, TerminalizeTimesOut, TerminalizationFails, RecoverOrphan
    <2> QED
      BY <1>0, <2>1, <2>2, SameStatus, PersistWrites DEF StatusQuiet
  <1>5. ASSUME Terminalize
        PROVE  StatusQuiet
    <2>1. \/ UNCHANGED <<cb, disk, op>>
          \/ PostStart("review", cb)
          \/ /\ Persist /\ UNCHANGED op
             /\ \/ \E why, reason, at : cb' = Block(cb, why, reason, at)
                \/ cb' = Idle(cb)
      BY <1>5 DEF Terminalize
    <2>2. CASE Persist /\ UNCHANGED op /\ \E why, reason, at : cb' = Block(cb, why, reason, at)
      BY <1>0, <2>2, SameStatus, PersistWrites DEF StatusQuiet
    <2>3. CASE Persist /\ UNCHANGED op /\ cb' = Idle(cb)
      BY <1>0, <2>3, SameStatus, PersistWrites DEF StatusQuiet
    <2>4. CASE UNCHANGED <<cb, disk, op>>
      BY <2>4 DEF StatusQuiet
    <2>5. CASE PostStart("review", cb)
      BY <1>0, <2>5, StartStatus
    <2> QED
      BY <2>1, <2>2, <2>3, <2>4, <2>5
  <1> QED
    BY <1>1, <1>2, <1>3, <1>4, <1>5 DEF Attempt

\* The tools of the main session and of the supervisor.
LEMMA ToolsStatus ==
    ASSUME TypeOK, Tools
    PROVE  StatusQuiet
PROOF
  <1>0. cb \in Callback
    BY DEF TypeOK
  <1>1. ASSUME MainReply \/ SupervisorReply
        PROVE  StatusQuiet
    <2>1. PostStart("main", cb) \/ PostStart("tool", cb) \/ UNCHANGED <<cb, disk, op>>
      BY <1>1 DEF MainReply, SupervisorReply
    <2> QED
      BY <1>0, <2>1, StartStatus DEF StatusQuiet
  <1>2. ASSUME ReviewPoints \/ DisproveFinding
        PROVE  StatusQuiet
    BY <1>2 DEF ReviewPoints, DisproveFinding, StatusQuiet, butler
  <1> QED
    BY <1>1, <1>2 DEF Tools

\* A follow-up that is on its way, and its end when the Worker may have it.
LEMMA SteerStatus ==
    ASSUME TypeOK, (\E s \in Steers : SteerReserve(s[1], s[2], s[3]))
                   \/ SteerBind \/ SteerAccepted \/ SteerAmbiguous
    PROVE  StatusQuiet
PROOF
  <1>0. cb \in Callback
    BY DEF TypeOK
  <1>1. ASSUME NEW s \in Steers, SteerReserve(s[1], s[2], s[3])
        PROVE  StatusQuiet
    <2>1. op'.cb = cb
      BY <1>1 DEF SteerReserve
    <2>2. cb'.status = "owed"
      <3> DEFINE new == NewCallback(now', IF s[2] = "replace" THEN 0 ELSE scope, "reserving", s[3])
      <3>1. /\ new.status = "owed"
            /\ [new EXCEPT !.review = "running", !.reason = cb.reason, !.tries = cb.tries].status = "owed"
        BY DEF NewCallback
      <3>2. cb' \in {new, [new EXCEPT !.review = "running", !.reason = cb.reason, !.tries = cb.tries]}
        BY <1>1 DEF SteerReserve
      <3> HIDE DEF new
      <3> QED
        BY <3>1, <3>2
    <2>3. Persist
      BY <1>1 DEF SteerReserve
    <2> QED
      BY <2>1, <2>2, <2>3, PersistWrites DEF StatusQuiet
  <1>2. ASSUME SteerBind
        PROVE  StatusQuiet
    <2>1. op'.kind = "steer" /\ op'.cb = op.cb /\ op.kind = "steer"
      BY <1>2, SteerFields DEF SteerBind, SteerOps
    <2> QED
      BY <1>0, <1>2, <2>1, PersistWrites DEF SteerBind, StatusQuiet, Callback
  <1>3. ASSUME SteerAccepted \/ SteerAmbiguous
        PROVE  StatusQuiet
    <2>1. op' = NoOp /\ MarkDispatched
      BY <1>3 DEF SteerAccepted, SteerAmbiguous
    <2> QED
      BY <1>0, <2>1, PersistWrites DEF MarkDispatched, StatusQuiet, NoOp, Callback
  <1> QED
    BY <1>1, <1>2, <1>3

\* Taking a follow-up back restores a callback that was not both posted and
\* under review.
LEMMA RejectedStatus ==
    ASSUME TypeOK, CallbackInv, SteerRejected
    PROVE  CallbackInv'
PROOF
  <1>1. op' = NoOp /\ op.kind = "steer"
    BY DEF SteerRejected
  <1>2. op.cb \in Callback
    BY <1>1, SteerFields
  <1>3. CASE UNCHANGED <<cb, disk>>
    BY <1>1, <1>3 DEF CallbackInv, PostedIsOver, PostedInMemory, NoOp
  <1>4. CASE Persist /\ cb' \in {NoCb, op.cb, [op.cb EXCEPT !.review = "queued", !.wait = FALSE]}
    <2>1. cb'.status = "posted" => cb'.review # "running"
      BY <1>1, <1>2, <1>4 DEF CallbackInv, PostedIsOver, NoCb, NewCallback, Callback
    <2> QED
      BY <1>1, <1>4, <2>1, PersistWrites DEF CallbackInv, PostedIsOver, PostedInMemory, NoOp
  <1> QED
    BY <1>3, <1>4 DEF SteerRejected

\* Bringing a callback up to date with the Worker's thread keeps its status.
LEMMA TrackedStatus ==
    ASSUME TypeOK, NEW c \in Callback, NEW flag
    PROVE  /\ DispatchSeen(c, flag).status = c.status
           /\ DispatchSeen(c, flag).review = c.review
           /\ Tracked(c, flag).status = c.status
           /\ Tracked(c, flag).review = "running" => c.review = "running"
PROOF
  <1>1. DispatchSeen(c, flag).status = c.status /\ DispatchSeen(c, flag).review = c.review
    BY DEF DispatchSeen, Callback
  <1>2. /\ Tracked(c, flag).status = c.status
        /\ Tracked(c, flag).review = "running" => c.review = "running"
    <2> DEFINE state == IF Relevant(c) THEN "received"
                        ELSE IF flag /\ Recoverable(c) THEN "missing" ELSE "waiting"
               term   == IF Relevant(c) THEN report.at ELSE c.term
               rev    == IF state = "waiting" THEN c.review ELSE "queued"
               reason == CASE state = "received" -> "worker_callback"
                           [] state = "missing"  -> "thread_recovery"
                           [] OTHER              -> c.reason
    <2>1. Tracked(c, flag) = IF state = c.state THEN c
            ELSE [c EXCEPT !.state = state, !.term = term, !.review = rev, !.reason = reason]
      BY DEF Tracked
    <2>2. rev = "running" => c.review = "running"
      OBVIOUS
    <2> HIDE DEF state, term, rev, reason
    <2> QED
      BY <2>1, <2>2 DEF Callback
  <1> QED
    BY <1>1, <1>2

\* Store events, probes and periodic reconciliation.
LEMMA ObserveStatus ==
    ASSUME TypeOK, Observe
    PROVE  StatusQuiet
PROOF
  <1>0. cb \in Callback
    BY DEF TypeOK
  <1>1. ASSUME Reconcile
        PROVE  StatusQuiet
    <2>1. PICK expired \in BOOLEAN, timedOut \in BOOLEAN, probe \in BOOLEAN :
            LET c == DispatchSeen(cb, expired) IN
            \/ cb' \in {c, Tracked(c, timedOut)} /\ UNCHANGED disk
               /\ (op' = op \/ op' = IF probe /\ ProbeDue(cb') THEN [kind |-> "probe"] ELSE NoOp)
            \/ PostStart("recon", c)
      BY <1>1 DEF Reconcile
    <2> DEFINE c == DispatchSeen(cb, expired)
    <2>2. c \in Callback /\ c.status = cb.status /\ c.review = cb.review
      BY <1>0, DispatchSeenType, TrackedStatus
    <2>3. Tracked(c, timedOut).status = cb.status
          /\ (Tracked(c, timedOut).review = "running" => cb.review = "running")
      BY <2>2, TrackedStatus
    <2> HIDE DEF c
    <2>4. CASE PostStart("recon", c)
      BY <2>2, <2>4, StartStatus
    <2>5. CASE /\ cb' \in {c, Tracked(c, timedOut)} /\ UNCHANGED disk
               /\ op' = op \/ op' = IF probe /\ ProbeDue(cb') THEN [kind |-> "probe"] ELSE NoOp
      <3>1. op' = op \/ op'.kind # "steer"
        BY <2>5 DEF NoOp
      <3> QED
        BY <2>2, <2>3, <2>5, <3>1 DEF StatusQuiet
    <2> QED
      BY <2>1, <2>4, <2>5 DEF c
  <1>2. ASSUME ProbeLeaves \/ ProbeRecovers
        PROVE  StatusQuiet
    <2>1. op' = NoOp /\ UNCHANGED disk
      BY <1>2 DEF ProbeLeaves, ProbeRecovers, butler
    <2>2. cb' \in {cb, [cb EXCEPT !.state = "missing", !.review = "queued", !.reason = "thread_recovery"]}
      BY <1>2 DEF ProbeLeaves, ProbeRecovers, butler
    <2> QED
      BY <1>0, <2>1, <2>2 DEF StatusQuiet, NoOp, Callback
  <1>3. ASSUME ProcessPending
        PROVE  StatusQuiet
    <2> DEFINE c == IF Relevant(cb) THEN [cb EXCEPT !.term = report.at] ELSE cb
    <2>1. c \in Callback /\ c.status = cb.status /\ c.review = cb.review
      BY <1>0 DEF TypeOK, Callback, Report
    <2>2. ProcessBlocked(c) \/ ProcessDirectReply(c) \/ ProcessReport(c) \/ ProcessMissing(c)
      BY <1>3 DEF ProcessPending
    <2> HIDE DEF c
    <2>3. CASE ProcessBlocked(c)
      <3>1. Persist /\ UNCHANGED op /\ cb' \in {c, Queue(c, "worker_callback")}
        BY <2>3 DEF ProcessBlocked
      <3> QED
        BY <2>1, <3>1, SameStatus, PersistWrites DEF StatusQuiet
    <2>4. CASE ProcessDirectReply(c)
      <3>1. PostStart("direct", c) \/ (cb' = c /\ UNCHANGED <<disk, op>>)
        BY <2>4 DEF ProcessDirectReply
      <3> QED
        BY <2>1, <3>1, StartStatus DEF StatusQuiet
    <2>5. CASE ProcessReport(c) \/ ProcessMissing(c)
      <3>1. Persist /\ UNCHANGED op
        BY <2>5 DEF ProcessReport, ProcessMissing
      <3>2. cb'.status = c.status /\ (cb'.review = "running" => c.review = "running")
        BY <2>1, <2>5 DEF ProcessReport, ProcessMissing, Callback
      <3> QED
        BY <2>1, <3>1, <3>2, PersistWrites DEF StatusQuiet
    <2> QED
      BY <2>2, <2>3, <2>4, <2>5
  <1>4. ASSUME SaveCallbacks
        PROVE  StatusQuiet
    BY <1>0, <1>4 DEF SaveCallbacks, StatusQuiet, TypeOK, Disk
  <1> QED
    BY <1>1, <1>2, <1>3, <1>4 DEF Observe

\* The Worker's events, the operator's controls and the end of the session.
LEMMA OutsideStatus ==
    ASSUME TypeOK,
           \/ Worker \/ HoldContext \/ Retry \/ Cancel \/ AuthReset
           \/ StopJob \/ Remove \/ Quiesce
    PROVE  StatusQuiet
PROOF
  <1>0. cb \in Callback
    BY DEF TypeOK
  <1>1. ASSUME Worker \/ Quiesce
        PROVE  StatusQuiet
    BY <1>1 DEF Worker, WorkerReport, TurnStart, TurnEnd, Quiesce, StatusQuiet, butler
  <1>2. ASSUME Cancel
        PROVE  StatusQuiet
    BY <1>0, <1>2, PersistWrites DEF Cancel, StatusQuiet, Callback
  <1>3. ASSUME HoldContext \/ StopJob \/ Remove
        PROVE  StatusQuiet
    <2>1. Persist /\ UNCHANGED op
      BY <1>3 DEF HoldContext, StopJob, Remove
    <2>2. cb'.status # "posted"
      BY <1>0, <1>3, SameStatus DEF HoldContext, StopJob, Remove, NewCallback, NoCb
    <2> QED
      BY <2>1, <2>2, PersistWrites DEF StatusQuiet
  <1>4. ASSUME Retry
        PROVE  StatusQuiet
    <2>1. Persist /\ UNCHANGED op
      BY <1>4 DEF Retry
    <2> DEFINE c == [cb EXCEPT !.tries = 0]
               reason == IF cb.reason = "none" THEN "worker_callback" ELSE cb.reason
    <2>2. c \in Callback /\ c.status = cb.status
      BY <1>0, Values DEF Callback
    <2>3. cb' = Queue(c, reason)
      BY <1>4 DEF Retry
    <2> HIDE DEF c, reason
    <2>4. cb'.status = c.status /\ cb'.review = "queued"
      BY <2>2, <2>3, SameStatus
    <2> QED
      BY <2>1, <2>2, <2>4, PersistWrites DEF StatusQuiet
  <1>5. ASSUME AuthReset
        PROVE  StatusQuiet
    BY <1>0, <1>5, SameStatus DEF AuthReset, StatusQuiet
  <1> QED
    BY <1>1, <1>2, <1>3, <1>4, <1>5

\* What is known of the section in progress when it is a post.
LEMMA PostKeeps ==
    ASSUME TypeOK, op.kind = "post", NEW pc
    PROVE  [op EXCEPT !.pc = pc].kind = "post" /\ [op EXCEPT !.pc = pc].by = op.by
PROOF
  <1>1. op \in PostOps
    BY DEF TypeOK, Operation, NoOp, SteerOps
  <1> QED
    BY <1>1 DEF PostOps

\* The post itself: it ends with the callback posted, or failed under way.
LEMMA PostStatus ==
    ASSUME TypeOK, CallbackInv, Post
    PROVE  CallbackInv'
PROOF
  <1>0. cb \in Callback /\ disk \in Disk /\ disk.cb \in Callback
    BY DEF TypeOK, Disk
  <1>1. ASSUME PostFails
        PROVE  CallbackInv'
    <2> DEFINE restored == IF op.pc = "written" THEN [disk EXCEPT !.msgs = msgs] ELSE disk
    <2>1. restored.cb = disk.cb /\ restored \in Disk
      BY <1>0 DEF Disk, TypeOK
    <2>2. op' = NoOp
      BY <1>1 DEF PostFails
    <2>3. \/ cb' = cb /\ disk' = restored
          \/ cb' \in {cb, FailedReview(cb, fails')}
             /\ disk' = [restored EXCEPT !.cb = cb', !.delivered = delivered]
      BY <1>1 DEF PostFails
    <2> HIDE DEF restored
    <2>4. disk'.cb \in {disk.cb, cb'}
      BY <2>1, <2>3 DEF Disk
    <2>5. cb'.status = cb.status /\ (cb'.review = "running" => cb.review = "running")
      BY <1>0, <2>3, SameStatus
    <2> QED
      BY <2>2, <2>4, <2>5 DEF CallbackInv, PostedIsOver, PostedInMemory, NoOp
  <1>2. ASSUME PostWrite
        PROVE  CallbackInv'
    <2>1. op'.kind = "post"
      BY <1>2, PostKeeps DEF PostWrite
    <2>2. cb' = cb /\ disk'.cb = disk.cb
      BY <1>0, <1>2 DEF PostWrite, Disk
    <2> QED
      BY <2>1, <2>2 DEF CallbackInv, PostedIsOver, PostedInMemory
  <1>3. ASSUME PostAlready \/ PostCommit
        PROVE  CallbackInv'
    <2>1. op'.kind # "steer"
      <3>1. CASE PostAlready
        BY <3>1 DEF PostAlready, NoOp
      <3>2. CASE PostCommit
        <4>1. op' = [op EXCEPT !.pc = "save"] /\ op.kind = "post"
          BY <3>2 DEF PostCommit
        <4> QED
          BY <4>1, PostKeeps
      <3> QED
        BY <1>3, <3>1, <3>2
    <2>2. cb'.status = "posted" /\ cb'.review = "idle"
      BY <1>0, <1>3, SameStatus DEF PostAlready, PostCommit
    <2> QED
      BY <2>1, <2>2 DEF CallbackInv, PostedIsOver, PostedInMemory
  <1>4. ASSUME PostSave
        PROVE  CallbackInv'
    BY <1>4 DEF PostSave, CallbackInv, PostedIsOver, PostedInMemory, NoOp
  <1> QED
    BY <1>1, <1>2, <1>3, <1>4 DEF Post

\* A restart reads the callback file and leaves no review running.
LEMMA CrashStatus ==
    ASSUME TypeOK, CrashRestart
    PROVE  CallbackInv' /\ cb'.status = disk.cb.status
PROOF
  <1> DEFINE c == Normalized(disk.cb)
  <1>1. disk.cb \in Callback /\ disk \in Disk
    BY DEF TypeOK, Disk
  <1>2. c.status = disk.cb.status /\ c.review # "running"
    BY <1>1 DEF Normalized, Callback
  <1>3. c \in Callback
    BY <1>1, NormalizedType
  <1>4. cb' = Resumed(c) /\ disk' = [disk EXCEPT !.cb = cb'] /\ op' = NoOp
    BY DEF CrashRestart
  <1> HIDE DEF c
  <1>5. cb'.status = c.status /\ cb'.review # "running"
    BY <1>2, <1>3, <1>4 DEF Resumed, Callback
  <1>6. disk'.cb = cb'
    BY <1>1, <1>4 DEF Disk
  <1> QED
    BY <1>2, <1>4, <1>5, <1>6 DEF CallbackInv, PostedIsOver, PostedInMemory, NoOp

\* What is said of the callback is inductive.
LEMMA CallbackStep ==
    ASSUME TypeOK, CallbackInv, [Next]_vars
    PROVE  CallbackInv'
PROOF
  <1>1. CASE Attempt \/ Tools \/ Observe
    BY <1>1, AttemptStatus, ToolsStatus, ObserveStatus, QuietStatus
  <1>2. CASE Steer
    BY <1>2, SteerStatus, RejectedStatus, QuietStatus DEF Steer
  <1>3. CASE \/ Worker \/ HoldContext \/ Retry \/ Cancel \/ AuthReset
             \/ StopJob \/ Remove \/ Quiesce
    BY <1>3, OutsideStatus, QuietStatus
  <1>4. CASE Post
    BY <1>4, PostStatus
  <1>5. CASE CrashRestart
    BY <1>5, CrashStatus
  <1>6. CASE UNCHANGED vars
    BY <1>6 DEF CallbackInv, PostedIsOver, PostedInMemory, vars, butler
  <1> QED
    BY <1>1, <1>2, <1>3, <1>4, <1>5, <1>6 DEF Next

-----------------------------------------------------------------------------
(* The attempt, its mutation and its post *)

\* A step that leaves no review's post in progress owes only what is said of
\* the mutation that waits.
LEMMA WithoutPost ==
    ASSUME PendingEndsAttempt', ~ReviewPosts'
    PROVE  AttemptInv'
  BY DEF AttemptInv, ReviewPostIsOwn, CountedIsNotCurrent

\* Whoever takes the free lock, other than a terminalization, posts no review.
LEMMA OthersPost ==
    ASSUME LockFree, op' = op \/ (\E by \in {"main", "tool", "direct", "recon"} : \E c : PostStart(by, c))
    PROVE  ~ReviewPosts'
  BY DEF LockFree, ReviewPosts, PostStart, PostOp

\* Steps that neither touch the attempt nor count a failure.
LEMMA SameAttempt ==
    ASSUME AttemptInv, UNCHANGED <<op, rv, pend>>, fails' = 0 \/ UNCHANGED <<cb, fails>>
    PROVE  AttemptInv'
  BY DEF AttemptInv, PendingEndsAttempt, ReviewPostIsOwn, CountedIsNotCurrent,
         ReviewPosts, Outstanding

\* How an attempt and its mutation move on together.
LEMMA MutationMoves ==
    ASSUME PendingEndsAttempt,
           \/ UNCHANGED <<rv, pend>>
           \/ pend'.kind = "none"
           \/ UNCHANGED pend /\ rv' = IdleRv
           \/ /\ pend'.own => rv.obj = "same"
              /\ rv'.pc = "await" /\ rv'.obj = rv.obj
           \/ pend'.kind = pend.kind /\ ~pend'.own /\ rv'.pc = rv.pc
    PROVE  PendingEndsAttempt'
  BY DEF PendingEndsAttempt, IdleRv

\* The end of a tool of the attempt.
LEMMA ToolMoves ==
    ASSUME TypeOK, PendingEndsAttempt, ToolSucceeds \/ ToolFails
    PROVE  PendingEndsAttempt'
PROOF
  <1>1. CASE rv.pc # "tool"
    BY <1>1, MutationMoves DEF ToolSucceeds, ToolFails
  <1>2. CASE rv.pc = "tool" /\ ToolFails
    <2>1. pend' = pend /\ pend.kind = "none"
      BY <1>2 DEF ToolFails, PendingEndsAttempt
    <2> QED
      BY <2>1, MutationMoves
  <1>3. CASE rv.pc = "tool" /\ ToolSucceeds
    <2>1. /\ rv' = [rv EXCEPT !.pc = "await"]
          /\ pend' = [kind |-> "terminal", own |-> rv.obj = "same"]
      BY <1>3 DEF ToolSucceeds
    <2>2. rv'.pc = "await" /\ rv'.obj = rv.obj
      BY <2>1 DEF TypeOK, Attempts
    <2>3. pend'.own => rv.obj = "same"
      BY <2>1
    <2> QED
      BY <2>2, <2>3, MutationMoves
  <1> QED
    BY <1>1, <1>2, <1>3

\* A new callback object takes the place of the attempt's.
LEMMA DetachMoves ==
    ASSUME TypeOK, PendingEndsAttempt, NEW pc, DetachTo(pc),
           pc = rv.pc \/ pend.kind = "none"
    PROVE  PendingEndsAttempt'
PROOF
  <1>1. pend'.kind = pend.kind /\ ~pend'.own
    BY DEF DetachTo, TypeOK, Pending
  <1>2. rv'.pc = pc
    BY DEF DetachTo, TypeOK, Attempts
  <1> QED
    BY <1>1, <1>2, MutationMoves

\* An attempt that ends without its post: its mutation is queued.
LEMMA EndsMoves ==
    ASSUME TypeOK, PendingEndsAttempt, NEW kind,
           rv' = [rv EXCEPT !.pc = "await", !.rep = 0] \/ rv' = [rv EXCEPT !.pc = "await"],
           pend' = [kind |-> kind, own |-> rv.obj = "same"]
    PROVE  PendingEndsAttempt'
PROOF
  <1>1. rv'.pc = "await" /\ rv'.obj = rv.obj
    BY DEF TypeOK, Attempts
  <1>2. pend'.own => rv.obj = "same"
    OBVIOUS
  <1> QED
    BY <1>1, <1>2, MutationMoves

\* The terminalization of an attempt, from the lock to the start of its post.
LEMMA TerminalizeOwn ==
    ASSUME TypeOK, AttemptInv, Terminalize
    PROVE  AttemptInv'
PROOF
  <1>1. pend'.kind = "none" /\ PendingEndsAttempt'
    BY DEF Terminalize, NoPend, PendingEndsAttempt
  <1>2. CASE op' = op
    BY <1>1, <1>2, OthersPost, WithoutPost DEF Terminalize
  <1>3. CASE op' # op
    <2>1. TerminalizeApplies /\ fails' = 0 /\ UNCHANGED rv
      BY <1>3 DEF Terminalize
    <2>2. rv.pc \in {"idle", "await"} /\ (rv.pc = "await" => rv.obj = "same")
      BY <2>1 DEF Terminalize, TerminalizeApplies, AttemptInv, PendingEndsAttempt
    <2> QED
      BY <1>1, <2>1, <2>2 DEF AttemptInv, ReviewPostIsOwn, CountedIsNotCurrent
  <1> QED
    BY <1>2, <1>3

\* A failure that is counted without the lock: the callback that the post in
\* progress expects is no longer under review.
LEMMA CountedOwn ==
    ASSUME TypeOK, CallbackInv, AttemptInv, TerminalizeTimesOut \/ RecoverOrphan
    PROVE  AttemptInv'
PROOF
  <1>0. cb \in Callback
    BY DEF TypeOK
  <1>1. PendingEndsAttempt'
    BY MutationMoves DEF AttemptInv, TerminalizeTimesOut, TerminalizationFails, RecoverOrphan, review
  <1>2. ReviewPostIsOwn'
    BY DEF AttemptInv, ReviewPostIsOwn, ReviewPosts, TerminalizeTimesOut, TerminalizationFails,
           RecoverOrphan, review, IdleRv
  <1>3. CASE ReviewPosts
    <2>1. TerminalizeTimesOut => rv.obj = "same"
      BY <1>3 DEF TerminalizeTimesOut, AttemptInv, ReviewPostIsOwn
    <2>2. \/ UNCHANGED <<op, cb, fails>>
          \/ op' = op /\ cb.review = "running" /\ cb' = FailedReview(cb, fails')
      BY <2>1 DEF TerminalizeTimesOut, TerminalizationFails, FailureCounts, RecoverOrphan
    <2>3. CASE op' = op /\ cb.review = "running" /\ cb' = FailedReview(cb, fails')
      <3>1. cb.status # "posted"
        BY <2>3 DEF CallbackInv, PostedIsOver
      <3>2. cb'.status = cb.status /\ cb'.review # "running"
        BY <1>0, <2>3, SameStatus
      <3> QED
        BY <1>1, <1>2, <3>1, <3>2 DEF AttemptInv, CountedIsNotCurrent
    <2>4. CASE UNCHANGED <<op, cb, fails>>
      BY <1>1, <1>2, <2>4 DEF AttemptInv, CountedIsNotCurrent, ReviewPosts, Outstanding
    <2> QED
      BY <2>2, <2>3, <2>4
  <1>4. CASE ~ReviewPosts
    <2>1. ~ReviewPosts'
      BY <1>4 DEF ReviewPosts, TerminalizeTimesOut, RecoverOrphan
    <2> QED
      BY <1>1, <2>1, WithoutPost
  <1> QED
    BY <1>3, <1>4

\* Every step of the review attempt.
LEMMA AttemptOwn ==
    ASSUME TypeOK, CallbackInv, AttemptInv, Attempt
    PROVE  AttemptInv'
PROOF
  <1>0. PendingEndsAttempt
    BY DEF AttemptInv
  <1>1. ASSUME Begin \/ BeginFails
        PROVE  AttemptInv'
    <2>1. pend'.kind = "none" /\ op' = op /\ LockFree
      BY <1>1 DEF Begin, BeginFails, BeginGuard, review
    <2> QED
      BY <1>0, <2>1, MutationMoves, OthersPost, WithoutPost
  <1>2. ASSUME RecordVerdict \/ SkipVerdict \/ AttemptFails
        PROVE  AttemptInv'
    <2>1. rv.pc \in {"review", "supervise", "tool"} /\ op' = op
      BY <1>2 DEF RecordVerdict, SkipVerdict, AttemptFails
    <2>2. ~ReviewPosts'
      BY <2>1 DEF AttemptInv, ReviewPostIsOwn, ReviewPosts
    <2>3. pend.kind = "none"
      BY <1>0, <2>1 DEF PendingEndsAttempt
    <2>4. CASE pend' = pend
      BY <1>0, <2>2, <2>3, <2>4, MutationMoves, WithoutPost
    <2>5. CASE /\ rv' = [rv EXCEPT !.pc = "await", !.rep = 0]
               /\ \E kind : pend' = [kind |-> kind, own |-> rv.obj = "same"]
      BY <1>0, <2>2, <2>5, EndsMoves, WithoutPost
    <2> QED
      BY <1>2, <2>4, <2>5 DEF RecordVerdict, SkipVerdict, AttemptFails
  <1>3. ASSUME Settle
        PROVE  AttemptInv'
    <2>1. pend'.kind = "none" /\ op' = op /\ LockFree
      BY <1>3 DEF Settle, NoPend
    <2> QED
      BY <1>0, <2>1, MutationMoves, OthersPost, WithoutPost
  <1>4. ASSUME SettleTimesOut
        PROVE  AttemptInv'
    <2>1. rv' = IdleRv /\ UNCHANGED <<pend, op>> /\ pend.kind = "settle"
      BY <1>4 DEF SettleTimesOut
    <2>2. ~ReviewPosts'
      BY <2>1 DEF AttemptInv, ReviewPostIsOwn, ReviewPosts
    <2> QED
      BY <1>0, <2>1, <2>2, MutationMoves, WithoutPost
  <1> QED
    BY <1>1, <1>2, <1>3, <1>4, TerminalizeOwn, CountedOwn DEF Attempt

\* Posts: the one that writes or commits found its callback current, so no
\* failure was counted since it began.
LEMMA PostOwn ==
    ASSUME TypeOK, AttemptInv, Post
    PROVE  AttemptInv'
PROOF
  <1>0. PendingEndsAttempt
    BY DEF AttemptInv
  <1>1. ASSUME PostFails
        PROVE  AttemptInv'
    <2>1. ~ReviewPosts'
      BY <1>1 DEF PostFails, ReviewPosts, NoOp
    <2>2. \/ UNCHANGED <<rv, pend>>
          \/ UNCHANGED pend /\ rv' = IdleRv
          \/ ToolFails
      BY <1>1 DEF PostFails
    <2> QED
      BY <1>0, <2>1, <2>2, MutationMoves, ToolMoves, WithoutPost
  <1>2. ASSUME PostAlready \/ PostSave
        PROVE  AttemptInv'
    <2>1. ~ReviewPosts'
      BY <1>2 DEF PostAlready, PostSave, ReviewPosts, NoOp
    <2>2. \/ UNCHANGED <<rv, pend>>
          \/ UNCHANGED pend /\ rv' = IdleRv
          \/ ToolSucceeds
      BY <1>2 DEF PostAlready, PostSave, PostEnds
    <2> QED
      BY <1>0, <2>1, <2>2, MutationMoves, ToolMoves, WithoutPost
  <1>3. ASSUME PostWrite \/ PostCommit
        PROVE  AttemptInv'
    <2>1. /\ UNCHANGED <<rv, pend, fails>> /\ ExpectedCurrent /\ op.kind = "post"
          /\ \E pc : op' = [op EXCEPT !.pc = pc]
      BY <1>3 DEF PostWrite, PostCommit, review
    <2>2. op'.kind = "post" /\ op'.by = op.by
      BY <2>1, PostKeeps
    <2>3. ReviewPosts' => fails' = 0
      BY <2>1, <2>2 DEF ReviewPosts, ExpectedCurrent, AttemptInv, CountedIsNotCurrent
    <2> QED
      BY <2>1, <2>2, <2>3 DEF AttemptInv, PendingEndsAttempt, ReviewPostIsOwn,
                              CountedIsNotCurrent, ReviewPosts
  <1> QED
    BY <1>1, <1>2, <1>3 DEF Post

\* Follow-ups hold the lock themselves.
LEMMA SteerOwn ==
    ASSUME TypeOK, AttemptInv, Steer
    PROVE  AttemptInv'
PROOF
  <1>0. PendingEndsAttempt
    BY DEF AttemptInv
  <1>1. ASSUME NEW s \in Steers, SteerReserve(s[1], s[2], s[3])
        PROVE  AttemptInv'
    <2>1. ~ReviewPosts'
      BY <1>1 DEF SteerReserve, ReviewPosts
    <2>2. s[1] = "tool" => rv.pc = "supervise"
      BY <1>1 DEF SteerReserve
    <2>3. \/ DetachTo(IF s[1] = "tool" THEN "tool" ELSE rv.pc)
          \/ s[1] = "tool" /\ UNCHANGED pend
      BY <1>1 DEF SteerReserve, ReplacesObject
    <2>4. s[1] = "tool" => pend.kind = "none"
      BY <1>0, <2>2 DEF PendingEndsAttempt
    <2>5. PendingEndsAttempt'
      BY <1>0, <2>3, <2>4, DetachMoves, MutationMoves
    <2> QED
      BY <2>1, <2>5, WithoutPost
  <1>2. ASSUME SteerBind
        PROVE  AttemptInv'
    <2>1. op'.kind = "steer"
      BY <1>2, SteerFields DEF SteerBind, SteerOps
    <2>2. UNCHANGED <<rv, pend>>
      BY <1>2 DEF SteerBind, review
    <2> QED
      BY <1>0, <2>1, <2>2, MutationMoves, WithoutPost DEF ReviewPosts
  <1>3. ASSUME SteerAccepted \/ SteerAmbiguous \/ SteerRejected
        PROVE  AttemptInv'
    <2>1. op' = NoOp
      BY <1>3 DEF SteerAccepted, SteerAmbiguous, SteerRejected
    <2>2. UNCHANGED <<rv, pend>> \/ ToolSucceeds \/ ToolFails
      BY <1>3 DEF SteerAccepted, SteerAmbiguous, SteerRejected
    <2> QED
      BY <1>0, <2>1, <2>2, MutationMoves, ToolMoves, WithoutPost DEF ReviewPosts, NoOp
  <1> QED
    BY <1>1, <1>2, <1>3 DEF Steer

\* Tools of the main session and of the supervisor take the free lock.
LEMMA ToolsOwn ==
    ASSUME TypeOK, AttemptInv, Tools
    PROVE  AttemptInv'
PROOF
  <1>0. PendingEndsAttempt
    BY DEF AttemptInv
  <1>1. ASSUME MainReply \/ ReviewPoints \/ DisproveFinding
        PROVE  AttemptInv'
    <2>1. ~ReviewPosts'
      BY <1>1, OthersPost DEF MainReply, ReviewPoints, DisproveFinding
    <2>2. UNCHANGED <<rv, pend>>
      BY <1>1 DEF MainReply, ReviewPoints, DisproveFinding, review
    <2> QED
      BY <1>0, <2>1, <2>2, MutationMoves, WithoutPost
  <1>2. ASSUME SupervisorReply
        PROVE  AttemptInv'
    <2>1. ~ReviewPosts'
      BY <1>2, OthersPost DEF SupervisorReply
    <2>2. pend.kind = "none"
      BY <1>0, <1>2 DEF SupervisorReply, PendingEndsAttempt
    <2>3. CASE UNCHANGED pend
      BY <1>0, <2>1, <2>2, <2>3, MutationMoves, WithoutPost
    <2>4. CASE /\ rv' = [rv EXCEPT !.pc = "await"]
               /\ pend' = [kind |-> "terminal", own |-> rv.obj = "same"]
      BY <1>0, <2>1, <2>4, EndsMoves, WithoutPost
    <2> QED
      BY <1>2, <2>3, <2>4 DEF SupervisorReply
  <1> QED
    BY <1>1, <1>2 DEF Tools

\* Store events, probes and periodic reconciliation.
LEMMA ObserveOwn ==
    ASSUME TypeOK, AttemptInv, Observe
    PROVE  AttemptInv'
PROOF
  <1>0. PendingEndsAttempt
    BY DEF AttemptInv
  <1>1. ASSUME Reconcile
        PROVE  AttemptInv'
    <2>1. op' = op \/ op' = [kind |-> "probe"] \/ op' = NoOp \/ \E c : PostStart("recon", c)
      BY <1>1 DEF Reconcile
    <2>2. ~ReviewPosts'
      BY <1>1, <2>1, OthersPost DEF Reconcile, ReviewPosts, NoOp
    <2>3. UNCHANGED <<rv, pend>>
      BY <1>1 DEF Reconcile, review
    <2> QED
      BY <1>0, <2>2, <2>3, MutationMoves, WithoutPost
  <1>2. ASSUME ProbeLeaves \/ ProbeRecovers
        PROVE  AttemptInv'
    <2>1. op' = NoOp /\ UNCHANGED <<rv, pend>>
      BY <1>2 DEF ProbeLeaves, ProbeRecovers, review
    <2> QED
      BY <1>0, <2>1, MutationMoves, WithoutPost DEF ReviewPosts, NoOp
  <1>3. ASSUME ProcessPending
        PROVE  AttemptInv'
    <2>1. op' = op \/ \E c : PostStart("direct", c)
      BY <1>3 DEF ProcessPending, ProcessBlocked, ProcessDirectReply, ProcessReport, ProcessMissing
    <2>2. LockFree /\ UNCHANGED <<rv, pend>>
      BY <1>3 DEF ProcessPending, review
    <2> QED
      BY <1>0, <2>1, <2>2, OthersPost, MutationMoves, WithoutPost
  <1>4. ASSUME SaveCallbacks
        PROVE  AttemptInv'
    BY <1>4, SameAttempt DEF SaveCallbacks, review
  <1> QED
    BY <1>1, <1>2, <1>3, <1>4 DEF Observe

\* The Worker's events, the operator's controls and the end of the session.
LEMMA OutsideOwn ==
    ASSUME TypeOK, AttemptInv,
           \/ Worker \/ HoldContext \/ Retry \/ Cancel \/ AuthReset
           \/ StopJob \/ Remove \/ Quiesce
    PROVE  AttemptInv'
PROOF
  <1>0. PendingEndsAttempt
    BY DEF AttemptInv
  <1>1. ASSUME Worker \/ Quiesce
        PROVE  AttemptInv'
    BY <1>1, SameAttempt DEF Worker, WorkerReport, TurnStart, TurnEnd, Quiesce, butler, review
  <1>2. ASSUME Retry \/ AuthReset \/ Cancel \/ StopJob
        PROVE  AttemptInv'
    BY <1>2, SameAttempt DEF Retry, AuthReset, Cancel, StopJob, review
  <1>3. ASSUME HoldContext \/ Remove
        PROVE  AttemptInv'
    <2>1. LockFree /\ op' = op /\ DetachTo(rv.pc)
      BY <1>3 DEF HoldContext, Remove
    <2> QED
      BY <1>0, <2>1, DetachMoves, OthersPost, WithoutPost
  <1> QED
    BY <1>1, <1>2, <1>3

-----------------------------------------------------------------------------
(* The invariant and the theorem *)

\* A job whose first turn runs has no attempt yet.
LEMMA AttemptInit == Init => AInv
PROOF
  <1> SUFFICES ASSUME Init PROVE AInv
    OBVIOUS
  <1>1. CallbackInv
    BY DEF Init, NewCallback, NoOp, CallbackInv, PostedIsOver, PostedInMemory
  <1>2. AttemptInv
    BY DEF Init, NoOp, NoPend, AttemptInv, PendingEndsAttempt, ReviewPostIsOwn,
           CountedIsNotCurrent, ReviewPosts
  <1> QED
    BY <1>1, <1>2, TypeInit DEF AInv

\* Every step preserves what is said of the attempt.
LEMMA AttemptStep ==
    ASSUME TypeOK, CallbackInv, AttemptInv, [Next]_vars
    PROVE  AttemptInv'
PROOF
  <1>1. CASE CrashRestart
    BY <1>1, WithoutPost
       DEF CrashRestart, NoOp, NoPend, PendingEndsAttempt, ReviewPosts
  <1>2. CASE UNCHANGED vars
    BY <1>2, SameAttempt DEF vars, butler, review
  <1> QED
    BY <1>1, <1>2, AttemptOwn, PostOwn, SteerOwn, ToolsOwn, ObserveOwn, OutsideOwn DEF Next

\* The invariant of the attempt and its post is inductive.
LEMMA AInvStep == AInv /\ [Next]_vars => AInv'
PROOF
  <1> SUFFICES ASSUME AInv, [Next]_vars PROVE AInv'
    OBVIOUS
  <1>1. TypeOK /\ CallbackInv /\ AttemptInv
    BY DEF AInv, TInv
  <1> QED
    BY <1>1, TypeStep, CallbackStep, AttemptStep DEF AInv

\* A review's post that would close the callback finds no failure counted.
LEMMA PostsUncounted ==
    ASSUME TypeOK, CallbackInv, AttemptInv, Next, ReviewPosts, cb'.status = "posted"
    PROVE  fails = 0
PROOF
  <1>1. CASE cb.status = "posted"
    BY <1>1 DEF AttemptInv, CountedIsNotCurrent
  <1>2. CASE cb.status # "posted"
    <2>1. ~StatusQuiet
      BY <1>2 DEF StatusQuiet
    <2>2. ~Steer
      BY DEF Steer, SteerReserve, SteerBind, SteerAccepted, SteerAmbiguous, SteerRejected,
             ReviewPosts, LockFree
    <2>3. ~CrashRestart
      BY <1>2, CrashStatus DEF CallbackInv, PostedInMemory
    <2>4. Post
      BY <2>1, <2>2, <2>3, AttemptStatus, ToolsStatus, ObserveStatus, OutsideStatus DEF Next
    <2>5. CASE PostAlready \/ PostWrite \/ PostCommit
      BY <2>5 DEF PostAlready, PostWrite, PostCommit, ExpectedCurrent, ReviewPosts,
                  AttemptInv, CountedIsNotCurrent
    <2>6. CASE PostFails
      <3>1. cb' \in {cb, FailedReview(cb, fails')} /\ cb \in Callback
        BY <2>6 DEF PostFails, TypeOK
      <3> QED
        BY <1>2, <3>1, SameStatus
    <2>7. CASE PostSave
      BY <1>2, <2>7 DEF PostSave
    <2> QED
      BY <2>4, <2>5, <2>6, <2>7 DEF Post
  <1> QED
    BY <1>1, <1>2

\* In every reachable state the attempt, its queued mutation, its post and the
\* failure counter agree, whatever times out, is superseded or crashes.
THEOREM AttemptInvariance == Spec => []AInv
PROOF
  <1> QED
    BY AttemptInit, AInvStep, PTL DEF Spec

\* A terminalization that ran out of its time counts a failure while its post is
\* under way (runAutonomousCallbackReview); the post compares the callback again
\* after every await and does not go through, for any clock bound, attempt limit
\* and choice of follow-ups.
THEOREM TimedOutPostIsDropped == Spec => CountedFailureDoesNotPost
PROOF
  <1>1. AInv /\ [Next]_vars =>
          [op.kind = "post" /\ op.by = "review" /\ cb'.status = "posted" => fails = 0]_cb
    <2> SUFFICES ASSUME AInv, [Next]_vars, cb' # cb, ReviewPosts, cb'.status = "posted"
                 PROVE  fails = 0
      BY DEF ReviewPosts
    <2>1. TypeOK /\ CallbackInv /\ AttemptInv
      BY DEF AInv, TInv
    <2>2. Next
      BY DEF vars, butler
    <2> QED
      BY <2>1, <2>2, PostsUncounted
  <1> QED
    BY <1>1, AttemptInvariance, PTL DEF Spec, CountedFailureDoesNotPost
=============================================================================
