--------------------------- MODULE WorkerCompaction ---------------------------
(***************************************************************************)
(* Supervision of a manual context compaction of one Worker thread:        *)
(* WorkerCompactionSupervisor and its registration with the activity       *)
(* watchdog.  An operation probes the Worker, registers a watchdog,        *)
(* dispatches the compaction and is settled by whichever comes first: the  *)
(* reply, an event of the Worker, or a check of the watchdog.              *)
(*                                                                         *)
(* The Worker (Pi) takes requests from its standard input in order and     *)
(* answers on its standard output, where events are mixed with replies.    *)
(* Butler reads the output in chunks: the lines of a chunk are handled one *)
(* after the other, and only then do the awaits that they resolved go on.  *)
(***************************************************************************)
EXTENDS Naturals, Sequences, SequencesExt

CONSTANTS
    MaxOps,          \* operations that are started
    ProbeLimit       \* failed probes after which a late operation is given up

ASSUME LimitsAssumption == MaxOps \in Nat \ {0} /\ ProbeLimit \in Nat \ {0}

VARIABLES
    cur, status,         \* the thread's entry in `operations'
    overdue, failures,   \* deadlineReached and probeFailures of that operation
    watch,               \* a watchdog is registered for the thread
    pc,                  \* what each operation's start and dispatch wait for
    checking,            \* the operation of the check in flight
    answer,              \* resolved awaits that have not gone on yet
    inbox, pipe, chunk,  \* the Worker's input and output; lines left in the chunk
    compacting           \* the operation whose compaction the Worker runs

operation == <<cur, status, overdue, failures, watch>>
waits     == <<pc, checking, answer>>
pi        == <<inbox, pipe, compacting>>
compactionVars      == <<operation, waits, pi, chunk>>

Ops     == 1..MaxOps
Checker == 0
Waiters == Ops \cup {Checker}

Active == cur # 0 /\ status \in {"starting", "running"}

\* Timers and requests come between two chunks, when no await is left to go on.
Quiet == chunk = 0 /\ \A w \in Waiters : answer[w] = "none"

Waiting(w) == IF w = Checker THEN checking # 0 ELSE pc[w] \notin {"unused", "over"}

Ask(w)         == [kind |-> "state", who |-> w]
Compact(i)     == [kind |-> "compact", who |-> i]
State(w, busy) == [kind |-> "state", who |-> w, busy |-> busy]
Reply(i, ok)   == [kind |-> "reply", who |-> i, ok |-> ok]
Started        == [kind |-> "started", who |-> 0]
Ended(ok)      == [kind |-> "ended", who |-> 0, ok |-> ok]

StateLines(w)  == {State(w, busy) : busy \in BOOLEAN}

\* A queue without the one line of a kind, if there is one.
Places(queue, kind)  == {i \in DOMAIN queue : queue[i] \in kind}
Without(queue, kind) ==
    IF Places(queue, kind) = {} THEN queue
    ELSE RemoveAt(queue, CHOOSE i \in Places(queue, kind) : TRUE)

-----------------------------------------------------------------------------
(* How an operation is settled *)

\* complete and fail: only the current, active operation is settled.
Settle(i, result) ==
    IF cur = i /\ Active THEN status' = result /\ watch' = FALSE
                         ELSE UNCHANGED <<status, watch>>

\* handleRuntimeEvent: an event names the thread, not the operation.
HandleEvent(line) ==
    CASE line.kind = "started" /\ Active -> status' = "running" /\ UNCHANGED watch
      [] line.kind = "ended"   /\ Active -> Settle(cur, IF line.ok THEN "completed" ELSE "failed")
      [] OTHER                           -> UNCHANGED <<status, watch>>

-----------------------------------------------------------------------------
(* start *)

Start ==
    /\ Quiet
    /\ ~Active
    /\ \E i \in Ops :
         /\ pc[i] = "unused"
         /\ \A j \in Ops : j < i => pc[j] # "unused"
         /\ cur' = i
         /\ pc' = [pc EXCEPT ![i] = "probing"]
         /\ inbox' = Append(inbox, Ask(i))
    /\ status' = "starting" /\ overdue' = FALSE /\ failures' = 0
    /\ UNCHANGED <<watch, checking, answer, pipe, chunk, compacting>>

\* An await goes on, once the chunk is read.
Resumes(w) == chunk = 0 /\ answer[w] # "none"

\* The probe of start.  A busy Worker or an error removes the operation, otherwise
\* the watchdog is registered anew and compactThread asks for the state again.
StartProbed(i) ==
    /\ Resumes(i) /\ pc[i] = "probing"
    /\ answer' = [answer EXCEPT ![i] = "none"]
    /\ IF answer[i] = "idle"
       THEN /\ watch' = TRUE
            /\ pc' = [pc EXCEPT ![i] = "asking"]
            /\ inbox' = Append(inbox, Ask(i))
            /\ UNCHANGED <<cur, status, overdue, failures>>
       ELSE /\ pc' = [pc EXCEPT ![i] = "over"]
            /\ IF cur = i THEN cur' = 0 /\ status' = "none" /\ overdue' = FALSE /\ failures' = 0
                          ELSE UNCHANGED <<cur, status, overdue, failures>>
            /\ UNCHANGED <<watch, inbox>>
    /\ UNCHANGED <<checking, pipe, chunk, compacting>>

\* compactThread rejected: handleDispatchFailure probes for a current operation.
\* "lost": the request may have reached the Worker; "refused": it did not.
DispatchFailed(i, how) ==
    IF cur = i THEN pc' = [pc EXCEPT ![i] = how] /\ inbox' = Append(inbox, Ask(i))
               ELSE pc' = [pc EXCEPT ![i] = "over"] /\ UNCHANGED inbox

\* The second look at the state, in compactThread.
DispatchCompaction(i) ==
    /\ Resumes(i) /\ pc[i] = "asking"
    /\ answer' = [answer EXCEPT ![i] = "none"]
    /\ \/ answer[i] = "idle" /\ pc' = [pc EXCEPT ![i] = "compacting"] /\ inbox' = Append(inbox, Compact(i))
       \/ answer[i] = "busy" /\ DispatchFailed(i, "refused")
       \/ answer[i] = "error" /\ \E how \in {"lost", "refused"} : DispatchFailed(i, how)
    /\ UNCHANGED <<operation, checking, pipe, chunk, compacting>>

\* The reply to the compaction.
Replied(i) ==
    /\ Resumes(i) /\ pc[i] = "compacting"
    /\ answer' = [answer EXCEPT ![i] = "none"]
    /\ \/ answer[i] = "ok" /\ Settle(i, "completed") /\ pc' = [pc EXCEPT ![i] = "over"] /\ UNCHANGED inbox
       \/ answer[i] = "refused" /\ DispatchFailed(i, "refused") /\ UNCHANGED <<status, watch>>
       \/ answer[i] = "error" /\ DispatchFailed(i, "lost") /\ UNCHANGED <<status, watch>>
    /\ UNCHANGED <<cur, overdue, failures, checking, pipe, chunk, compacting>>

\* The probe of handleDispatchFailure.  It looks at the operation's identity, not
\* at whether the operation is still active.
FailureProbed(i) ==
    /\ Resumes(i) /\ pc[i] \in {"lost", "refused"}
    /\ answer' = [answer EXCEPT ![i] = "none"]
    /\ CASE cur = i /\ answer[i] = "busy"           -> status' = "running" /\ UNCHANGED watch
         [] answer[i] = "idle" /\ pc[i] = "refused" -> Settle(i, "failed")
         [] OTHER                                   -> UNCHANGED <<status, watch>>
    /\ pc' = [pc EXCEPT ![i] = "over"]
    /\ UNCHANGED <<cur, overdue, failures, checking, pi, chunk>>

-----------------------------------------------------------------------------
(* The watchdog *)

Tick ==
    /\ Quiet
    /\ watch /\ Active /\ checking = 0
    /\ checking' = cur
    /\ inbox' = Append(inbox, Ask(Checker))
    /\ UNCHANGED <<operation, pc, answer, pipe, chunk, compacting>>

\* Fault: a failed probe forgets the failures before it.
CheckForgetful ==
    /\ Resumes(Checker)
    /\ answer' = [answer EXCEPT ![Checker] = "none"]
    /\ checking' = 0
    /\ failures' = 0
    /\ CASE cur = checking /\ answer[Checker] = "busy" -> status' = "running" /\ UNCHANGED watch
         [] cur = checking /\ overdue /\ answer[Checker] = "idle" -> Settle(cur, "failed")
         [] OTHER -> UNCHANGED <<status, watch>>
    /\ UNCHANGED <<cur, overdue, pc, pi, chunk>>

\* The probe of check, for the operation that was current when it was sent.
Check ==
    /\ Resumes(Checker)
    /\ answer' = [answer EXCEPT ![Checker] = "none"]
    /\ checking' = 0
    /\ failures' = IF cur # checking THEN failures
                   ELSE IF answer[Checker] = "error"
                   THEN IF failures < ProbeLimit THEN failures + 1 ELSE failures
                   ELSE 0
    /\ CASE cur = checking /\ answer[Checker] = "busy" -> status' = "running" /\ UNCHANGED watch
         [] /\ cur = checking /\ overdue
            /\ answer[Checker] = "idle" \/ (answer[Checker] = "error" /\ failures' >= ProbeLimit)
                                                       -> Settle(cur, "failed")
         [] OTHER                                      -> UNCHANGED <<status, watch>>
    /\ UNCHANGED <<cur, overdue, pc, pi, chunk>>

\* The deadline passes.  Requests time out in seconds, so the dispatch is over.
Deadline ==
    /\ Quiet
    /\ Active /\ ~overdue /\ pc[cur] = "over"
    /\ overdue' = TRUE
    /\ UNCHANGED <<cur, status, failures, watch, waits, pi, chunk>>

-----------------------------------------------------------------------------
(* The Worker's process and the lines between it and Butler *)

\* A request or command is taken from the input.
PiTakes ==
    /\ inbox # <<>>
    /\ inbox' = Tail(inbox)
    /\ LET request == Head(inbox) IN
       CASE request.kind = "state" ->
              pipe' = Append(pipe, State(request.who, compacting # 0)) /\ UNCHANGED compacting
         [] request.kind = "compact" /\ compacting = 0 ->
              compacting' = request.who /\ pipe' = Append(pipe, Started)
         [] OTHER ->
              pipe' = Append(pipe, Reply(request.who, FALSE)) /\ UNCHANGED compacting
    /\ UNCHANGED <<operation, waits, chunk>>

PiFinishes ==
    /\ compacting # 0
    /\ compacting' = 0
    /\ \E ok \in BOOLEAN : pipe' = pipe \o <<Ended(ok), Reply(compacting, ok)>>
    /\ UNCHANGED <<operation, waits, inbox, chunk>>

Read ==
    /\ Quiet
    /\ \E n \in 1..Len(pipe) : chunk' = n
    /\ UNCHANGED <<operation, waits, pi>>

\* The next line of the chunk: it resolves an await, or it is an event.
Line ==
    /\ chunk > 0
    /\ chunk' = chunk - 1
    /\ pipe' = Tail(pipe)
    /\ LET line == Head(pipe) IN
       CASE line.kind = "state" ->
              /\ answer' = [answer EXCEPT ![line.who] = IF line.busy THEN "busy" ELSE "idle"]
              /\ UNCHANGED <<status, watch>>
         [] line.kind = "reply" ->
              /\ answer' = IF pc[line.who] = "compacting"
                           THEN [answer EXCEPT ![line.who] = IF line.ok THEN "ok" ELSE "refused"]
                           ELSE answer
              /\ UNCHANGED <<status, watch>>
         [] OTHER -> HandleEvent(line) /\ UNCHANGED answer
    /\ UNCHANGED <<cur, overdue, failures, pc, checking, inbox, compacting>>

\* A request times out.  A late answer to it is ignored; a command still runs.
TimesOut(w) ==
    /\ Quiet
    /\ Waiting(w)
    /\ answer' = [answer EXCEPT ![w] = "error"]
    /\ inbox' = Without(inbox, {Ask(w)})
    /\ pipe' = Without(pipe, StateLines(w))
    /\ UNCHANGED <<operation, pc, checking, chunk, compacting>>

\* The Worker's process ends and every pending request fails; the next request
\* reaches a new process.
PiDies ==
    /\ Quiet
    /\ inbox' = <<>> /\ pipe' = <<>> /\ compacting' = 0
    /\ answer' = [w \in Waiters |-> IF Waiting(w) THEN "error" ELSE "none"]
    /\ UNCHANGED <<operation, pc, checking, chunk>>

-----------------------------------------------------------------------------

CompactionInit ==
    /\ cur = 0 /\ status = "none" /\ overdue = FALSE /\ failures = 0 /\ watch = FALSE
    /\ pc = [i \in Ops |-> "unused"]
    /\ checking = 0
    /\ answer = [w \in Waiters |-> "none"]
    /\ inbox = <<>> /\ pipe = <<>> /\ chunk = 0 /\ compacting = 0

Awaits == (\E i \in Ops : StartProbed(i) \/ DispatchCompaction(i) \/ Replied(i) \/ FailureProbed(i)) \/ Check

CompactionNext ==
    \/ Start \/ Awaits \/ Tick \/ Deadline
    \/ PiTakes \/ PiFinishes \/ Read \/ Line \/ PiDies
    \/ \E w \in Waiters : TimesOut(w)

CompactionSpec == CompactionInit /\ [][CompactionNext]_compactionVars

\* Awaits, timers and lines are served; the Worker answers and ends what it began.
CompactionFairness ==
    /\ WF_compactionVars(Awaits) /\ SF_compactionVars(Read) /\ WF_compactionVars(Line)
    /\ WF_compactionVars(PiTakes) /\ WF_compactionVars(PiFinishes)
    /\ SF_compactionVars(Tick) /\ SF_compactionVars(Deadline)

CompactionLiveSpec == CompactionSpec /\ CompactionFairness

-----------------------------------------------------------------------------
(* Properties *)

Answers  == {"none", "idle", "busy", "ok", "refused", "error"}
Phases   == {"unused", "probing", "asking", "compacting", "lost", "refused", "over"}
Requests == {Ask(w) : w \in Waiters} \cup {Compact(i) : i \in Ops}
States   == UNION {StateLines(w) : w \in Waiters}
Replies  == {Reply(i, ok) : i \in Ops, ok \in BOOLEAN}
Events   == {Started} \cup {Ended(ok) : ok \in BOOLEAN}
Lines    == States \cup Replies \cup Events

\* Every variable holds a value of its kind, and a line that resolves an await
\* finds the await that it answers.
CompactionTypeOK ==
    /\ cur \in 0..MaxOps /\ checking \in 0..MaxOps /\ compacting \in 0..MaxOps
    /\ status \in {"none", "starting", "running", "completed", "failed"}
    /\ overdue \in BOOLEAN /\ watch \in BOOLEAN /\ failures \in 0..ProbeLimit
    /\ pc \in [Ops -> Phases]
    /\ answer \in [Waiters -> Answers]
    /\ inbox \in Seq(Requests) /\ pipe \in Seq(Lines)
    /\ chunk \in 0..Len(pipe)
    /\ \A w \in Waiters : answer[w] # "none" => Waiting(w)

\* An operation under the watchdog is settled, whatever becomes of the reply, the
\* Worker's events and the Worker itself.
WatchedSettles == Active /\ watch ~> ~Active

\* An operation past its first probe is under the watchdog as long as it is active.
ActiveIsWatched == Active /\ pc[cur] # "probing" => watch

=============================================================================
