--------------------------- MODULE ButlerPrompts ---------------------------
(***************************************************************************)
(* Butler's chat: the operator's messages on their way through the prompt  *)
(* queue into the one model session (butler-agent.ts prepareOperatorTurn,  *)
(* butler-agent-session.ts queueButlerPrompt).  A message that refers to   *)
(* jobs is preceded by a hidden prompt, its grounding, and leaves a guard  *)
(* against which Butler's tools check the jobs they are called on.  A steer*)
(* stops what runs first; Stop turns away what is queued; and the session  *)
(* is replaced when the model settings or the credentials change.          *)
(***************************************************************************)
EXTENDS Naturals, SequencesExt

CONSTANTS MaxMessages,      \* bound on the operator's messages
          MaxTroubles       \* bound on stops, on replacements and reloads of the session,
                            \* and on failed saves, turns, rebuilds and status reads, together

ASSUME PromptsAssumption ==
    /\ MaxMessages \in Nat \ {0}
    /\ MaxTroubles \in Nat

Messages == 1..MaxMessages
NoMessage == 0
Modes == {"queue", "steer"}

VARIABLES
    ask,        \* how a message was sent: its mode, and whether it refers to jobs
    stage,      \* how far prepareOperatorTurn has come with it
    promptQueue,\* the prompts chained on the queue; the head is being executed
    step,       \* where the head stands
    stopSeq,    \* stopRequestSequence
    seen,       \* the stop a message was accepted after
    pending,    \* Butler shows itself busy with the operator
    shown,      \* pendingOperatorMessages still marked pending, oldest first
    guard,      \* activeOperatorThreadGuard, by the message it was built for
    session,    \* "ready", "building" or "gone"
    replacing,  \* who is replacing the session
    cut,        \* the head's call on the session was aborted or lost its session
    turnedAway, \* messages that a stop or a steer found waiting in the queue
    troubles

stopVars == <<stopSeq, seen, turnedAway>>
chatVars == <<pending, shown>>
buildVars == <<session, replacing>>
promptVars == <<ask, stage, promptQueue, step, stopVars, chatVars, guard, buildVars, cut, troubles>>

Turn(m) == [kind |-> "turn", of |-> m]
Grounding(m) == [kind |-> "ground", of |-> m]
Reload == [kind |-> "reload", of |-> NoMessage]

Current == Head(promptQueue)
Streaming == step = "running" /\ ~cut
OnSession == step \in {"loading", "running"}

PromptInit ==
    /\ ask = [m \in Messages |-> [mode |-> "queue", names |-> FALSE]]
    /\ stage = [m \in Messages |-> "unsent"]
    /\ promptQueue = <<>> /\ step = "idle"
    /\ stopSeq = 0 /\ seen = [m \in Messages |-> 0]
    /\ pending = FALSE /\ shown = <<>>
    /\ guard = NoMessage
    /\ session = "ready" /\ replacing = "nobody" /\ cut = FALSE
    /\ turnedAway = {}
    /\ troubles = 0

Trouble == troubles < MaxTroubles /\ troubles' = troubles + 1

-----------------------------------------------------------------------------
(* prepareOperatorTurn.                                                    *)

\* The message becomes the guard's, and is shown before it is saved; a steer
\* takes the other pending messages off the screen.
Send(m) ==
    /\ stage[m] = "unsent"
    /\ \A n \in Messages : n < m => stage[n] # "unsent"
    /\ \E mode \in Modes, names \in BOOLEAN :
        /\ ask' = [ask EXCEPT ![m] = [mode |-> mode, names |-> names]]
        /\ shown' = IF mode = "steer" THEN <<m>> ELSE Append(shown, m)
    /\ stage' = [stage EXCEPT ![m] = "saving"]
    /\ guard' = m
    /\ UNCHANGED <<promptQueue, step, stopVars, pending, buildVars, cut, troubles>>

\* A message that fails leaves the screen, and takes the guard with it.
Withdraw(m) ==
    /\ stage' = [stage EXCEPT ![m] = "done"]
    /\ shown' = RemoveFirst(shown, m)
    /\ guard' = NoMessage

SaveFails(m) ==
    /\ stage[m] = "saving" /\ Trouble
    /\ Withdraw(m)
    /\ UNCHANGED <<ask, promptQueue, step, stopVars, pending, buildVars, cut>>

\* A grounding comes before the turn.
FirstPrompt(m) == IF ask[m].names THEN "ground" ELSE "turn"

\* Turns that wait in the queue and have not passed the check on stops.
Waiting == {m \in Messages : \E i \in DOMAIN promptQueue :
                promptQueue[i] = Turn(m) /\ (i = 1 => step \in {"idle", "preparing"})}

\* stopButlerPrompt: a call that streams is aborted.
StopSession ==
    /\ stopSeq' = stopSeq + 1
    /\ turnedAway' = turnedAway \cup Waiting
    /\ pending' = FALSE
    /\ cut' = (cut \/ (Streaming /\ session = "ready"))

Saved(m) ==
    /\ stage[m] = "saving"
    /\ IF ask[m].mode = "steer"
       THEN /\ stage' = [stage EXCEPT ![m] = "aborting"]
            /\ StopSession
       ELSE /\ stage' = [stage EXCEPT ![m] = FirstPrompt(m)]
            /\ UNCHANGED <<stopSeq, turnedAway, pending, cut>>
    /\ UNCHANGED <<ask, promptQueue, step, seen, shown, guard, buildVars, troubles>>

\* (Fault) A steer accepts its message after the next stop.
AbortedAhead(m) ==
    /\ stage[m] = "aborting"
    /\ ~(step = "running" /\ cut)
    /\ stage' = [stage EXCEPT ![m] = FirstPrompt(m)]
    /\ seen' = [seen EXCEPT ![m] = stopSeq + 1]
    /\ UNCHANGED <<ask, promptQueue, step, stopSeq, turnedAway, chatVars, guard, buildVars, cut, troubles>>

\* The abort of a steer is over; only now does the steer read the sequence of stops.
Aborted(m) ==
    /\ stage[m] = "aborting"
    /\ ~(step = "running" /\ cut)
    /\ stage' = [stage EXCEPT ![m] = FirstPrompt(m)]
    /\ seen' = [seen EXCEPT ![m] = stopSeq]
    /\ UNCHANGED <<ask, promptQueue, step, stopSeq, turnedAway, chatVars, guard, buildVars, cut, troubles>>

\* queueButlerPrompt, up to the queue: a refresh of the settings is awaited, and
\* without a session the message fails.
Queue(m) ==
    /\ stage[m] \in {"ground", "turn"}
    /\ replacing # "settings"
    /\ IF session = "gone" \/ session = "building"
       THEN Withdraw(m) /\ UNCHANGED <<promptQueue, seen, pending>>
       ELSE /\ stage' = [stage EXCEPT ![m] = "queued"]
            /\ IF stage[m] = "ground"
               THEN promptQueue' = Append(promptQueue, Grounding(m)) /\ UNCHANGED <<seen, pending>>
               ELSE /\ promptQueue' = Append(promptQueue, Turn(m))
                    /\ seen' = [seen EXCEPT ![m] = IF ask[m].mode = "steer" THEN @ ELSE stopSeq]
                    /\ pending' = TRUE
            /\ UNCHANGED <<shown, guard>>
    /\ UNCHANGED <<ask, step, stopSeq, turnedAway, buildVars, cut, troubles>>

-----------------------------------------------------------------------------
(* The head of the queue: execute and runButlerPrompt.                     *)

StartPrompt ==
    /\ step = "idle" /\ promptQueue # <<>>
    /\ step' = IF Current = Reload THEN "reloading" ELSE "preparing"
    /\ cut' = FALSE
    /\ UNCHANGED <<ask, stage, promptQueue, stopVars, chatVars, guard, buildVars, troubles>>

\* reloadButlerResources
Reloaded ==
    /\ step = "reloading"
    /\ promptQueue' = Tail(promptQueue)
    /\ step' = "idle"
    /\ UNCHANGED <<ask, stage, stopVars, chatVars, guard, buildVars, cut, troubles>>

\* (Fault) A stop is told by Butler no longer looking busy, not by its number.
BlockedByFlag(m) == ~pending /\ stopSeq > 0

\* hasBlockingStopRequest
Blocked(m) == stopSeq > seen[m]

\* (Fault) A prompt that is refused before its call stays on the screen.
UnshownAfterCall ==
    shown' = IF step = "running" /\ Current.kind = "turn" THEN RemoveFirst(shown, Current.of) ELSE shown

\* An operator's prompt that is refused leaves the screen; a grounding shows nothing.
Unshown == shown' = IF Current.kind = "turn" THEN RemoveFirst(shown, Current.of) ELSE shown

\* The credentials and the callbacks were read: the turn meets the check on stops
\* and then the session, of which the call keeps hold from here.
Prepared ==
    /\ step = "preparing" /\ replacing # "prompt"
    /\ IF (Current.kind = "turn" /\ Blocked(Current.of)) \/ session # "ready"
       THEN step' = "failed" /\ Unshown
       ELSE step' = "loading" /\ UNCHANGED shown
    /\ UNCHANGED <<ask, stage, promptQueue, stopVars, pending, guard, buildVars, cut, troubles>>

\* removeCommittedPendingOperatorPrompt: the message's own entry, or else the oldest.
WithoutEntry(m) ==
    IF shown = <<>> THEN shown
    ELSE IF m \in ToSet(shown) THEN RemoveFirst(shown, m) ELSE Tail(shown)

\* The images are loaded and the session takes the prompt, which its events report.
Prompted ==
    /\ step = "loading"
    /\ step' = "running"
    /\ shown' = IF cut THEN shown
                ELSE WithoutEntry(IF Current.kind = "turn" THEN Current.of ELSE NoMessage)
    /\ UNCHANGED <<ask, stage, promptQueue, stopVars, pending, guard, buildVars, cut, troubles>>

\* The call on the session ends; an aborted one may have completed just before.
Answered ==
    /\ step = "running"
    /\ step' = "answered"
    /\ Unshown
    /\ UNCHANGED <<ask, stage, promptQueue, stopVars, pending, guard, buildVars, cut, troubles>>

CallFails ==
    /\ step = "running"
    /\ IF cut THEN UNCHANGED troubles ELSE Trouble
    /\ step' = "failed"
    /\ Unshown
    /\ UNCHANGED <<ask, stage, promptQueue, stopVars, pending, guard, buildVars, cut>>

\* refreshExternalStatus is over, and prepareOperatorTurn goes on: from a grounding to
\* the turn, unless the grounding failed; and from the turn to the end.
PromptEnds ==
    /\ step \in {"answered", "failed"} /\ replacing # "status"
    /\ promptQueue' = Tail(promptQueue)
    /\ step' = "idle"
    /\ LET m == Current.of
       IN  IF Current.kind = "ground"
           THEN /\ IF step = "answered"
                   THEN stage' = [stage EXCEPT ![m] = "turn"] /\ UNCHANGED <<shown, guard>>
                   ELSE Withdraw(m)
                /\ UNCHANGED pending
           ELSE /\ stage' = [stage EXCEPT ![m] = "done"]
                /\ guard' = NoMessage
                /\ pending' = FALSE
                /\ UNCHANGED shown
    /\ UNCHANGED <<ask, stopVars, buildVars, cut, troubles>>

\* The status cannot be read: the prompt rejects, and Butler goes on looking busy.
StatusFails ==
    /\ step \in {"answered", "failed"} /\ Trouble
    /\ promptQueue' = Tail(promptQueue)
    /\ step' = "idle"
    /\ Withdraw(Current.of)
    /\ UNCHANGED <<ask, stopVars, pending, buildVars, cut>>

-----------------------------------------------------------------------------
(* The operator's stop; the replacement of the session.                    *)

Stop ==
    /\ Trouble
    /\ StopSession
    /\ shown' = <<>>
    /\ UNCHANGED <<ask, stage, promptQueue, step, seen, guard, buildVars>>

\* refreshModelSettings, while Butler looks idle.
RefreshSettings ==
    /\ Trouble
    /\ replacing = "nobody" /\ ~pending /\ ~(Streaming /\ session = "ready")
    /\ replacing' = "settings"
    /\ UNCHANGED <<ask, stage, promptQueue, step, stopVars, chatVars, guard, session, cut>>

\* The credentials changed: seen by the timer or the end of a prompt, whatever runs;
\* or by a prompt that prepares.
CredentialsChanged ==
    /\ Trouble
    /\ replacing = "nobody"
    /\ replacing' = IF step = "preparing" THEN "prompt" ELSE "status"
    /\ UNCHANGED <<ask, stage, promptQueue, step, stopVars, chatVars, guard, session, cut>>

\* createOrRefreshButlerSession: the old session is aborted and disposed of.
TearDown ==
    /\ replacing # "nobody" /\ session # "building"
    /\ session' = "building"
    /\ cut' = (cut \/ OnSession)
    /\ UNCHANGED <<ask, stage, promptQueue, step, stopVars, chatVars, guard, replacing, troubles>>

Rebuilt ==
    /\ session = "building"
    /\ session' = "ready" /\ replacing' = "nobody"
    /\ UNCHANGED <<ask, stage, promptQueue, step, stopVars, chatVars, guard, cut, troubles>>

RebuildFails ==
    /\ session = "building" /\ Trouble
    /\ session' = "gone" /\ replacing' = "nobody"
    /\ UNCHANGED <<ask, stage, promptQueue, step, stopVars, chatVars, guard, cut>>

QueueReload ==
    /\ Trouble
    /\ promptQueue' = Append(promptQueue, Reload)
    /\ UNCHANGED <<ask, stage, step, stopVars, chatVars, guard, session, replacing, cut>>

Prepares(m) == Saved(m) \/ Aborted(m) \/ Queue(m)
Executes == StartPrompt \/ Reloaded \/ Prepared \/ Prompted \/ Answered \/ PromptEnds
Rebuilds == TearDown \/ Rebuilt

PromptNext ==
    \/ \E m \in Messages : Send(m) \/ SaveFails(m) \/ Prepares(m)
    \/ Executes \/ CallFails \/ StatusFails
    \/ Stop \/ RefreshSettings \/ CredentialsChanged \/ QueueReload
    \/ Rebuilds \/ RebuildFails

\* Saves, aborts, status reads and rebuilds end, and so does every call on the session:
\* the provider's limits end it, or the operator's stop.
PromptFairness ==
    /\ \A m \in Messages : WF_promptVars(Prepares(m))
    /\ WF_promptVars(Executes) /\ WF_promptVars(Rebuilds)

PromptSpec == PromptInit /\ [][PromptNext]_promptVars /\ PromptFairness

-----------------------------------------------------------------------------
(* Properties.                                                             *)

Items == {Reload} \cup {Turn(m) : m \in Messages} \cup {Grounding(m) : m \in Messages}

PromptTypeOK ==
    /\ ask \in [Messages -> [mode : Modes, names : BOOLEAN]]
    /\ stage \in [Messages -> {"unsent", "saving", "aborting", "ground", "turn", "queued", "done"}]
    /\ ToSet(promptQueue) \subseteq Items
    /\ step \in {"idle", "preparing", "reloading", "loading", "running", "answered", "failed"}
    /\ ToSet(shown) \subseteq Messages
    /\ guard \in Messages \cup {NoMessage}
    /\ seen \in [Messages -> 0..stopSeq]
    /\ session \in {"ready", "building", "gone"}
    /\ replacing \in {"nobody", "settings", "status", "prompt"}

\* Stop and a steer turn away what waits in the queue: a message they find there never
\* reaches the session, whatever the messages around it and the session go through.
TurnedAwayStaysOut ==
    OnSession /\ Current.kind = "turn" => Current.of \notin turnedAway

\* Every message settles, and is not left on the screen as pending, whatever is
\* stopped, steered, replaced or fails on its way.
MessagesSettle == \A m \in Messages :
    (stage[m] # "unsent") ~> (stage[m] = "done" /\ m \notin ToSet(shown))
=============================================================================
