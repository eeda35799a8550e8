--------------------------- MODULE WorkerSessions ---------------------------
(***************************************************************************)
(* One Worker job of PiRpcWorkerClient (pi-rpc-worker-client.ts): its row  *)
(* in the store, the Pi session held for it, the calls that prompt, stop,  *)
(* load and delete it, the watchdog that probes it, and the Pi process     *)
(* behind the session.  The client is one JavaScript thread, but every     *)
(* call waits for Pi in the middle, and what Pi says arrives on a wire of  *)
(* its own.  Generations tell old from new: a call that begins, stops or   *)
(* loses the work takes a new version, and an event counts only while its  *)
(* stream carries the accepted one.                                        *)
(*                                                                         *)
(* Sends, stops and repairs of a job hold its mutation lock                *)
(* (worker-client-router.ts), and so do deletions but those that undo a    *)
(* failed start; a send that times out lets go of the lock and goes on     *)
(* behind its caller's back.                                               *)
(***************************************************************************)
EXTENDS Integers, Sequences, SequencesExt

CONSTANTS Sends,           \* messages sent to the Worker
          MaxSessions,     \* bound: Pi processes made for the job
          MaxTurns,        \* bound: turns Pi opens
          MaxSessFaults    \* bound: stops, deletions, refusals, time-outs, deaths
                           \* and failed saves, together

ASSUME SessionBounds == MaxSessions \in Nat /\ MaxTurns \in Nat \ {0} /\ MaxSessFaults \in Nat

\* A message is not one of the requests the client makes, nor another holder of the lock.
ASSUME SendsAreMessages ==
    Sends \cap {"state", "probe", "abort", "none", "stop", "delete"} = {}

VARIABLES
    row,        \* the thread in the store: "idle", "active", "gone"
    turns,      \* its turns: "none", "open", "completed", "interrupted"; or ended by
                \* a stop ("stopped"), a load ("restarted"), the watchdog or a dead
                \* transport ("presumed")
    live,       \* the session in `sessions`, by number; 0 for none
    made,       \* sessions made so far
    ses,        \* the live session's versions
    loading,    \* the load under way
    send,       \* each send: where it is, its session and generation
    stopper,    \* the stop under way
    deleter,    \* the deletion under way: "none", "waiting", "removing", "stopping"
    watch,      \* the watchdog: "quiet", "loading", "asking", "idle", "due"
    heard,      \* an event counted since the watchdog asked
    holder,     \* who holds the job's mutation lock
    pi,         \* the Pi process: up, in a run, its open turn, what it was sent
    opened,     \* turns Pi has opened
    wire,       \* what Pi has said and the client has not read
    draining,   \* the chunk is read and its continuations run
    sessFaults

callVars == <<send, stopper, deleter, watch, holder>>
piVars == <<pi, opened, wire>>
sessionVars == <<row, turns, live, made, ses, loading, send, stopper, deleter, watch, heard,
                 holder, pi, opened, wire, draining, sessFaults>>

None == 0
NoSession == [version |-> 0, accepted |-> None, stream |-> None, pending |-> {}, deaf |-> FALSE]
NoProcess == [up |-> FALSE, run |-> FALSE, turn |-> None, inbox |-> <<>>]
FreshSend == [pc |-> "new", at |-> None, gen |-> 0]
NoStop == [pc |-> "none", at |-> None, gen |-> 0, wasVersion |-> 0, wasAccepted |-> None, bounded |-> FALSE]

\* The row may still say what it said before Manor last ended.
SessionInit ==
    /\ \E wasActive \in {TRUE, FALSE} :
        /\ row = IF wasActive THEN "active" ELSE "idle"
        /\ turns = [t \in 1..MaxTurns |-> IF wasActive /\ t = 1 THEN "open" ELSE "none"]
        /\ opened = IF wasActive THEN 1 ELSE 0
    /\ live = None /\ made = 0 /\ ses = NoSession /\ loading = "none"
    /\ send = [o \in Sends |-> FreshSend] /\ stopper = NoStop /\ deleter = "none"
    /\ watch = "quiet" /\ heard = FALSE /\ holder = "none"
    /\ pi = NoProcess /\ wire = <<>> /\ draining = FALSE /\ sessFaults = 0

SessFault == sessFaults < MaxSessFaults /\ sessFaults' = sessFaults + 1

\* isSessionGenerationCurrent
Current(at, gen) == live # None /\ live = at /\ ses.version = gen

\* isSessionEventGenerationCurrent
Counts(gen) == gen # None /\ ses.version = gen /\ ses.accepted = gen

\* (Fault) The version does not move.
BegunInPlace(s) == [s EXCEPT !.accepted = s.version + 1]

\* beginSessionOperation and invalidateSessionOperations
Begun(s) == [s EXCEPT !.version = @ + 1, !.accepted = s.version + 1]
Invalidated(s) == [s EXCEPT !.version = @ + 1, !.accepted = None]

OpenTurns == {t \in 1..MaxTurns : turns[t] = "open"}
Marked(some, how) == [t \in 1..MaxTurns |-> IF t \in some THEN how ELSE turns[t]]
LastTurn == {t \in OpenTurns : \A u \in 1..MaxTurns : u > t => turns[u] = "none"}
AtRest == IF row = "gone" THEN row ELSE "idle"

Asked(what) == [pi EXCEPT !.inbox = Append(@, what)]
InFlight(o) == send[o].pc \in {"prompting", "acked", "nacked"}
Waiting == {o \in Sends : send[o].pc = "loading"}

\* What waits for nothing but its turn in the microtask queue.  The lines of a
\* chunk are handled first, all together, then the continuations they made due;
\* no timer, no other call and no new chunk comes before those have run.
MicrotasksDue ==
    \/ \E o \in Sends : send[o].pc \in {"acked", "nacked"}
    \/ Waiting # {} /\ live # None /\ loading = "none"
    \/ loading \in {"idle", "busy"} \/ stopper.pc \in {"aborted", "abortFailed"} \/ watch = "idle"

Continues(step) == step /\ draining' = MicrotasksDue'
Alone(step) == ~MicrotasksDue /\ step /\ UNCHANGED draining

-----------------------------------------------------------------------------
(* Loading a session: loadThread, resumeThread, createSession              *)

\* loadThread: one load at a time, none while the job is being deleted.
LoadWanted == Waiting # {} \/ watch = "loading"

LoadBegins ==
    /\ LoadWanted /\ live = None /\ loading = "none" /\ deleter = "none" /\ row # "gone"
    /\ made < MaxSessions
    /\ loading' = "making"
    /\ UNCHANGED <<row, turns, live, made, ses, heard, piVars, sessFaults, callVars>>

\* Those who wait for a load that fails fail with it.
WaitersFail ==
    /\ send' = [o \in Sends |-> IF o \in Waiting THEN [send[o] EXCEPT !.pc = "failed"] ELSE send[o]]
    /\ holder' = IF holder \in Waiting THEN "none" ELSE holder
    /\ watch' = IF watch = "loading" THEN "quiet" ELSE watch
    /\ UNCHANGED <<stopper, deleter>>

LoadFails ==
    /\ live = None /\ WaitersFail /\ loading' = "none"
    /\ \/ LoadWanted /\ loading = "none" /\ (deleter # "none" \/ row = "gone" \/ made = MaxSessions)
          /\ UNCHANGED sessFaults
       \/ loading = "making" /\ deleter # "none" /\ UNCHANGED sessFaults
       \/ loading = "making" /\ SessFault
    /\ UNCHANGED <<row, turns, live, made, ses, heard, piVars>>

\* createSession registers the session and resumeThread asks Pi for its state.
SessionMade ==
    /\ loading = "making" /\ deleter = "none"
    /\ made' = made + 1 /\ live' = made + 1 /\ ses' = NoSession
    /\ pi' = [NoProcess EXCEPT !.up = TRUE, !.inbox = <<"state">>]
    /\ wire' = <<>> /\ loading' = "asking"
    /\ UNCHANGED <<row, turns, heard, opened, sessFaults, callVars>>

\* The rest of resumeThread: the turn the process before left open is
\* interrupted, and the row takes what Pi answered; no answer counts as idle.
Resumed ==
    /\ loading \in {"idle", "busy"} \/ (loading = "asking" /\ ~pi.up /\ wire = <<>>)
    /\ loading' = "none"
    /\ turns' = Marked(LastTurn, "restarted")
    /\ row' = IF loading = "busy" THEN "active" ELSE AtRest
    /\ UNCHANGED <<live, made, ses, heard, piVars, sessFaults, callVars>>

-----------------------------------------------------------------------------
(* A message: sendWorkerMessage under the lock, sendMessage in the client  *)

SendBegins(o) ==
    /\ send[o].pc = "new" /\ holder = "none" /\ row # "gone"
    /\ holder' = o
    /\ send' = [send EXCEPT ![o] = IF live = None THEN [@ EXCEPT !.pc = "loading"]
                                   ELSE [pc |-> "resolving", at |-> live, gen |-> ses.version]]
    /\ UNCHANGED <<row, turns, live, made, ses, loading, stopper, deleter, watch, heard, piVars, sessFaults>>

SendLoaded(o) ==
    /\ send[o].pc = "loading" /\ live # None /\ loading = "none"
    /\ send' = [send EXCEPT ![o] = [pc |-> "resolving", at |-> live, gen |-> ses.version]]
    /\ UNCHANGED <<row, turns, live, made, ses, loading, stopper, deleter, watch, heard, holder, piVars, sessFaults>>

Ends(o, how) ==
    /\ send' = [send EXCEPT ![o].pc = how]
    /\ holder' = IF holder = o THEN "none" ELSE holder

\* The input is resolved; the prompt goes out if nothing came between.
Prompts(o) ==
    /\ send[o].pc = "resolving"
    /\ IF Current(send[o].at, send[o].gen)
         THEN /\ ses' = [Begun(ses) EXCEPT !.pending = @ \cup {ses.version + 1}]
              /\ send' = [send EXCEPT ![o] = [pc |-> "prompting", at |-> live, gen |-> ses.version + 1]]
              /\ pi' = Asked(o) /\ UNCHANGED holder
         ELSE Ends(o, "stale") /\ UNCHANGED <<ses, pi>>
    /\ UNCHANGED <<row, turns, live, made, loading, stopper, deleter, watch, heard, opened, wire, sessFaults>>

\* promptSession takes its generation back and sendMessage looks whether it
\* is still the one: the session then speaks for this message.
Unpended(gen) == [ses EXCEPT !.pending = IF live = None THEN @ ELSE @ \ {gen}]

\* (Fault) What came while the prompt was out keeps the generation.
AcceptedAsIs(o) ==
    /\ send[o].pc = "acked"
    /\ ses' = IF live = send[o].at THEN Unpended(send[o].gen) ELSE ses
    /\ Ends(o, IF Current(send[o].at, send[o].gen) THEN "accepted" ELSE "uncertain")
    /\ UNCHANGED <<row, turns, live, made, loading, stopper, deleter, watch, heard, piVars, sessFaults>>

Accepted(o) ==
    /\ send[o].pc = "acked"
    /\ IF Current(send[o].at, send[o].gen)
         THEN /\ ses' = [Unpended(send[o].gen) EXCEPT !.accepted = send[o].gen, !.stream = send[o].gen]
              /\ Ends(o, "accepted")
         ELSE /\ ses' = IF live = send[o].at THEN Unpended(send[o].gen) ELSE ses
              /\ Ends(o, "uncertain")
    /\ UNCHANGED <<row, turns, live, made, loading, stopper, deleter, watch, heard, piVars, sessFaults>>

Refused(o) ==
    /\ send[o].pc = "nacked"
    /\ IF Current(send[o].at, send[o].gen)
         THEN ses' = Invalidated(Unpended(send[o].gen)) /\ Ends(o, "refused")
         ELSE /\ ses' = IF live = send[o].at THEN Unpended(send[o].gen) ELSE ses
              /\ Ends(o, "uncertain")
    /\ UNCHANGED <<row, turns, live, made, loading, stopper, deleter, watch, heard, piVars, sessFaults>>

\* A process that is gone answers no prompt.
Unanswered(o) ==
    /\ send[o].pc = "prompting"
    /\ send[o].at # live \/ (~pi.up /\ wire = <<>>)
    /\ send' = [send EXCEPT ![o].pc = "nacked"]
    /\ UNCHANGED <<row, turns, live, made, ses, loading, stopper, deleter, watch, heard, holder, piVars, sessFaults>>

-----------------------------------------------------------------------------
(* Stopping: stopThread, under the lock                                    *)

StopStarts(bounded) ==
    /\ live # None /\ stopper.pc = "none"
    /\ ses' = Invalidated(ses)
    /\ stopper' = [pc |-> "aborting", at |-> live, gen |-> ses.version + 1,
                   wasVersion |-> ses.version, wasAccepted |-> ses.accepted, bounded |-> bounded]
    /\ pi' = Asked("abort")
    /\ holder' = "stop"

StopBegins ==
    /\ holder = "none" /\ row = "active" /\ SessFault
    /\ StopStarts(FALSE)
    /\ UNCHANGED <<row, turns, live, made, loading, send, deleter, watch, heard, opened, wire>>

\* A dispatch that takes five minutes is given up by its caller, who stops the
\* Worker for two seconds at most; the dispatch itself goes on.  (What Pi wrote
\* by then has been read: reading takes milliseconds.)
SendTimesOut(o) ==
    /\ holder = o /\ wire = <<>> /\ SessFault
    /\ \/ StopStarts(TRUE)
       \/ (live = None \/ stopper.pc # "none") /\ holder' = "none" /\ UNCHANGED <<ses, stopper, pi>>
    /\ UNCHANGED <<row, turns, live, made, loading, send, deleter, watch, heard, opened, wire>>

StopOutlasts ==
    /\ holder = "stop" /\ stopper.bounded /\ holder' = "none"
    /\ UNCHANGED <<row, turns, live, made, ses, loading, send, stopper, deleter, watch, heard, piVars, sessFaults>>

StopEnds == stopper' = NoStop /\ holder' = IF holder = "stop" THEN "none" ELSE holder

\* (Fault) A stop ends the open turn whatever began while it waited for Pi.
StopDoneBlindly ==
    /\ stopper.pc = "aborted" /\ StopEnds
    /\ turns' = Marked(LastTurn, "stopped") /\ row' = AtRest
    /\ UNCHANGED <<ses, live, made, loading, send, deleter, watch, heard, piVars, sessFaults>>

\* Pi aborted.  Prompts it will not answer any more are forgotten, and unless
\* something newer began, the open turn is interrupted and the thread idle.
StopDone ==
    /\ stopper.pc = "aborted" /\ StopEnds
    /\ LET kept == [ses EXCEPT !.pending = {g \in @ : g > stopper.gen}]
       IN IF live # stopper.at
            THEN UNCHANGED <<row, turns, ses>>
          ELSE IF Current(stopper.at, stopper.gen)
            THEN /\ ses' = [kept EXCEPT !.stream = None]
                 /\ turns' = Marked(LastTurn, "stopped") /\ row' = AtRest
          ELSE ses' = kept /\ UNCHANGED <<row, turns>>
    /\ UNCHANGED <<live, made, loading, send, deleter, watch, heard, piVars, sessFaults>>

\* The abort failed: unless something newer began, the work stays the owner.
StopFails ==
    /\ stopper.pc = "abortFailed" \/ (stopper.pc = "aborting" /\ (live # stopper.at \/ (~pi.up /\ wire = <<>>)))
    /\ StopEnds
    /\ ses' = IF Current(stopper.at, stopper.gen)
                THEN [ses EXCEPT !.version = stopper.wasVersion, !.accepted = stopper.wasAccepted]
                ELSE ses
    /\ UNCHANGED <<row, turns, live, made, loading, send, deleter, watch, heard, piVars, sessFaults>>

-----------------------------------------------------------------------------
(* Deleting: deleteThread.  A deletion that was asked for holds the lock;  *)
(* one that undoes a start which failed half-way takes none.               *)

DeleteBegins ==
    /\ row # "gone" /\ deleter = "none" /\ deleter' = "waiting" /\ SessFault
    /\ holder' = holder \/ (holder = "none" /\ holder' = "delete")
    /\ UNCHANGED <<row, turns, live, made, ses, loading, send, stopper, watch, heard, piVars>>

\* (Fault) A load under way is not waited for.
DeleteHurries ==
    /\ deleter = "waiting"
    /\ deleter' = "removing"
    /\ ses' = IF live = None THEN ses ELSE Invalidated(ses)
    /\ UNCHANGED <<row, turns, live, made, loading, send, stopper, watch, heard, holder, piVars, sessFaults>>

\* A load under way is waited for.
DeleteProceeds ==
    /\ deleter = "waiting" /\ loading = "none"
    /\ deleter' = "removing"
    /\ ses' = IF live = None THEN ses ELSE Invalidated(ses)
    /\ UNCHANGED <<row, turns, live, made, loading, send, stopper, watch, heard, holder, piVars, sessFaults>>

DeleteEnds == deleter' = "none" /\ holder' = IF holder = "delete" THEN "none" ELSE holder

Removed ==
    /\ deleter = "removing"
    /\ row' = "gone" /\ turns' = [t \in 1..MaxTurns |-> "none"]
    /\ IF live = None
         THEN DeleteEnds /\ UNCHANGED ses
         ELSE /\ ses' = [ses EXCEPT !.pending = {}, !.deaf = TRUE]
              /\ deleter' = "stopping" /\ UNCHANGED holder
    /\ UNCHANGED <<live, made, loading, send, stopper, watch, heard, piVars, sessFaults>>

RemoveFails ==
    /\ deleter = "removing" /\ SessFault /\ DeleteEnds
    /\ UNCHANGED <<row, turns, live, made, ses, loading, send, stopper, watch, heard, piVars>>

SessionGone == live' = None /\ ses' = NoSession /\ pi' = NoProcess /\ wire' = <<>>

SessionStopped ==
    /\ deleter = "stopping" /\ SessionGone /\ DeleteEnds
    /\ UNCHANGED <<row, turns, made, loading, send, stopper, watch, heard, opened, sessFaults>>

-----------------------------------------------------------------------------
(* The transport and the watchdog                                          *)

\* handleSessionTransportClosed
TransportClosed ==
    /\ live # None /\ ~pi.up /\ wire = <<>>
    /\ SessionGone
    /\ turns' = Marked(LastTurn, "presumed") /\ row' = AtRest
    /\ watch' = IF watch = "asking" THEN "quiet" ELSE watch
    /\ UNCHANGED <<made, loading, send, stopper, deleter, heard, holder, opened, sessFaults>>

\* probeThread, after minutes of silence: it loads the session when there is
\* none.
WatchAsks ==
    /\ row = "active" /\ wire = <<>>
    /\ \/ watch = "quiet" /\ live = None /\ watch' = "loading" /\ UNCHANGED <<pi, heard>>
       \/ /\ live # None /\ pi.up
          /\ watch = "quiet" \/ (watch = "loading" /\ loading = "none")
          /\ watch' = "asking" /\ heard' = FALSE /\ pi' = Asked("probe")
    /\ UNCHANGED <<row, turns, live, made, ses, loading, send, stopper, deleter, holder, opened, wire, sessFaults>>

WatchLeaves ==
    /\ watch = "loading" /\ row # "active" /\ loading = "none" /\ watch' = "quiet"
    /\ UNCHANGED <<row, turns, live, made, ses, loading, send, stopper, deleter, heard, holder, piVars, sessFaults>>

\* (Fault) The test for activity is the wrong way round.
WatchDecidesBackwards ==
    /\ watch = "idle"
    /\ watch' = IF heard THEN "due" ELSE "quiet"
    /\ UNCHANGED <<row, turns, live, made, ses, loading, send, stopper, deleter, heard, holder, piVars, sessFaults>>

\* Pi answered that it is idle: unless an event came meanwhile, the job's turn
\* is to be ended, as soon as its lock is free.
WatchDecides ==
    /\ watch = "idle"
    /\ watch' = IF heard THEN "quiet" ELSE "due"
    /\ UNCHANGED <<row, turns, live, made, ses, loading, send, stopper, deleter, heard, holder, piVars, sessFaults>>

\* reconcileAuthoritativeIdleWorkerThread
Reconciles ==
    /\ watch = "due" /\ holder = "none"
    /\ watch' = "quiet"
    /\ ses' = IF live = None THEN ses ELSE Invalidated(ses)
    /\ turns' = Marked(OpenTurns, "presumed") /\ row' = AtRest
    /\ UNCHANGED <<live, made, loading, send, stopper, deleter, heard, holder, piVars, sessFaults>>

-----------------------------------------------------------------------------
(* What Pi says: handleSessionEvent and the answers to requests            *)

\* The generation an event speaks for.
EventGen == IF ses.stream # None THEN ses.stream ELSE ses.accepted

Answers(m) ==
    \/ /\ m.k \in {"ack", "nack"}
       /\ send' = [send EXCEPT ![m.v].pc = IF @ # "prompting" THEN @ ELSE IF m.k = "ack" THEN "acked" ELSE "nacked"]
       /\ UNCHANGED <<stopper, loading, watch>>
    \/ /\ m.k \in {"aborted", "abortFailed"}
       /\ stopper' = [stopper EXCEPT !.pc = IF @ = "aborting" THEN m.k ELSE @]
       /\ UNCHANGED <<send, loading, watch>>
    \/ /\ m.k = "state" /\ loading' = m.v /\ UNCHANGED <<send, stopper, watch>>
    \/ /\ m.k = "probe"
       /\ watch' = IF watch # "asking" THEN watch ELSE IF m.v = "idle" THEN "idle" ELSE "quiet"
       /\ UNCHANGED <<send, stopper, loading>>

\* The prompts not yet answered, in the order they were made in.
Oldest(gens) == {g \in gens : \A h \in gens : g <= h}

\* agent_start takes the generation of the oldest prompt not yet answered.
AgentStart ==
    \E gen \in IF ses.pending = {} THEN {ses.accepted} ELSE Oldest(ses.pending) :
       /\ ses' = [ses EXCEPT !.stream = gen, !.pending = @ \ {gen}]
       /\ row' = IF Counts(gen) THEN "active" ELSE row
       /\ heard' = (heard \/ Counts(gen))
       /\ UNCHANGED turns

TurnEvent(m) ==
    /\ heard' = (heard \/ Counts(EventGen))
    /\ turns' = IF Counts(EventGen) THEN [turns EXCEPT ![m.v] = IF m.k = "open" THEN "open" ELSE "completed"] ELSE turns
    /\ UNCHANGED <<ses, row>>

\* agent_settled ends every open turn, as completed only with a reply.
AgentSettled ==
    /\ heard' = (heard \/ Counts(EventGen))
    /\ IF Counts(EventGen)
         THEN /\ \E how \in {"completed", "interrupted"} :
                   turns' = Marked(OpenTurns, how)
              /\ row' = AtRest
              /\ ses' = [ses EXCEPT !.stream = None, !.accepted = None]
         ELSE UNCHANGED <<turns, row, ses>>

Events(m) ==
    /\ m.k \in {"start", "open", "close", "settled"}
    /\ \/ ses.deaf /\ UNCHANGED <<row, turns, ses, heard>>
       \/ ~ses.deaf /\ m.k = "start" /\ AgentStart
       \/ ~ses.deaf /\ m.k \in {"open", "close"} /\ TurnEvent(m)
       \/ ~ses.deaf /\ m.k = "settled" /\ AgentSettled
    /\ UNCHANGED <<send, stopper, loading, watch>>

Hears ==
    /\ wire # <<>> /\ wire' = Tail(wire)
    /\ \/ Answers(Head(wire)) /\ UNCHANGED <<row, turns, ses, heard>>
       \/ Events(Head(wire))
    /\ UNCHANGED <<live, made, deleter, holder, pi, opened, sessFaults>>

-----------------------------------------------------------------------------
(* The Pi process                                                          *)

Says(k, v) == [k |-> k, v |-> v]
TurnEnds == IF pi.turn # None THEN <<Says("close", pi.turn)>> ELSE <<>>
clientVars == <<row, turns, live, made, ses, loading, heard, callVars>>

\* A prompt starts a run, or is steered into the one under way, or is refused.
\* An abort ends the run before it is answered, or fails.
PiReads ==
    /\ pi.up /\ pi.inbox # <<>>
    /\ LET m == Head(pi.inbox)
           rest == [pi EXCEPT !.inbox = Tail(@)]
           ended == [rest EXCEPT !.run = FALSE, !.turn = None]
       IN \/ /\ m \in {"state", "probe"} /\ pi' = rest /\ UNCHANGED sessFaults
             /\ wire' = Append(wire, Says(m, IF pi.run THEN "busy" ELSE "idle"))
          \/ /\ m \in Sends /\ pi.run /\ pi' = rest /\ UNCHANGED sessFaults
             /\ wire' = Append(wire, Says("ack", m))
          \/ /\ m \in Sends /\ ~pi.run /\ pi' = [rest EXCEPT !.run = TRUE] /\ UNCHANGED sessFaults
             /\ wire' \in {wire \o <<Says("ack", m), Says("start", None)>>, wire \o <<Says("start", None), Says("ack", m)>>}
          \/ /\ m \in Sends /\ pi' = rest /\ SessFault /\ wire' = Append(wire, Says("nack", m))
          \/ /\ m = "abort" /\ pi' = ended /\ UNCHANGED sessFaults
             /\ wire' = wire \o TurnEnds \o (IF pi.run THEN <<Says("settled", None)>> ELSE <<>>) \o <<Says("aborted", None)>>
          \/ /\ m = "abort" /\ pi' = rest /\ SessFault /\ wire' = Append(wire, Says("abortFailed", None))
    /\ UNCHANGED <<clientVars, opened>>

PiOpensTurn ==
    /\ pi.up /\ pi.run /\ pi.turn = None /\ opened < MaxTurns
    /\ opened' = opened + 1
    /\ pi' = [pi EXCEPT !.turn = opened + 1]
    /\ wire' = Append(wire, Says("open", opened + 1))
    /\ UNCHANGED <<clientVars, sessFaults>>

\* The turn ends, and after its retries and compactions the run settles.
PiSettles ==
    /\ pi.up /\ pi.run
    /\ pi' = [pi EXCEPT !.run = FALSE, !.turn = None]
    /\ wire' = wire \o TurnEnds \o <<Says("settled", None)>>
    /\ UNCHANGED <<clientVars, opened, sessFaults>>

PiDies ==
    /\ pi.up /\ SessFault
    /\ pi' = NoProcess
    /\ UNCHANGED <<clientVars, opened, wire>>

-----------------------------------------------------------------------------
SendNext(o) ==
    \/ Continues(SendLoaded(o) \/ Accepted(o) \/ Refused(o))
    \/ Alone(SendBegins(o) \/ Prompts(o) \/ Unanswered(o))

LoadNext == Continues(Resumed) \/ Alone(LoadBegins \/ LoadFails \/ SessionMade)
StopNext == Continues(StopDone \/ StopFails)
DeleteNext == Alone(DeleteProceeds \/ Removed \/ SessionStopped)
WatchNext == Continues(WatchDecides) \/ Alone(WatchAsks \/ WatchLeaves)
Repair == Alone(Reconciles)
Closing == Alone(TransportClosed)
Reading == ~draining /\ Hears /\ UNCHANGED draining
PiAnswers == Alone(PiReads)
PiFinishes == Alone(PiSettles)

\* What somebody may do, or may happen, without having to.
Disturbed ==
    Alone(\/ \E o \in Sends : SendTimesOut(o)
          \/ StopBegins \/ StopOutlasts \/ DeleteBegins \/ RemoveFails \/ PiOpensTurn \/ PiDies)

SessionNext ==
    \/ \E o \in Sends : SendNext(o)
    \/ LoadNext \/ StopNext \/ DeleteNext \/ WatchNext \/ Repair \/ Closing
    \/ Reading \/ PiAnswers \/ PiFinishes \/ Disturbed

\* The event loop turns, Pi answers and ends its turns and runs, and the
\* watchdog comes back to a silent job and gets the lock.
SessionFairness ==
    /\ \A o \in Sends : WF_sessionVars(SendNext(o))
    /\ WF_sessionVars(LoadNext)
    /\ WF_sessionVars(StopNext) /\ WF_sessionVars(DeleteNext)
    /\ WF_sessionVars(WatchNext) /\ SF_sessionVars(Repair)
    /\ WF_sessionVars(Closing) /\ WF_sessionVars(Reading)
    /\ WF_sessionVars(PiAnswers) /\ SF_sessionVars(PiFinishes)

SessionSpec == SessionInit /\ [][SessionNext]_sessionVars /\ SessionFairness

-----------------------------------------------------------------------------
(* Properties                                                              *)

SessionTypeOK ==
    /\ row \in {"idle", "active", "gone"}
    /\ turns \in [1..MaxTurns -> {"none", "open", "completed", "interrupted", "stopped", "restarted", "presumed"}]
    /\ live \in 0..made /\ made \in 0..MaxSessions
    /\ ses.accepted \in 0..ses.version /\ ses.stream \in 0..ses.version
    /\ loading \in {"none", "making", "asking", "idle", "busy"}
    /\ \A o \in Sends : send[o].pc \in {"new", "loading", "resolving", "prompting", "acked", "nacked",
                                        "accepted", "refused", "stale", "uncertain", "failed"}
    /\ holder \in Sends \cup {"none", "stop", "delete"}
    /\ opened \in 0..MaxTurns

\* The run of an accepted message is listened to: when no later call took the
\* generation over, none is in flight and the wire is read, the events of Pi's
\* run count.  Late starts and settlings of the run before may have consumed the
\* generation while the prompt was out; the end of sendMessage takes it back.
AcceptedIsHeard ==
    (/\ live # None /\ pi.run /\ wire = <<>> /\ \A o \in Sends : ~InFlight(o)
     /\ \E o \in Sends : send[o].pc = "accepted" /\ Current(send[o].at, send[o].gen))
        => Counts(EventGen)

\* A job deleted from the store keeps no session once the deletion has ended,
\* and none is being made for it (deletingSessions, resumeThread's second look).
GoneHasNoSession ==
    (row = "gone" /\ deleter = "none") => (live = None /\ loading = "none")

\* A turn the operator stopped is not taken up again, by a late event of its
\* run or by the run of a message sent while the stop waited for Pi.
StoppedStays ==
    [][\A t \in 1..MaxTurns : turns[t] = "stopped" => turns'[t] \in {"stopped", "none"}]_sessionVars

\* A thread shown as active comes to rest: its run settles, or it is stopped,
\* or the watchdog finds Pi idle or gone.
ActiveComesToRest == (row = "active") ~> (row # "active")
=============================================================================
