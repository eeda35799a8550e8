--------------------------- MODULE SelfImprovement ---------------------------
(***************************************************************************)
(* One self-improvement request of Manor, the Workers that work on it in   *)
(* Manor's own source checkout, the pair they are shown in, and the        *)
(* handoff of a Worker's job (self-improvement-routes.ts,                  *)
(* self-improvement-actions.ts, self-improvement-request-state.ts,         *)
(* worker-handoff.ts).                                                     *)
(*                                                                         *)
(* Every operation is a process of several steps: approve, discard,        *)
(* delete, handoff, message and publish.  They exclude each other by two   *)
(* kinds of locks, one for the request and one for each Worker's job, and  *)
(* take them in different orders.  The requests and the pairs are saved in *)
(* two files; a save may fail, and a restart may come between any two      *)
(* steps.  The file of the Workers' threads is taken to be current.        *)
(***************************************************************************)
EXTENDS Naturals, Sequences

CONSTANTS
    Free,             \* no Worker, no lock holder, no request, no pair
    MaxWorkers,       \* bound on the Workers started
    MaxCalls,         \* bound on the operations begun, publishing and dismissing apart
    MaxRequestFaults  \* bound on failing steps and restarts

ASSUME RequestAssumption == MaxWorkers \in Nat \ {0} /\ MaxCalls \in Nat /\ MaxRequestFaults \in Nat

VARIABLES
    request,      \* the request as held in memory, or Free once deleted
    requestFile,  \* as saved
    pair,         \* the pair it is shown in: its Worker and that one's predecessor, or Free
    pairFile,     \* as saved
    queued,       \* the files with a write under way in the background
    worker,       \* of each Worker: "none", "idle", "running" or "gone"
    reported,     \* the Workers whose latest report is "completed"
    retired,      \* the Workers retired by a handoff
    callback,     \* the Workers whose job Butler supervises
    at,           \* of each operation: the step it is at, or "no"
    mine,         \* of each operation: its local variables
    requestLock,  \* the operation whose turn runSerializedSelfImprovementAction is
    jobLock,      \* of each Worker: the operation that holds its job's lock
    calls, failures, closed

requests == <<request, requestFile>>
pairs    == <<pair, pairFile>>
workers  == <<worker, reported, retired, callback>>
locks    == <<requestLock, jobLock>>
sourceVars == <<requests, pairs, queued, workers, at, mine, locks, calls, failures, closed>>

Workers    == 1..MaxWorkers
Operations == {"approve", "discard", "delete", "handoff", "message"}

OpenStatuses  == {"approved", "running", "changes_ready", "committed", "pr_opened"}
OwnerStatuses == OpenStatuses \ {"pr_opened"}

Statuses == {"pending", "dismissed", "discarded"} \cup OpenStatuses
Maybe(S) == S \cup {Free}
RequestRecords == [status : Statuses, thread : Maybe(Workers), linked : BOOLEAN, workers : SUBSET Workers]
PairRecords == [worker : Maybe(Workers), from : Maybe(Workers)]

\* Nobody and nothing is told from a Worker, an operation, a request and a pair.
ASSUME FreeIsNothing ==
    Free \notin Workers /\ Free \notin Operations /\ Free \notin RequestRecords /\ Free \notin PairRecords

-----------------------------------------------------------------------------
Open == request # Free /\ request.status \in OpenStatuses
Owns(w) == request # Free /\ request.status \in OwnerStatuses /\ request.thread = w

\* normalizeRequest: the current Worker is always among the request's Workers.
With(r, status, thread, linked) ==
    [status |-> status, thread |-> thread, linked |-> linked,
     workers |-> r.workers \cup ({thread} \ {Free})]

Fresh(w)  == worker[w] = "none" /\ \A v \in Workers : v < w => worker[v] # "none"
Exists(w) == w # Free /\ worker[w] \in {"idle", "running"}
\* activeManorSourceWorker
CheckoutBusy == \E w \in Workers : worker[w] = "running"

NoLocals == [thread |-> Free, next |-> Free, prior |-> Free, before |-> Free,
             owned |-> FALSE, undo |-> {}]

\* A step succeeds, or fails while failures are left.
Outcome(ok) ==
    IF ok THEN UNCHANGED failures ELSE failures < MaxRequestFaults /\ failures' = failures + 1

\* update and flush: memory first; a failed write is not tried again.
Write(r, ok) ==
    /\ Outcome(ok)
    /\ request' = r
    /\ requestFile' = IF ok THEN r ELSE requestFile
    /\ queued' = queued \ {"requests"}

WritePair(p, ok) ==
    /\ Outcome(ok)
    /\ pair' = p
    /\ pairFile' = IF ok THEN p ELSE pairFile
    /\ queued' = queued \ {"pairs"}

JobFree(o, w) == jobLock[w] \in {Free, o}

Go(o, step) == at' = [at EXCEPT ![o] = step]

Released(o) == [w \in Workers |-> IF jobLock[w] = o THEN Free ELSE jobLock[w]]

\* The operation ends, however: its locks are given back.
End(o) ==
    /\ at' = [at EXCEPT ![o] = "no"]
    /\ mine' = [mine EXCEPT ![o] = NoLocals]
    /\ requestLock' = IF requestLock = o THEN Free ELSE requestLock
    /\ jobLock' = Released(o)

Begin(o) ==
    /\ at[o] = "no" /\ calls < MaxCalls
    /\ calls' = calls + 1

-----------------------------------------------------------------------------
(* Approval: the request is reserved, a Worker started, a pair made for it.  *)

ApproveBegins == \E ok \in BOOLEAN :
    /\ Begin("approve")
    /\ requestLock = Free
    /\ request # Free /\ request.status = "pending"
    /\ Write(With(request, "approved", request.thread, request.linked), ok)
    \* A failed save ends the approval; the request stays approved in memory.
    /\ IF ok THEN Go("approve", "starting") /\ requestLock' = "approve"
             ELSE UNCHANGED <<at, requestLock>>
    /\ UNCHANGED <<pairs, workers, mine, jobLock, closed>>

\* The Worker's thread exists before it is prompted, and the request names it.
ApproveStarts == \E w \in Workers, ok \in BOOLEAN :
    /\ at["approve"] = "starting" /\ Fresh(w) /\ ~CheckoutBusy
    /\ worker' = [worker EXCEPT ![w] = "idle"]
    /\ mine' = [mine EXCEPT !["approve"].thread = w]
    /\ Write(With(request, "running", w, request.linked), ok)
    /\ Go("approve", IF ok THEN "prompting" ELSE "deleting")
    /\ UNCHANGED <<pairs, reported, retired, callback, locks, calls, closed>>

ApproveRefused ==
    /\ at["approve"] = "starting" /\ CheckoutBusy
    /\ Go("approve", "reverting")
    /\ UNCHANGED <<requests, pairs, queued, workers, mine, locks, calls, failures, closed>>

ApprovePrompts == \E ok \in BOOLEAN :
    /\ at["approve"] = "prompting"
    /\ Outcome(ok)
    /\ worker' = [worker EXCEPT ![mine["approve"].thread] = IF ok THEN "running" ELSE "gone"]
    /\ Go("approve", IF ok THEN "pairing" ELSE "deleting")
    /\ UNCHANGED <<requests, pairs, queued, reported, retired, callback, mine, locks, calls, closed>>

\* createWorkerPair: the pair is saved, then Butler's session of the pair
\* supervises the job, under the job's lock.
ApprovePairs == \E ok \in BOOLEAN :
    /\ at["approve"] = "pairing"
    /\ WritePair([worker |-> mine["approve"].thread, from |-> Free], ok)
    /\ Go("approve", IF ok THEN "supervising" ELSE "unpairing")
    /\ UNCHANGED <<requests, workers, mine, locks, calls, closed>>

ApproveSupervises == \E ok \in BOOLEAN :
    /\ at["approve"] = "supervising"
    /\ JobFree("approve", mine["approve"].thread)
    /\ Outcome(ok)
    /\ callback' = IF ok THEN callback \cup {mine["approve"].thread} ELSE callback
    /\ Go("approve", IF ok THEN "linking" ELSE "unpairing")
    /\ UNCHANGED <<requests, pairs, queued, worker, reported, retired, mine, locks, calls, closed>>

ApproveLinks == \E ok \in BOOLEAN :
    /\ at["approve"] = "linking"
    /\ Write([request EXCEPT !.linked = TRUE], ok)
    /\ IF ok THEN End("approve") ELSE Go("approve", "unpairing") /\ UNCHANGED <<mine, locks>>
    /\ UNCHANGED <<pairs, workers, calls, closed>>

\* The rollback: the pair, then the Worker, then the request, which stays with
\* a Worker that could not be removed.
ApproveUnpairs == \E ok \in BOOLEAN :
    /\ at["approve"] = "unpairing"
    /\ JobFree("approve", mine["approve"].thread)
    /\ IF ok THEN WritePair(Free, TRUE) /\ callback' = {}
             ELSE Outcome(FALSE) /\ UNCHANGED <<callback, pairs, queued>>
    /\ Go("approve", IF ok THEN "deleting" ELSE "keeping")
    /\ UNCHANGED <<requests, worker, reported, retired, mine, locks, calls, closed>>

ApproveDeletes == \E ok \in BOOLEAN :
    /\ at["approve"] = "deleting"
    /\ Outcome(ok)
    /\ worker' = IF ok THEN [worker EXCEPT ![mine["approve"].thread] = "gone"] ELSE worker
    /\ Go("approve", IF ok THEN "reverting" ELSE "keeping")
    /\ UNCHANGED <<requests, pairs, queued, reported, retired, callback, mine, locks, calls, closed>>

ApproveReverts == \E ok \in BOOLEAN :
    /\ at["approve"] \in {"reverting", "keeping"}
    /\ Write(IF at["approve"] = "reverting" THEN With(request, "pending", Free, FALSE)
             ELSE With(request, "running", mine["approve"].thread, pair # Free), ok)
    /\ End("approve")
    /\ UNCHANGED <<pairs, workers, calls, closed>>

Approve ==
    \/ ApproveStarts \/ ApproveRefused \/ ApprovePrompts \/ ApprovePairs \/ ApproveSupervises
    \/ ApproveLinks \/ ApproveUnpairs \/ ApproveDeletes \/ ApproveReverts

-----------------------------------------------------------------------------
(* Discarding, also as a part of deleting: the job's lock of the Worker that  *)
(* was read without a lock, then the request's.                               *)

Discarding == {"discard", "delete"}

ReadThread == IF request = Free THEN Free ELSE request.thread

DiscardBegins ==
    /\ Begin("discard")
    /\ mine' = [mine EXCEPT !["discard"].thread = ReadThread]
    /\ Go("discard", "locking")
    /\ UNCHANGED <<requests, pairs, queued, workers, locks, failures, closed>>

DiscardLocks(o) == LET t == mine[o].thread IN
    /\ at[o] = "locking"
    /\ IF t = Free THEN UNCHANGED jobLock
       ELSE JobFree(o, t) /\ jobLock' = [jobLock EXCEPT ![t] = o]
    /\ Go(o, "entering")
    /\ UNCHANGED <<requests, pairs, queued, workers, mine, requestLock, calls, failures, closed>>

\* Fault: the Worker read before the locks is taken for the current one.
DiscardEntersBlindly(o) ==
    /\ at[o] = "entering" /\ requestLock = Free
    /\ IF Open
       THEN requestLock' = o /\ Go(o, "quiescing") /\ UNCHANGED <<mine, jobLock>>
       ELSE End(o)
    /\ UNCHANGED <<requests, pairs, queued, workers, calls, failures, closed>>

\* Under both locks the Worker is compared with the one read before them.
DiscardEnters(o) ==
    /\ at[o] = "entering" /\ requestLock = Free
    /\ IF request # Free /\ request.thread # mine[o].thread
       THEN /\ Go(o, "locking")
            /\ mine' = [mine EXCEPT ![o].thread = request.thread]
            /\ jobLock' = Released(o)
            /\ UNCHANGED requestLock
       ELSE IF Open
       THEN requestLock' = o /\ Go(o, "quiescing") /\ UNCHANGED <<mine, jobLock>>
       \* Nothing to close: an error, after which a deletion looks again.
       ELSE IF o = "delete" /\ request # Free
       THEN Go(o, "deleting") /\ jobLock' = Released(o) /\ UNCHANGED <<mine, requestLock>>
       ELSE End(o)
    /\ UNCHANGED <<requests, pairs, queued, workers, calls, failures, closed>>

\* quiescePair cancels the reviews of the pair's jobs, under their locks, and
\* waits ten seconds for them.
DiscardQuiesces(o) == LET free == request.linked /\ pair # Free /\ pair.worker # Free => JobFree(o, pair.worker) IN
    /\ at[o] = "quiescing"
    /\ \/ free /\ Go(o, "stopping") /\ UNCHANGED <<mine, locks, failures>>
       \/ ~free /\ End(o) /\ UNCHANGED failures
       \/ Outcome(FALSE) /\ End(o)
    /\ UNCHANGED <<requests, pairs, queued, workers, calls, closed>>

\* When the Worker cannot be stopped the pair is resumed and nothing is closed.
DiscardStops(o) == \E ok \in BOOLEAN : LET t == mine[o].thread IN
    /\ at[o] = "stopping"
    /\ Outcome(ok)
    /\ worker' = IF ok /\ t # Free /\ worker[t] = "running" THEN [worker EXCEPT ![t] = "idle"] ELSE worker
    /\ IF ok THEN Go(o, "unpairing") /\ UNCHANGED <<mine, locks>> ELSE End(o)
    /\ UNCHANGED <<requests, pairs, queued, reported, retired, callback, calls, closed>>

\* A pair that cannot be removed from its file is restored.
DiscardUnpairs(o) == \E ok \in BOOLEAN :
    /\ at[o] = "unpairing"
    /\ IF ok /\ request.linked THEN WritePair(Free, TRUE) /\ callback' = {}
                              ELSE Outcome(ok) /\ UNCHANGED <<pairs, queued, callback>>
    /\ IF ok THEN Go(o, "closing") /\ UNCHANGED <<mine, locks>> ELSE End(o)
    /\ UNCHANGED <<requests, worker, reported, retired, calls, closed>>

DiscardCloses(o) == \E ok \in BOOLEAN :
    /\ at[o] = "closing"
    /\ Write(With(request, "discarded", request.thread, FALSE), ok)
    /\ closed' = ok
    /\ IF o = "delete"
       THEN /\ Go(o, "deleting")
            /\ requestLock' = Free /\ jobLock' = Released(o)
            /\ UNCHANGED mine
       ELSE End(o)
    /\ UNCHANGED <<pairs, workers, calls>>

Discard(o) ==
    \/ DiscardLocks(o) \/ DiscardEnters(o) \/ DiscardQuiesces(o) \/ DiscardStops(o)
    \/ DiscardUnpairs(o) \/ DiscardCloses(o)

-----------------------------------------------------------------------------
(* Deletion: an open request is discarded first.                              *)

DeleteBegins ==
    /\ Begin("delete")
    /\ Go("delete", "deleting")
    /\ UNCHANGED <<requests, pairs, queued, workers, mine, locks, failures, closed>>

\* The pair's Worker may be one the request does not know of, when the job was
\* handed off after publication.
DeleteEnters == \E ok \in BOOLEAN :
    /\ at["delete"] = "deleting" /\ requestLock = Free
    /\ IF request = Free
       THEN ok /\ End("delete") /\ UNCHANGED <<requests, queued, failures>>
       ELSE IF Open
       THEN /\ IF request.linked /\ pair # Free /\ pair.worker # Free /\ pair.worker \notin request.workers
               THEN Write([request EXCEPT !.workers = @ \cup {pair.worker}], ok)
               ELSE ok /\ UNCHANGED <<requests, queued, failures>>
            /\ IF ok THEN /\ Go("delete", "locking")
                          /\ mine' = [mine EXCEPT !["delete"].thread = request.thread]
                          /\ UNCHANGED locks
                     ELSE End("delete")
       ELSE /\ ok /\ requestLock' = "delete" /\ Go("delete", "purging")
            /\ UNCHANGED <<requests, queued, failures, mine, jobLock>>
    /\ UNCHANGED <<pairs, workers, calls, closed>>

\* deleteWorkerThread for each Worker, then its supervision under its job's lock.
DeleteWorker == \E w \in Workers, ok \in BOOLEAN :
    /\ at["delete"] = "purging"
    /\ w \in request.workers /\ Exists(w)
    /\ Outcome(ok)
    /\ worker' = IF ok THEN [worker EXCEPT ![w] = "gone"] ELSE worker
    /\ IF ok THEN /\ Go("delete", "unsupervising")
                  /\ mine' = [mine EXCEPT !["delete"].thread = w]
                  /\ UNCHANGED locks
             ELSE End("delete")
    /\ UNCHANGED <<requests, pairs, queued, reported, retired, callback, calls, closed>>

DeleteUnsupervises ==
    /\ at["delete"] = "unsupervising"
    /\ JobFree("delete", mine["delete"].thread)
    /\ callback' = callback \ {mine["delete"].thread}
    /\ Go("delete", "purging")
    /\ UNCHANGED <<requests, pairs, queued, worker, reported, retired, mine, locks, calls, failures, closed>>

\* A request whose removal cannot be saved is put back.
DeleteRemoves == \E ok \in BOOLEAN :
    /\ at["delete"] = "purging"
    /\ \A w \in request.workers : ~Exists(w)
    /\ IF ok THEN Write(Free, TRUE) ELSE Outcome(FALSE) /\ UNCHANGED <<requests, queued>>
    /\ End("delete")
    /\ UNCHANGED <<pairs, workers, calls, closed>>

Delete == DeleteEnters \/ DeleteWorker \/ DeleteUnsupervises \/ DeleteRemoves

-----------------------------------------------------------------------------
(* Handoff: the job of the pair's Worker goes to a fresh one.  The job's lock *)
(* first; the request's, when the Worker holds the checkout for it.          *)

HandoffBegins ==
    /\ Begin("handoff")
    /\ pair # Free /\ pair.worker # Free
    /\ mine' = [mine EXCEPT !["handoff"].thread = pair.worker, !["handoff"].owned = Owns(pair.worker)]
    /\ Go("handoff", "locking")
    /\ UNCHANGED <<requests, pairs, queued, workers, locks, failures, closed>>

HandoffLocks == LET s == mine["handoff"].thread IN
    /\ at["handoff"] = "locking" /\ JobFree("handoff", s)
    /\ IF mine["handoff"].owned /\ ~Owns(s)
       THEN End("handoff")
       ELSE /\ Go("handoff", "entering")
            /\ mine' = [mine EXCEPT !["handoff"].owned = Owns(s)]
            /\ jobLock' = [jobLock EXCEPT ![s] = "handoff"]
            /\ UNCHANGED requestLock
    /\ UNCHANGED <<requests, pairs, queued, workers, calls, failures, closed>>

HandoffEnters == LET s == mine["handoff"].thread IN
    /\ at["handoff"] = "entering"
    /\ mine["handoff"].owned => requestLock = Free
    /\ IF worker[s] = "idle" /\ s \notin retired /\ (mine["handoff"].owned => Owns(s))
       THEN /\ Go("handoff", "starting")
            /\ requestLock' = IF mine["handoff"].owned THEN "handoff" ELSE requestLock
            /\ UNCHANGED <<mine, jobLock>>
       ELSE End("handoff")
    /\ UNCHANGED <<requests, pairs, queued, workers, calls, failures, closed>>

\* A start that fails removes what it had started.
HandoffStarts == \E w \in Workers, ok \in BOOLEAN : LET s == mine["handoff"].thread IN
    /\ at["handoff"] = "starting" /\ Fresh(w)
    /\ Outcome(ok)
    /\ IF ok /\ ~CheckoutBusy /\ (request # Free /\ request.status \in OwnerStatuses => Owns(s))
       THEN /\ worker' = [worker EXCEPT ![w] = "running"]
            /\ mine' = [mine EXCEPT !["handoff"].next = w, !["handoff"].undo = {"untrack", "delete"}]
            /\ Go("handoff", "tracking")
            /\ UNCHANGED locks
       ELSE End("handoff") /\ UNCHANGED worker
    /\ UNCHANGED <<requests, pairs, queued, reported, retired, callback, calls, closed>>

HandoffTracks == \E ok \in BOOLEAN : LET next == mine["handoff"].next IN
    /\ at["handoff"] = "tracking" /\ JobFree("handoff", next)
    /\ Outcome(ok)
    /\ callback' = IF ok THEN callback \cup {next} ELSE callback
    /\ Go("handoff", IF ok THEN "attaching" ELSE "undoing")
    /\ UNCHANGED <<requests, pairs, queued, worker, reported, retired, mine, locks, calls, closed>>

\* The pair must still show the Worker that is replaced.
HandoffAttaches == LET h == mine["handoff"] IN
    /\ at["handoff"] = "attaching"
    /\ IF pair # Free /\ pair.worker = h.thread
       THEN /\ pair' = [worker |-> h.next, from |-> h.thread]
            /\ queued' = queued \cup {"pairs"}
            /\ mine' = [mine EXCEPT !["handoff"].before = pair, !["handoff"].undo = @ \cup {"detach"}]
            /\ Go("handoff", IF h.owned THEN "transferring" ELSE "flushing")
       ELSE Go("handoff", "undoing") /\ UNCHANGED <<pair, queued, mine>>
    /\ UNCHANGED <<requests, pairFile, workers, locks, calls, failures, closed>>

\* A transfer that cannot be saved takes itself back.
HandoffTransfers == \E ok \in BOOLEAN :
    /\ at["handoff"] = "transferring"
    /\ Outcome(ok)
    /\ request' = IF ok THEN With(request, "running", mine["handoff"].next, request.linked) ELSE request
    /\ requestFile' = request'
    /\ queued' = queued \ {"requests"}
    /\ mine' = IF ok THEN [mine EXCEPT !["handoff"].prior = request, !["handoff"].undo = @ \cup {"return"}]
               ELSE mine
    /\ Go("handoff", IF ok THEN "flushing" ELSE "undoing")
    /\ UNCHANGED <<pairs, workers, locks, calls, closed>>

\* Fault: the replaced Worker is retired before the pair's file shows the new one.
HandoffSkipsFlush ==
    /\ at["handoff"] = "flushing"
    /\ Go("handoff", "retiring")
    /\ UNCHANGED <<requests, pairs, queued, workers, mine, locks, calls, failures, closed>>

HandoffFlushes == \E ok \in BOOLEAN :
    /\ at["handoff"] = "flushing"
    /\ IF "pairs" \in queued THEN WritePair(pair, ok) ELSE ok /\ UNCHANGED <<pairs, queued, failures>>
    /\ Go("handoff", IF ok THEN "retiring" ELSE "undoing")
    /\ UNCHANGED <<requests, workers, mine, locks, calls, closed>>

HandoffRetires == \E ok \in BOOLEAN :
    /\ at["handoff"] = "retiring"
    /\ Outcome(ok)
    /\ retired' = retired \cup {mine["handoff"].thread}
    /\ mine' = [mine EXCEPT !["handoff"].undo = @ \cup {"unretire"}]
    /\ Go("handoff", IF ok THEN "releasing" ELSE "undoing")
    /\ UNCHANGED <<requests, pairs, queued, worker, reported, callback, locks, calls, closed>>

\* Butler stops supervising the replaced Worker, and says so to the operator;
\* either may fail.
HandoffReleases == LET s == mine["handoff"].thread IN
    /\ at["handoff"] = "releasing"
    /\ \/ End("handoff") /\ callback' = callback \ {s} /\ UNCHANGED failures
       \/ Outcome(FALSE) /\ Go("handoff", "undoing") /\ UNCHANGED <<callback, mine, locks>>
       \/ /\ Outcome(FALSE) /\ Go("handoff", "undoing") /\ UNCHANGED locks
          /\ callback' = callback \ {s}
          /\ mine' = [mine EXCEPT !["handoff"].undo = @ \cup {"resupervise"}]
    /\ UNCHANGED <<requests, pairs, queued, worker, reported, retired, calls, closed>>

UndoOrder == <<"return", "unretire", "detach", "untrack", "delete", "resupervise">>

NextUndo == UndoOrder[CHOOSE i \in DOMAIN UndoOrder :
    /\ UndoOrder[i] \in mine["handoff"].undo
    /\ \A j \in 1..i - 1 : UndoOrder[j] \notin mine["handoff"].undo]

UndoRetirement(h, ok) ==
    /\ NextUndo = "unretire" /\ Outcome(ok)
    /\ retired' = retired \ {h.thread}
    /\ UNCHANGED <<requests, pairs, queued, worker, callback>>

UndoTransfer(h, ok) ==
    /\ NextUndo = "return"
    /\ IF request # Free /\ request.thread = h.next
       THEN Write([h.prior EXCEPT !.linked = request.linked], ok)
       ELSE ok /\ UNCHANGED <<requests, queued, failures>>
    /\ UNCHANGED <<pairs, worker, retired, callback>>

UndoAttachment(h, ok) ==
    /\ NextUndo = "detach"
    /\ IF pair # Free /\ pair.worker = h.next
       THEN WritePair(h.before, ok)
       ELSE ok /\ UNCHANGED <<pairs, queued, failures>>
    /\ UNCHANGED <<requests, worker, retired, callback>>

UndoCallback(h, ok) ==
    /\ NextUndo \in {"untrack", "resupervise"} /\ Outcome(ok)
    /\ NextUndo = "untrack" => JobFree("handoff", h.next)
    /\ callback' = IF ~ok THEN callback
                   ELSE IF NextUndo = "untrack" THEN callback \ {h.next} ELSE callback \cup {h.thread}
    /\ UNCHANGED <<requests, pairs, queued, worker, retired>>

UndoStart(h, ok) ==
    /\ NextUndo = "delete" /\ Outcome(ok)
    /\ worker' = IF ok THEN [worker EXCEPT ![h.next] = "gone"] ELSE worker
    /\ UNCHANGED <<requests, pairs, queued, retired, callback>>

\* The rollback goes on whatever fails.
HandoffUndoes == \E ok \in BOOLEAN : LET h == mine["handoff"] IN
    /\ at["handoff"] = "undoing"
    /\ \/ UndoTransfer(h, ok) \/ UndoRetirement(h, ok) \/ UndoAttachment(h, ok)
       \/ UndoCallback(h, ok) \/ UndoStart(h, ok)
    /\ IF h.undo = {NextUndo}
       THEN End("handoff")
       ELSE mine' = [mine EXCEPT !["handoff"].undo = @ \ {NextUndo}] /\ UNCHANGED <<at, locks>>
    /\ UNCHANGED <<reported, calls, closed>>

Handoff ==
    \/ HandoffLocks \/ HandoffEnters \/ HandoffStarts \/ HandoffTracks \/ HandoffAttaches
    \/ HandoffTransfers \/ HandoffFlushes \/ HandoffRetires \/ HandoffReleases \/ HandoffUndoes

-----------------------------------------------------------------------------
(* message_job: a Worker whose changes were ready goes to work again.         *)

MessageBegins ==
    /\ Begin("message")
    /\ pair # Free /\ pair.worker # Free
    /\ mine' = [mine EXCEPT !["message"].thread = pair.worker]
    /\ Go("message", "locking")
    /\ UNCHANGED <<requests, pairs, queued, workers, locks, failures, closed>>

MessageLocks == LET w == mine["message"].thread IN
    /\ at["message"] = "locking" /\ JobFree("message", w)
    /\ jobLock' = [jobLock EXCEPT ![w] = "message"]
    /\ Go("message", IF Open /\ request.thread = w THEN "entering" ELSE "sending")
    /\ UNCHANGED <<requests, pairs, queued, workers, mine, requestLock, calls, failures, closed>>

\* A request made ready is running again before the message is sent; when that
\* cannot be saved it is taken back.
MessageEnters == \E ok \in BOOLEAN :
    LET w == mine["message"].thread
        current == request # Free /\ request.thread = w
    IN
    /\ at["message"] = "entering" /\ requestLock = Free
    /\ IF current /\ request.status \in {"committed", "pr_opened"}
       THEN ok /\ End("message") /\ UNCHANGED <<requests, queued, failures>>
       ELSE IF current /\ request.status = "changes_ready"
       THEN /\ Outcome(ok)
            /\ request' = IF ok THEN [request EXCEPT !.status = "running"] ELSE request
            /\ requestFile' = request'
            /\ queued' = queued \ {"requests"}
            /\ IF ok THEN /\ Go("message", "sending") /\ requestLock' = "message"
                          /\ mine' = [mine EXCEPT !["message"].owned = TRUE]
                          /\ UNCHANGED jobLock
                     ELSE End("message")
       ELSE /\ ok /\ Go("message", "sending") /\ requestLock' = "message"
            /\ UNCHANGED <<requests, queued, failures, mine, jobLock>>
    /\ UNCHANGED <<pairs, workers, calls, closed>>

Refuses(w) ==
    \/ ~Exists(w) \/ w \in retired
    \/ request # Free /\ request.status = "discarded" /\ w \in request.workers
    \/ \E v \in Workers \ {w} : worker[v] = "running"
    \/ request # Free /\ request.status \in OwnerStatuses /\ request.thread # w

MessageArrives == LET w == mine["message"].thread IN
    /\ at["message"] = "sending" /\ ~Refuses(w)
    /\ worker' = [worker EXCEPT ![w] = "running"]
    /\ End("message")
    /\ UNCHANGED <<requests, pairs, queued, reported, retired, callback, calls, failures, closed>>

\* Whether it was accepted may stay unknown, and then the request is left running.
MessageUnknown == LET w == mine["message"].thread IN
    /\ at["message"] = "sending" /\ ~Refuses(w)
    /\ Outcome(FALSE)
    /\ End("message")
    /\ UNCHANGED <<requests, pairs, queued, workers, calls, closed>>

MessageRejected == \E ok \in BOOLEAN : LET w == mine["message"].thread IN
    /\ at["message"] = "sending"
    /\ IF Refuses(w) THEN ok ELSE ~ok
    /\ Outcome(ok)
    /\ IF mine["message"].owned /\ request # Free /\ request.thread = w /\ request.status = "running"
       THEN /\ request' = [request EXCEPT !.status = "changes_ready"] /\ requestFile' = request'
            /\ queued' = queued \ {"requests"}
       ELSE UNCHANGED <<requests, queued>>
    /\ End("message")
    /\ UNCHANGED <<pairs, workers, calls, closed>>

Message == MessageLocks \/ MessageEnters \/ MessageArrives \/ MessageUnknown \/ MessageRejected

-----------------------------------------------------------------------------
\* commitSelfImprovementRequest and openSelfImprovementPullRequest; what git or
\* the remote refuses changes nothing.
Publish == \E ok \in BOOLEAN :
    /\ requestLock = Free
    /\ request # Free /\ request.status \in {"changes_ready", "committed"}
    /\ Write([request EXCEPT !.status = IF @ = "committed" THEN "pr_opened" ELSE "committed"], ok)
    /\ UNCHANGED <<pairs, workers, at, mine, locks, calls, closed>>

Dismiss == \E ok \in BOOLEAN :
    /\ requestLock = Free
    /\ request # Free /\ request.status = "pending"
    /\ Write([request EXCEPT !.status = "dismissed"], ok)
    /\ UNCHANGED <<pairs, workers, at, mine, locks, calls, closed>>

\* recordWorkerReport, under the job's lock: finished work is ready to publish.
Report(w) ==
    /\ worker[w] = "running" /\ w \notin reported /\ jobLock[w] = Free
    /\ reported' = reported \cup {w}
    /\ IF request # Free /\ request.thread = w /\ request.status = "running"
       THEN request' = [request EXCEPT !.status = "changes_ready"] /\ queued' = queued \cup {"requests"}
       ELSE UNCHANGED <<request, queued>>
    /\ UNCHANGED <<requestFile, pairs, worker, retired, callback, at, mine, locks, calls, failures, closed>>

Rests(w) ==
    /\ worker[w] = "running"
    /\ worker' = [worker EXCEPT ![w] = "idle"]
    /\ UNCHANGED <<requests, pairs, queued, reported, retired, callback, at, mine, locks, calls, failures, closed>>

SavesRequests == \E ok \in BOOLEAN :
    /\ "requests" \in queued
    /\ Write(request, ok)
    /\ UNCHANGED <<pairs, workers, at, mine, locks, calls, closed>>

SavesPairs == \E ok \in BOOLEAN :
    /\ "pairs" \in queued
    /\ WritePair(pair, ok)
    /\ UNCHANGED <<requests, workers, at, mine, locks, calls, closed>>

-----------------------------------------------------------------------------
(* reconcileInterruptedSelfImprovementRequests, on what the files hold.       *)

ShowsAnother(r, p) == r.linked /\ p # Free /\ r.thread # Free /\ p.worker \notin {Free, r.thread}

\* The pair was saved and the request was not: the request follows.
PairIsAhead(r, p) == ShowsAnother(r, p) /\ p.from = r.thread /\ Exists(p.worker)

\* Fault: the request wins, and the pair goes back to the Worker replaced.
RequestNeverFollows(r, p) == r

Followed(r, p) == IF PairIsAhead(r, p) THEN With(r, "running", p.worker, r.linked) ELSE r

\* The request was saved and the pair was not: the pair follows; and a Worker
\* that no pair shows gets one.
Shown(r, p) ==
    IF ShowsAnother(r, p) /\ p.worker \in r.workers THEN [worker |-> r.thread, from |-> p.worker]
    ELSE IF Exists(r.thread) /\ ~(p # Free /\ p.worker = r.thread) THEN [worker |-> r.thread, from |-> Free]
    ELSE p

Settled(r, p) ==
    LET matches == p # Free /\ r.thread # Free /\ p.worker = r.thread
        returns == r.status \in {"approved", "running"}
    IN
    IF Exists(r.thread) /\ r.thread \in reported
    THEN [r EXCEPT !.status = IF returns THEN "changes_ready" ELSE @, !.linked = @ \/ matches]
    ELSE IF ~Exists(r.thread) /\ ~matches
    THEN IF returns THEN With(r, "pending", Free, FALSE) ELSE [r EXCEPT !.linked = FALSE]
    ELSE IF matches /\ ~r.linked
    THEN [r EXCEPT !.linked = TRUE, !.status = IF returns THEN "running" ELSE @]
    ELSE [r EXCEPT !.status = IF @ = "approved" THEN "running" ELSE @]

\* Manor stops anywhere and starts again from its files.  Workers stop with it;
\* a predecessor named by the pair is retired, and the pair's Worker supervised.
Restart ==
    LET saved == requestFile
        owner == saved # Free /\ saved.status \in OwnerStatuses
        followed == IF owner THEN Followed(saved, pairFile) ELSE saved
        shown == IF owner THEN Shown(followed, pairFile) ELSE pairFile
        settled == IF owner THEN Settled(followed, shown) ELSE saved
        named == IF shown = Free THEN {} ELSE {shown.worker} \ {Free}
    IN
    /\ Outcome(FALSE)
    /\ worker' = [w \in Workers |-> IF worker[w] = "running" THEN "idle" ELSE worker[w]]
    /\ request' = settled /\ requestFile' = settled
    /\ pair' = IF \A w \in named : Exists(w) THEN shown ELSE [shown EXCEPT !.worker = Free]
    /\ pairFile' = pair'
    /\ retired' = retired \cup (IF pairFile = Free THEN {} ELSE {pairFile.from} \ {Free})
    /\ callback' = callback \cup {w \in named : Exists(w)}
    /\ queued' = {}
    /\ at' = [o \in Operations |-> "no"]
    /\ mine' = [o \in Operations |-> NoLocals]
    /\ requestLock' = Free /\ jobLock' = [w \in Workers |-> Free]
    /\ UNCHANGED <<reported, calls, closed>>

-----------------------------------------------------------------------------
SourceInit ==
    /\ request = [status |-> "pending", thread |-> Free, linked |-> FALSE, workers |-> {}]
    /\ requestFile = request
    /\ pair = Free /\ pairFile = Free /\ queued = {}
    \* Another Worker may be at work in the checkout.
    /\ worker \in {[w \in Workers |-> IF w = 1 THEN first ELSE "none"] : first \in {"none", "running"}}
    /\ reported = {} /\ retired = {} /\ callback = {}
    /\ at = [o \in Operations |-> "no"] /\ mine = [o \in Operations |-> NoLocals]
    /\ requestLock = Free /\ jobLock = [w \in Workers |-> Free]
    /\ calls = 0 /\ failures = 0 /\ closed = FALSE

SourceNext ==
    \/ ApproveBegins \/ Approve
    \/ DiscardBegins \/ DeleteBegins
    \/ \E o \in Discarding : Discard(o)
    \/ Delete
    \/ HandoffBegins \/ Handoff
    \/ MessageBegins \/ Message
    \/ Publish \/ Dismiss
    \/ \E w \in Workers : Report(w) \/ Rests(w)
    \/ SavesRequests \/ SavesPairs \/ Restart

\* What was begun goes on, and Workers end their turns.
SourceFairness ==
    /\ WF_sourceVars(Approve) /\ WF_sourceVars(Handoff) /\ WF_sourceVars(Message)
    /\ WF_sourceVars(Discard("discard")) /\ WF_sourceVars(Discard("delete") \/ Delete)
    /\ \A w \in Workers : WF_sourceVars(Rests(w))

SourceSpec == SourceInit /\ [][SourceNext]_sourceVars /\ SourceFairness

-----------------------------------------------------------------------------
AtRest == \A o \in Operations : at[o] = "no"

\* The variables have their types, and a request names its Worker among its Workers.
SourceTypeOK ==
    /\ {request, requestFile} \subseteq Maybe(RequestRecords)
    /\ \A r \in {request, requestFile} \ {Free} : r.thread = Free \/ r.thread \in r.workers
    /\ {pair, pairFile} \subseteq Maybe(PairRecords)
    /\ queued \subseteq {"requests", "pairs"}
    /\ worker \in [Workers -> {"none", "idle", "running", "gone"}]
    /\ reported \subseteq Workers /\ retired \subseteq Workers /\ callback \subseteq Workers
    /\ DOMAIN at = Operations /\ DOMAIN mine = Operations
    /\ requestLock \in Maybe(Operations) /\ jobLock \in [Workers -> Maybe(Operations)]

\* Between operations, and after a restart, the pair of a request that holds the
\* checkout shows the Worker the request names, and that Worker can be worked with.
PairFollowsRequest ==
    AtRest /\ request # Free /\ request.status \in OwnerStatuses /\ request.linked /\ pair # Free
    => pair.worker = request.thread /\ Exists(request.thread) /\ request.thread \notin retired

\* A handoff that fails or is cut off leaves the job with one Worker of the two:
\* the one the pair shows exists, is not retired and is supervised.
JobKeepsItsWorker ==
    AtRest /\ pair # Free /\ pair.worker # Free
    => Exists(pair.worker) /\ pair.worker \notin retired /\ pair.worker \in callback

\* A request that was closed stays closed, on disk too, and its Worker works no more.
ClosedStays ==
    closed => \A r \in {request, requestFile} \ {Free} :
        r.status = "discarded" /\ (r.thread # Free => worker[r.thread] # "running")

\* Closing a request comes to an end: "Only approved or active self-improvement
\* requests can be closed", and they can.
ClosingEnds == at["discard"] # "no" ~> at["discard"] = "no"

=============================================================================
