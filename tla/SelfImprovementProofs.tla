------------------------ MODULE SelfImprovementProofs ------------------------
(***************************************************************************)
(* The operations on a self-improvement request, for any number of Workers,*)
(* calls and faults: a request that was closed stays closed, on disk too,  *)
(* and its Worker works no more.                                           *)
(*                                                                         *)
(* Closing is the last of several steps, and what it closed could be opened*)
(* again by whoever read the request before and writes it afterwards.  So  *)
(* the invariant says who may change the request: an operation from the    *)
(* step on at which it has the request's turn (RequestTurns), with the     *)
(* Worker's job held where the source holds it (JobTurns); and that none   *)
(* but a deletion is so far while the request is closed (ClosedIsOver).    *)
(* Each operation is then shown to leave the others their turns (StepKeeps)*)
(* and to keep its own part (OwnPart).                                     *)
(*                                                                         *)
(* And until the second fault the request and its pair name one Worker,    *)
(* which exists, is not retired and is supervised.  While a handoff is     *)
(* under way they do not: its list of what is still to be taken back says  *)
(* how far apart they are (HandoffRuns, HandoffShows), and before the first*)
(* fault the files are behind by no more than its last write (FilesFollow),*)
(* from which a restart finds the one Worker (Restored).  The steps of the *)
(* other operations are shown to be Mild, and a mild step to keep all that *)
(* (MildKeeps); an approval's and a handoff's are taken one by one.        *)
(***************************************************************************)
EXTENDS MCJobs, MutationLockProofs

-----------------------------------------------------------------------------
(* A self-improvement request: the invariant.                              *)

\* The types.  A request names its Worker among its Workers.
NamedRequests == {r \in RequestRecords : r.thread = Free \/ r.thread \in r.workers}
Undos     == {"untrack", "delete", "detach", "return", "unretire", "resupervise"}
LocalRecs == [thread : Maybe(Workers), next : Maybe(Workers), prior : Maybe(NamedRequests),
              before : Maybe(PairRecords), owned : BOOLEAN, undo : SUBSET Undos]
Steps     == {"no", "locking", "entering", "starting", "prompting", "pairing", "supervising", "linking",
              "unpairing", "deleting", "reverting", "keeping", "quiescing", "stopping", "closing",
              "purging", "unsupervising", "tracking", "attaching", "transferring", "flushing",
              "retiring", "releasing", "undoing", "sending"}

RequestShape ==
    /\ request \in Maybe(NamedRequests) /\ requestFile \in Maybe(NamedRequests)
    /\ queued \subseteq {"requests", "pairs"} /\ closed \in BOOLEAN
PairShape == pair \in Maybe(PairRecords) /\ pairFile \in Maybe(PairRecords)
WorkShape ==
    /\ worker \in [Workers -> {"none", "idle", "running", "gone"}]
    /\ reported \subseteq Workers /\ retired \subseteq Workers /\ callback \subseteq Workers
LocalShape == at \in [Operations -> Steps] /\ mine \in [Operations -> LocalRecs]
LockShape  == requestLock \in Maybe(Operations) /\ jobLock \in [Workers -> Maybe(Operations)]

\* An operation knows the Workers it is about; a handoff knows what it has to take
\* back, and the request as it was when it has to take back the transfer.
WithPrompt == {"prompting", "pairing", "supervising", "linking", "unpairing", "deleting", "keeping"}
WithNext   == {"tracking", "attaching", "transferring", "flushing", "retiring", "releasing", "undoing"}
ApproveKnows == at["approve"] \in WithPrompt => mine["approve"].thread \in Workers
MessageKnows == at["message"] # "no" => mine["message"].thread \in Workers
HandoffKnows ==
    /\ at["handoff"] # "no" => mine["handoff"].thread \in Workers
    /\ at["handoff"] \in WithNext => mine["handoff"].next \in Workers /\ mine["handoff"].undo # {}
    /\ at["handoff"] = "transferring" => mine["handoff"].owned
    /\ at["handoff"] \in {"no", "locking", "entering", "starting"} => mine["handoff"].undo = {}
    /\ "return" \in mine["handoff"].undo => mine["handoff"].prior # Free /\ mine["handoff"].owned

\* The operations that have the request's turn and may change its Worker or its state
\* (messages only set it back to work): nobody takes the request away from them.
Closing == {"quiescing", "stopping", "unpairing", "closing"}
Purging(o) == o = "delete" /\ at[o] \in {"purging", "unsupervising"}
Inside(o) ==
    \/ o = "approve" /\ at[o] # "no"
    \/ o \in Discarding /\ at[o] \in Closing
    \/ Purging(o)
    \/ o = "handoff" /\ at[o] \in WithNext \cup {"starting"} /\ mine[o].owned
OwnTurn(o) == Inside(o) => requestLock = o /\ request # Free
RequestTurns == \A o \in Operations : OwnTurn(o)

\* A message, or a discard, that is past its wait has the lock of its Worker's job.  A
\* discard holds the request's current Worker, and once it has stopped it it rests.
MessageTurn == at["message"] \in {"entering", "sending"} => jobLock[mine["message"].thread] = "message"
DiscardTurn(o) ==
    /\ at[o] \in {"entering"} \cup Closing /\ mine[o].thread # Free => jobLock[mine[o].thread] = o
    /\ at[o] \in Closing => mine[o].thread = request.thread
    /\ at[o] \in {"unpairing", "closing"} /\ mine[o].thread # Free => worker[mine[o].thread] # "running"
JobTurns == MessageTurn /\ \A o \in Discarding : DiscardTurn(o)

\* A Worker that the request names, or is about to, was started.
Started == {Free} \cup {w \in Workers : worker[w] # "none"}
NamesStarted(r) == r # Free => r.thread \in Started
NamedWereStarted ==
    /\ NamesStarted(request) /\ NamesStarted(requestFile) /\ NamesStarted(mine["handoff"].prior)
    /\ mine["handoff"].next \in Started /\ mine["approve"].thread \in Started

\* What was closed is so in memory and in the file, its Worker rests, and only its
\* deletion may have the request.
Rested(r) == r # Free => r.status = "discarded" /\ (r.thread # Free => worker[r.thread] # "running")
ClosedIsOver ==
    closed => request = requestFile /\ Rested(request) /\ \A o \in Operations : Inside(o) => Purging(o)

SourceInv ==
    /\ RequestShape /\ PairShape /\ WorkShape /\ LocalShape /\ LockShape
    /\ ApproveKnows /\ MessageKnows /\ HandoffKnows
    /\ RequestTurns /\ JobTurns /\ NamedWereStarted /\ ClosedIsOver

-----------------------------------------------------------------------------
(* What one operation's step leaves to the others.                         *)

\* The local variables of an operation after each kind of change.
LEMMA LocalIs ==
    ASSUME NEW l \in LocalRecs
    PROVE  /\ \A w \in Maybe(Workers) :
                 /\ [l EXCEPT !.thread = w] \in LocalRecs
                 /\ \A b \in BOOLEAN : [l EXCEPT !.thread = w, !.owned = b] \in LocalRecs
                 /\ \A u \in SUBSET Undos : [l EXCEPT !.next = w, !.undo = u] \in LocalRecs
           /\ \A b \in BOOLEAN : [l EXCEPT !.owned = b] \in LocalRecs
           /\ \A u \in SUBSET Undos :
                 /\ [l EXCEPT !.undo = u] \in LocalRecs
                 /\ \A p \in Maybe(PairRecords) : [l EXCEPT !.before = p, !.undo = u] \in LocalRecs
                 /\ \A r \in Maybe(NamedRequests) : [l EXCEPT !.prior = r, !.undo = u] \in LocalRecs
  BY DEF LocalRecs

LEMMA NoLocalsIs == NoLocals \in LocalRecs
  BY DEF NoLocals, LocalRecs, Maybe

\* A function of the operations that changes at one of them.
LEMMA ChangesAtOne ==
    ASSUME NEW S, NEW f \in [Operations -> S], NEW o \in Operations, NEW x \in S
    PROVE  /\ [f EXCEPT ![o] = x] \in [Operations -> S] /\ [f EXCEPT ![o] = x][o] = x
           /\ \A p \in Operations \ {o} : [f EXCEPT ![o] = x][p] = f[p]
  OBVIOUS

\* A step of one operation: the others stand where they stood, with their local
\* variables and their locks.
LocalsAlone(o) ==
    LocalShape' /\ \A p \in Operations \ {o} : at'[p] = at[p] /\ mine'[p] = mine[p]
LocksAlone(o) ==
    /\ LockShape'
    /\ requestLock \notin {Free, o} => requestLock' = requestLock
    /\ \A w \in Workers : jobLock[w] \notin {Free, o} => jobLock'[w] = jobLock[w]
Alone(o) == LocalsAlone(o) /\ LocksAlone(o)

\* An operation ends, or goes on.
LEMMA Ends ==
    ASSUME LocalShape, LockShape, NEW o \in Operations, End(o)
    PROVE  Alone(o) /\ at'[o] = "no" /\ mine'[o] = NoLocals
PROOF
  <1>1. LocalShape' /\ at'[o] = "no" /\ mine'[o] = NoLocals
        /\ \A p \in Operations \ {o} : at'[p] = at[p] /\ mine'[p] = mine[p]
    BY NoLocalsIs, ChangesAtOne DEF End, LocalShape, Steps
  <1>2. LockShape' /\ (requestLock \notin {Free, o} => requestLock' = requestLock)
        /\ \A w \in Workers : jobLock[w] \notin {Free, o} => jobLock'[w] = jobLock[w]
    BY DEF End, LockShape, Released, Maybe
  <1> QED
    BY <1>1, <1>2 DEF Alone, LocalsAlone, LocksAlone

LEMMA Goes ==
    ASSUME LocalShape, NEW o \in Operations, NEW s \in Steps, Go(o, s)
    PROVE  /\ at'[o] = s
           /\ UNCHANGED mine => LocalsAlone(o)
           /\ \A l \in LocalRecs : mine' = [mine EXCEPT ![o] = l] => LocalsAlone(o) /\ mine'[o] = l
PROOF
  <1>1. at' \in [Operations -> Steps] /\ at'[o] = s /\ \A p \in Operations \ {o} : at'[p] = at[p]
    BY ChangesAtOne DEF Go, LocalShape
  <1>2. ASSUME UNCHANGED mine PROVE LocalsAlone(o)
    BY <1>1, <1>2 DEF LocalsAlone, LocalShape
  <1>3. ASSUME NEW l \in LocalRecs, mine' = [mine EXCEPT ![o] = l]
        PROVE  LocalsAlone(o) /\ mine'[o] = l
    BY <1>1, <1>3, ChangesAtOne DEF LocalsAlone, LocalShape
  <1> QED
    BY <1>1, <1>2, <1>3

\* The locks are left alone, taken when they are free, or given back.
LEMMA LocksTaken ==
    ASSUME LockShape, NEW o \in Operations
    PROVE  /\ UNCHANGED <<requestLock, jobLock>> => LocksAlone(o)
           /\ requestLock = Free /\ requestLock' = o /\ UNCHANGED jobLock => LocksAlone(o)
           /\ \A w \in Workers :
                 JobFree(o, w) /\ jobLock' = [jobLock EXCEPT ![w] = o] /\ UNCHANGED requestLock
                     => LocksAlone(o) /\ jobLock'[w] = o
           /\ jobLock' = Released(o) /\ requestLock' \in {requestLock, Free}
              /\ requestLock \in {Free, o, requestLock'} => LocksAlone(o)
PROOF
  <1>1. UNCHANGED <<requestLock, jobLock>> => LocksAlone(o)
    BY DEF LocksAlone, LockShape
  <1>2. requestLock = Free /\ requestLock' = o /\ UNCHANGED jobLock => LocksAlone(o)
    BY DEF LocksAlone, LockShape, Maybe
  <1>3. ASSUME NEW w \in Workers, JobFree(o, w), jobLock' = [jobLock EXCEPT ![w] = o], UNCHANGED requestLock
        PROVE  LocksAlone(o) /\ jobLock'[w] = o
    BY <1>3 DEF LocksAlone, LockShape, Maybe, JobFree
  <1>4. ASSUME jobLock' = Released(o), requestLock' \in {requestLock, Free},
               requestLock \in {Free, o, requestLock'}
        PROVE  LocksAlone(o)
    BY <1>4 DEF LocksAlone, LockShape, Maybe, Released
  <1> QED
    BY <1>1, <1>2, <1>3, <1>4

\* Nobody steps alone when no operation does.
LEMMA NobodySteps ==
    ASSUME LocalShape, LockShape, UNCHANGED <<at, mine, locks>>
    PROVE  Alone(Free)
  BY DEF Alone, LocalsAlone, LocksAlone, LocalShape, LockShape, locks

\* What a step of one operation (or of none) may do to the request and its Workers:
\* it changes the request's Worker only when it has the request's turn, sets a Worker
\* to work when it starts it, has that turn or the turn of its job, and no Worker
\* becomes one that was never started.
Fits(o) ==
    /\ request # Free => Inside(o) \/ (request' # Free /\ request'.thread = request.thread)
    /\ \A w \in Workers :
          /\ worker'[w] = "running" => worker[w] \in {"running", "none"} \/ Inside(o) \/ jobLock[w] = o
          /\ worker[w] # "none" => worker'[w] # "none"

\* Of one step, what it leaves to the other operations.
LEMMA OthersLeave ==
    ASSUME SourceInv, NEW o \in Maybe(Operations), Alone(o), Fits(o), NEW p \in Operations, p # o
    PROVE  /\ at'[p] = at[p] /\ mine'[p] = mine[p]
           /\ Inside(p)' <=> Inside(p)
           /\ OwnTurn(p)'
           /\ p \in Discarding => DiscardTurn(p)'
PROOF
  <1>0. LocalShape /\ NamedWereStarted /\ OwnTurn(p) /\ (o \in Operations => OwnTurn(o))
    BY DEF SourceInv, RequestTurns
  <1>1. at'[p] = at[p] /\ mine'[p] = mine[p]
    BY DEF Alone, LocalsAlone
  <1>2. Inside(p)' <=> Inside(p)
    BY <1>1 DEF Inside, Purging
  <1>3. p # Free /\ (Inside(o) => o \in Operations)
    BY FreeIsNothing DEF Inside, Purging, Maybe, Operations, Discarding
  <1>4. ASSUME Inside(p)
        PROVE  requestLock' = p /\ request' # Free /\ request'.thread = request.thread /\ ~Inside(o) /\ request # Free
    <2>1. requestLock = p /\ request # Free /\ ~Inside(o)
      BY <1>0, <1>3, <1>4 DEF OwnTurn
    <2>2. requestLock' = p
      BY <1>3, <2>1 DEF Alone, LocksAlone
    <2> QED
      BY <2>1, <2>2 DEF Fits
  <1>5. OwnTurn(p)'
    BY <1>2, <1>4 DEF OwnTurn
  <1>6. ASSUME p \in Discarding PROVE DiscardTurn(p)'
    <2> DEFINE t == mine[p].thread
    <2>0. DiscardTurn(p) /\ t \in Maybe(Workers)
      BY <1>0, <1>6 DEF SourceInv, JobTurns, LocalShape, LocalRecs
    <2>1. ASSUME at[p] \in {"entering"} \cup Closing, t # Free
          PROVE  jobLock[t] = p /\ jobLock'[t] = p /\ t \in Workers
      BY <1>3, <2>0, <2>1 DEF DiscardTurn, Maybe, Alone, LocksAlone
    <2>2. at[p] \in Closing => t = request'.thread
      BY <1>4, <1>6, <2>0 DEF DiscardTurn, Inside
    <2>3. ASSUME at[p] \in {"unpairing", "closing"}, t # Free PROVE worker'[t] # "running"
      <3>1. Inside(p) /\ at[p] \in Closing
        BY <1>6, <2>3 DEF Inside, Closing
      <3>2. t = request.thread /\ worker[t] # "running" /\ jobLock[t] = p /\ t \in Workers
        BY <2>0, <2>1, <2>3, <3>1 DEF DiscardTurn
      <3>3. worker[t] # "none"
        BY <1>0, <1>4, <2>3, <3>1, <3>2 DEF NamedWereStarted, NamesStarted, Started
      <3> QED
        BY <1>4, <3>1, <3>2, <3>3 DEF Fits
    <2> QED
      BY <1>1, <2>1, <2>2, <2>3 DEF DiscardTurn
  <1> QED
    BY <1>1, <1>2, <1>5, <1>6

LEMMA OthersLeaveMessage ==
    ASSUME LocalShape, MessageKnows, MessageTurn, NEW o \in Maybe(Operations) \ {"message"}, Alone(o)
    PROVE  MessageTurn'
PROOF
  <1>1. "message" \in Operations \ {o}
    BY DEF Operations
  <1>2. at'["message"] = at["message"] /\ mine'["message"] = mine["message"]
    BY <1>1 DEF Alone, LocalsAlone
  <1>3. SUFFICES ASSUME at["message"] \in {"entering", "sending"}
                 PROVE  jobLock'[mine["message"].thread] = "message"
    BY <1>2 DEF MessageTurn
  <1>4. mine["message"].thread \in Workers /\ jobLock[mine["message"].thread] = "message"
    BY <1>3 DEF MessageKnows, MessageTurn
  <1> QED
    BY <1>1, <1>4, FreeIsNothing DEF Alone, LocksAlone

\* A Worker that was started stays one.
LEMMA StartedStays ==
    ASSUME NEW o, Fits(o)
    PROVE  Started \subseteq Started'
  BY DEF Fits, Started

\* The invariant is kept by a step of one operation, or of none, that keeps it for
\* that operation, for the request and for the names.
OwnPart(o) ==
    /\ RequestShape' /\ PairShape' /\ WorkShape'
    /\ o = "approve" => ApproveKnows'
    /\ o = "message" => MessageKnows' /\ MessageTurn'
    /\ o = "handoff" => HandoffKnows'
    /\ o \in Operations => OwnTurn(o)'
    /\ o \in Discarding => DiscardTurn(o)'
    /\ NamesStarted(request)' /\ NamesStarted(requestFile)'
    /\ o = "handoff" => (NamesStarted(mine["handoff"].prior))' /\ mine'["handoff"].next \in Started'
    /\ o = "approve" => mine'["approve"].thread \in Started'
    /\ closed' => request' = requestFile' /\ Rested(request)' /\ (o \in Operations => (Inside(o) => Purging(o))')
    /\ closed' /\ ~closed => o \in Operations /\ Inside(o)

LEMMA StepKeeps ==
    ASSUME SourceInv, NEW o \in Maybe(Operations), Alone(o), Fits(o), OwnPart(o)
    PROVE  SourceInv'
PROOF
  <1>0. /\ LocalShape /\ ApproveKnows /\ MessageKnows /\ HandoffKnows /\ MessageTurn /\ RequestTurns
        /\ NamedWereStarted /\ ClosedIsOver
    BY DEF SourceInv, JobTurns
  <1>1. LocalShape' /\ LockShape' /\ RequestShape' /\ PairShape' /\ WorkShape'
    BY DEF Alone, LocalsAlone, LocksAlone, OwnPart
  <1>2. \A p \in Operations : p # o => at'[p] = at[p] /\ mine'[p] = mine[p] /\ (Inside(p)' <=> Inside(p))
    BY OthersLeave
  <1>3. {"approve", "message", "handoff"} \subseteq Operations
    BY DEF Operations
  <1>4. ApproveKnows'
    BY <1>0, <1>2, <1>3 DEF ApproveKnows, OwnPart
  <1>5. MessageKnows' /\ MessageTurn'
    <2>1. CASE o = "message"
      BY <2>1 DEF OwnPart
    <2>2. CASE o # "message"
      BY <1>0, <1>2, <1>3, <2>2, OthersLeaveMessage DEF MessageKnows
    <2> QED
      BY <2>1, <2>2
  <1>6. HandoffKnows'
    BY <1>0, <1>2, <1>3 DEF HandoffKnows, OwnPart
  <1>7. RequestTurns'
    BY OthersLeave DEF RequestTurns, OwnPart
  <1>8. \A p \in Discarding : DiscardTurn(p)'
    BY OthersLeave DEF OwnPart, Discarding, Operations
  <1>9. NamedWereStarted'
    <2>1. CASE o # "handoff"
      <3>1. mine'["handoff"] = mine["handoff"]
        BY <1>2, <1>3, <2>1
      <3> QED
        BY <1>0, <1>2, <1>3, <3>1, StartedStays DEF NamedWereStarted, NamesStarted, OwnPart
    <2>2. CASE o = "handoff"
      <3>1. mine'["approve"] = mine["approve"]
        BY <1>2, <1>3, <2>2
      <3> QED
        BY <1>0, <2>2, <3>1, StartedStays DEF NamedWereStarted, OwnPart
    <2> QED
      BY <2>1, <2>2
  <1>10. ClosedIsOver'
    <2>1. SUFFICES ASSUME closed', NEW p \in Operations, Inside(p)' PROVE Purging(p)'
      BY DEF ClosedIsOver, OwnPart
    <2>2. CASE p = o
      BY <2>1, <2>2 DEF OwnPart
    <2>3. CASE p # o
      <3>1. Inside(p)
        BY <1>2, <2>1, <2>3
      <3>2. closed
        BY <1>0, <2>1, <2>3, <3>1 DEF OwnPart, RequestTurns, OwnTurn
      <3> QED
        BY <1>0, <1>2, <2>3, <3>1, <3>2 DEF ClosedIsOver, Purging
    <2> QED
      BY <2>2, <2>3
  <1> QED
    BY <1>1, <1>4, <1>5, <1>6, <1>7, <1>8, <1>9, <1>10 DEF SourceInv, JobTurns

-----------------------------------------------------------------------------
(* Every operation steps alone.                                            *)

LEMMA ApproveAlone ==
    ASSUME LocalShape, LockShape, ApproveBegins \/ Approve
    PROVE  Alone("approve")
PROOF
  <1>0. "approve" \in Operations /\ mine["approve"] \in LocalRecs
    BY DEF Operations, LocalShape
  <1>1. CASE ApproveBegins
    BY <1>0, <1>1, Goes, LocksTaken DEF ApproveBegins, Alone, Steps, LocalsAlone, LocalShape, Write
  <1>2. CASE ApproveStarts
    <2>1. PICK w \in Workers, s \in Steps :
             Go("approve", s) /\ UNCHANGED locks
             /\ mine' = [mine EXCEPT !["approve"] = [mine["approve"] EXCEPT !.thread = w]]
      BY <1>2 DEF ApproveStarts, Steps
    <2> QED
      BY <1>0, <2>1, Goes, LocksTaken, LocalIs DEF Alone, locks, Maybe
  <1>3. CASE \E s \in Steps : Go("approve", s) /\ UNCHANGED <<mine, locks>>
    BY <1>0, <1>3, Goes, LocksTaken DEF Alone, locks
  <1>4. CASE End("approve")
    BY <1>0, <1>4, Ends
  <1> QED
    BY <1>1, <1>2, <1>3, <1>4 DEF Approve, ApproveRefused, ApprovePrompts, ApprovePairs, ApproveSupervises,
       ApproveLinks, ApproveUnpairs, ApproveDeletes, ApproveReverts, Steps

LEMMA DiscardAlone ==
    ASSUME LocalShape, LockShape, RequestShape, RequestTurns, NEW o \in Discarding,
           (o = "discard" /\ DiscardBegins) \/ Discard(o)
    PROVE  Alone(o)
PROOF
  <1>0. o \in Operations /\ mine[o] \in LocalRecs
    BY DEF Operations, LocalShape, Discarding
  <1>1. CASE o = "discard" /\ DiscardBegins
    <2>1. ReadThread \in Maybe(Workers)
      BY DEF ReadThread, RequestShape, NamedRequests, RequestRecords, Maybe
    <2>2. Go(o, "locking") /\ UNCHANGED locks /\ mine' = [mine EXCEPT ![o] = [mine[o] EXCEPT !.thread = ReadThread]]
      BY <1>1 DEF DiscardBegins
    <2> QED
      BY <1>0, <2>1, <2>2, Goes, LocksTaken, LocalIs DEF Alone, locks, Steps
  <1>2. CASE DiscardLocks(o)
    <2>1. mine[o].thread = Free \/ mine[o].thread \in Workers
      BY <1>0 DEF LocalRecs, Maybe
    <2>2. LocalsAlone(o)
      BY <1>0, <1>2, Goes DEF DiscardLocks, Steps
    <2>3. LocksAlone(o)
      BY <1>0, <1>2, <2>1, LocksTaken DEF DiscardLocks
    <2> QED
      BY <2>2, <2>3 DEF Alone
  <1>3. CASE DiscardEnters(o)
    <2>1. CASE End(o)
      BY <1>0, <2>1, Ends
    <2>2. CASE request # Free /\ Go(o, "locking") /\ mine' = [mine EXCEPT ![o] = [mine[o] EXCEPT !.thread = request.thread]]
               /\ jobLock' = Released(o) /\ UNCHANGED requestLock
      <3>1. request.thread \in Maybe(Workers)
        BY <2>2 DEF RequestShape, NamedRequests, RequestRecords, Maybe
      <3> QED
        BY <1>0, <2>2, <3>1, Goes, LocksTaken, LocalIs DEF Alone, Steps
    <2>3. CASE requestLock = Free /\ requestLock' = o /\ Go(o, "quiescing") /\ UNCHANGED <<mine, jobLock>>
      BY <1>0, <2>3, Goes, LocksTaken DEF Alone, Steps
    <2>4. CASE Go(o, "deleting") /\ jobLock' = Released(o) /\ UNCHANGED <<mine, requestLock>>
      BY <1>0, <2>4, Goes, LocksTaken DEF Alone, Steps
    <2> QED
      BY <1>3, <2>1, <2>2, <2>3, <2>4 DEF DiscardEnters
  <1>4. CASE \E s \in Steps : Go(o, s) /\ UNCHANGED <<mine, locks>>
    BY <1>0, <1>4, Goes, LocksTaken DEF Alone, locks
  <1>5. CASE End(o)
    BY <1>0, <1>5, Ends
  <1>6. CASE DiscardCloses(o)
    <2>1. CASE Go(o, "deleting") /\ requestLock' = Free /\ jobLock' = Released(o) /\ UNCHANGED mine
               /\ requestLock \in {Free, o}
      BY <1>0, <2>1, Goes, LocksTaken DEF Alone, Steps
    <2>2. requestLock = o
      BY <1>0, <1>6 DEF DiscardCloses, RequestTurns, OwnTurn, Inside, Closing
    <2> QED
      BY <1>5, <1>6, <2>1, <2>2 DEF DiscardCloses
  <1> QED
    BY <1>1, <1>2, <1>3, <1>4, <1>5, <1>6 DEF Discard, DiscardQuiesces, DiscardStops, DiscardUnpairs, Steps

LEMMA DeleteAlone ==
    ASSUME LocalShape, LockShape, RequestShape, DeleteBegins \/ Delete
    PROVE  Alone("delete")
PROOF
  <1>0. "delete" \in Operations /\ mine["delete"] \in LocalRecs
    BY DEF Operations, LocalShape
  <1>1. CASE \E s \in Steps : Go("delete", s) /\ UNCHANGED <<mine, locks>>
    BY <1>0, <1>1, Goes, LocksTaken DEF Alone, locks
  <1>2. CASE End("delete")
    BY <1>0, <1>2, Ends
  <1>3. CASE \E s \in Steps, w \in Maybe(Workers) :
                Go("delete", s) /\ UNCHANGED locks
                /\ mine' = [mine EXCEPT !["delete"] = [mine["delete"] EXCEPT !.thread = w]]
    BY <1>0, <1>3, Goes, LocksTaken, LocalIs DEF Alone, locks
  <1>4. CASE Go("delete", "purging") /\ requestLock = Free /\ requestLock' = "delete" /\ UNCHANGED <<mine, jobLock>>
    BY <1>0, <1>4, Goes, LocksTaken DEF Alone, Steps
  <1>5. CASE DeleteEnters
    <2>1. request # Free => request.thread \in Maybe(Workers)
      BY DEF RequestShape, NamedRequests, RequestRecords, Maybe
    <2> QED
      BY <1>2, <1>3, <1>4, <1>5, <2>1 DEF DeleteEnters, Open, Steps
  <1>6. CASE DeleteWorker
    BY <1>2, <1>3, <1>6 DEF DeleteWorker, Steps, Maybe
  <1> QED
    BY <1>1, <1>2, <1>5, <1>6 DEF Delete, DeleteBegins, DeleteUnsupervises, DeleteRemoves, Steps

LEMMA MessageAlone ==
    ASSUME LocalShape, LockShape, PairShape, MessageKnows, MessageBegins \/ Message
    PROVE  Alone("message")
PROOF
  <1>0. "message" \in Operations /\ mine["message"] \in LocalRecs
    BY DEF Operations, LocalShape
  <1>1. CASE MessageBegins
    <2>1. pair.worker \in Maybe(Workers)
      BY <1>1 DEF MessageBegins, PairShape, PairRecords, Maybe
    <2>2. Go("message", "locking") /\ UNCHANGED locks
          /\ mine' = [mine EXCEPT !["message"] = [mine["message"] EXCEPT !.thread = pair.worker]]
      BY <1>1 DEF MessageBegins
    <2> QED
      BY <1>0, <2>1, <2>2, Goes, LocksTaken, LocalIs DEF Alone, locks, Steps
  <1>2. CASE MessageLocks
    <2>1. mine["message"].thread \in Workers
      BY <1>2 DEF MessageLocks, MessageKnows
    <2>2. LocalsAlone("message")
      BY <1>0, <1>2, Goes DEF MessageLocks, Steps
    <2>3. LocksAlone("message")
      BY <1>0, <1>2, <2>1, LocksTaken DEF MessageLocks
    <2> QED
      BY <2>2, <2>3 DEF Alone
  <1>3. CASE End("message")
    BY <1>0, <1>3, Ends
  <1>4. CASE MessageEnters
    <2>1. CASE Go("message", "sending") /\ requestLock' = "message" /\ UNCHANGED jobLock
               /\ mine' = [mine EXCEPT !["message"] = [mine["message"] EXCEPT !.owned = TRUE]]
      BY <1>0, <1>4, <2>1, Goes, LocksTaken, LocalIs DEF MessageEnters, Alone, Steps
    <2>2. CASE Go("message", "sending") /\ requestLock' = "message" /\ UNCHANGED <<mine, jobLock>>
      BY <1>0, <1>4, <2>2, Goes, LocksTaken DEF MessageEnters, Alone, Steps
    <2> QED
      BY <1>3, <1>4, <2>1, <2>2 DEF MessageEnters
  <1> QED
    BY <1>1, <1>2, <1>3, <1>4 DEF Message, MessageArrives, MessageUnknown, MessageRejected

LEMMA HandoffAlone ==
    ASSUME LocalShape, LockShape, PairShape, RequestShape, HandoffKnows, HandoffBegins \/ Handoff
    PROVE  Alone("handoff")
PROOF
  <1> DEFINE h == mine["handoff"]
             Changes(l) == l \in LocalRecs /\ mine' = [mine EXCEPT !["handoff"] = l]
  <1>0. "handoff" \in Operations /\ h \in LocalRecs
    BY DEF Operations, LocalShape
  <1>a. ASSUME NEW l, Changes(l), NEW s \in Steps, Go("handoff", s), UNCHANGED locks
        PROVE  Alone("handoff")
    BY <1>0, <1>a, Goes, LocksTaken DEF Alone, locks
  <1>b. CASE End("handoff")
    BY <1>0, <1>b, Ends
  <1>c. CASE \E s \in Steps : Go("handoff", s) /\ UNCHANGED <<mine, locks>>
    BY <1>0, <1>c, Goes, LocksTaken DEF Alone, locks
  <1>u. h.undo \in SUBSET Undos
    BY <1>0 DEF LocalRecs
  <1>1. CASE HandoffBegins
    <2>1. pair.worker \in Maybe(Workers) /\ Owns(pair.worker) \in BOOLEAN
      BY <1>1 DEF HandoffBegins, PairShape, PairRecords, Maybe, Owns
    <2>2. Changes([h EXCEPT !.thread = pair.worker, !.owned = Owns(pair.worker)])
      BY <1>0, <1>1, <2>1, LocalIs DEF HandoffBegins
    <2> QED
      BY <1>1, <1>a, <2>2 DEF HandoffBegins, Steps
  <1>2. CASE HandoffLocks
    <2>1. CASE End("handoff")
      BY <1>b, <2>1
    <2>2. CASE Go("handoff", "entering") /\ JobFree("handoff", h.thread) /\ UNCHANGED requestLock
               /\ mine' = [mine EXCEPT !["handoff"] = [h EXCEPT !.owned = Owns(h.thread)]]
               /\ jobLock' = [jobLock EXCEPT ![h.thread] = "handoff"]
      <3>1. h.thread \in Workers /\ Owns(h.thread) \in BOOLEAN
        BY <1>2 DEF HandoffLocks, HandoffKnows, Owns
      <3>2. LocalsAlone("handoff")
        BY <1>0, <2>2, <3>1, LocalIs, Goes DEF Steps
      <3>3. LocksAlone("handoff")
        BY <1>0, <2>2, <3>1, LocksTaken
      <3> QED
        BY <3>2, <3>3 DEF Alone
    <2> QED
      BY <1>2, <2>1, <2>2 DEF HandoffLocks
  <1>3. CASE HandoffEnters
    <2>1. CASE Go("handoff", "starting") /\ UNCHANGED <<mine, jobLock>>
               /\ (UNCHANGED requestLock \/ (requestLock = Free /\ requestLock' = "handoff"))
      BY <1>0, <2>1, Goes, LocksTaken DEF Alone, Steps
    <2> QED
      BY <1>3, <1>b, <2>1 DEF HandoffEnters
  <1>4. CASE HandoffStarts
    <2>1. ASSUME NEW w \in Workers, Go("handoff", "tracking"), UNCHANGED locks,
                 mine' = [mine EXCEPT !["handoff"] = [h EXCEPT !.next = w, !.undo = {"untrack", "delete"}]]
          PROVE  Alone("handoff")
      <3>1. w \in Maybe(Workers) /\ {"untrack", "delete"} \in SUBSET Undos
        BY DEF Maybe, Undos
      <3>2. Changes([h EXCEPT !.next = w, !.undo = {"untrack", "delete"}])
        BY <1>0, <2>1, <3>1, LocalIs
      <3> QED
        BY <1>a, <2>1, <3>2 DEF Steps
    <2> QED
      BY <1>4, <1>b, <2>1 DEF HandoffStarts
  <1>5. CASE HandoffAttaches
    <2>1. CASE Go("handoff", IF h.owned THEN "transferring" ELSE "flushing") /\ UNCHANGED locks
               /\ mine' = [mine EXCEPT !["handoff"] = [h EXCEPT !.before = pair, !.undo = h.undo \cup {"detach"}]]
      <3>1. pair \in Maybe(PairRecords) /\ h.undo \cup {"detach"} \in SUBSET Undos
        BY <1>u DEF PairShape, Undos
      <3>2. Changes([h EXCEPT !.before = pair, !.undo = h.undo \cup {"detach"}])
        BY <1>0, <2>1, <3>1, LocalIs
      <3> QED
        BY <1>a, <2>1, <3>2 DEF Steps
    <2>2. CASE Go("handoff", "undoing") /\ UNCHANGED <<mine, locks>>
      BY <1>c, <2>2 DEF Steps
    <2>3. CASE pair # Free /\ pair.worker = h.thread
      BY <1>5, <2>1, <2>3 DEF HandoffAttaches
    <2>4. CASE ~(pair # Free /\ pair.worker = h.thread)
      BY <1>5, <2>2, <2>4 DEF HandoffAttaches
    <2> QED
      BY <2>3, <2>4
  <1>6. CASE HandoffTransfers
    <2>1. CASE Go("handoff", "flushing") /\ UNCHANGED locks
               /\ mine' = [mine EXCEPT !["handoff"] = [h EXCEPT !.prior = request, !.undo = h.undo \cup {"return"}]]
      <3>1. request \in Maybe(NamedRequests) /\ h.undo \cup {"return"} \in SUBSET Undos
        BY <1>u DEF RequestShape, Undos
      <3>2. Changes([h EXCEPT !.prior = request, !.undo = h.undo \cup {"return"}])
        BY <1>0, <2>1, <3>1, LocalIs
      <3> QED
        BY <1>a, <2>1, <3>2 DEF Steps
    <2>2. CASE Go("handoff", "undoing") /\ UNCHANGED <<mine, locks>>
      BY <1>c, <2>2 DEF Steps
    <2>3. PICK ok \in BOOLEAN :
             /\ mine' = IF ok THEN [mine EXCEPT !["handoff"] = [h EXCEPT !.prior = request, !.undo = h.undo \cup {"return"}]]
                        ELSE mine
             /\ Go("handoff", IF ok THEN "flushing" ELSE "undoing") /\ UNCHANGED locks
      BY <1>6 DEF HandoffTransfers
    <2> QED
      BY <2>1, <2>2, <2>3
  <1>d. ASSUME NEW u \in SUBSET Undos, NEW s \in Steps, Go("handoff", s), UNCHANGED locks,
               mine' = [mine EXCEPT !["handoff"] = [h EXCEPT !.undo = u]]
        PROVE  Alone("handoff")
    BY <1>0, <1>a, <1>d, LocalIs
  <1>7. CASE HandoffRetires
    <2>1. h.undo \cup {"unretire"} \in SUBSET Undos
      BY <1>u DEF Undos
    <2> QED
      BY <1>7, <1>d, <2>1 DEF HandoffRetires, Steps
  <1>8. CASE HandoffReleases
    <2>1. h.undo \cup {"resupervise"} \in SUBSET Undos
      BY <1>u DEF Undos
    <2> QED
      BY <1>8, <1>b, <1>c, <1>d, <2>1 DEF HandoffReleases, Steps
  <1>9. CASE HandoffUndoes
    <2>1. CASE mine' = [mine EXCEPT !["handoff"] = [h EXCEPT !.undo = h.undo \ {NextUndo}]] /\ UNCHANGED <<at, locks>>
      <3>1. h.undo \ {NextUndo} \in SUBSET Undos
        BY <1>u
      <3>2. Changes([h EXCEPT !.undo = h.undo \ {NextUndo}])
        BY <1>0, <2>1, <3>1, LocalIs
      <3> QED
        BY <1>0, <2>1, <3>2, ChangesAtOne, LocksTaken DEF Alone, LocalsAlone, LocalShape, locks
    <2> QED
      BY <1>9, <1>b, <2>1 DEF HandoffUndoes
  <1> QED
    BY <1>1, <1>2, <1>3, <1>4, <1>5, <1>6, <1>7, <1>8, <1>9, <1>c
    DEF Handoff, HandoffTracks, HandoffFlushes, Steps

-----------------------------------------------------------------------------
(* The request after each kind of change.                                  *)

LEMMA RequestIs ==
    ASSUME NEW r \in Maybe(NamedRequests), r # Free
    PROVE  /\ r \in NamedRequests /\ r.thread \in Maybe(Workers) /\ r.workers \subseteq Workers
           /\ \A s \in Statuses :
                 [r EXCEPT !.status = s] \in NamedRequests /\ [r EXCEPT !.status = s].thread = r.thread
           /\ \A b \in BOOLEAN :
                 [r EXCEPT !.linked = b] \in NamedRequests /\ [r EXCEPT !.linked = b].thread = r.thread
           /\ \A s \in Statuses, t \in Maybe(Workers), b \in BOOLEAN :
                 /\ With(r, s, t, b) \in NamedRequests
                 /\ With(r, s, t, b).status = s /\ With(r, s, t, b).thread = t
           /\ r.linked \in BOOLEAN
PROOF
  <1>1. r \in NamedRequests
    BY DEF Maybe
  <1> QED
    BY <1>1 DEF NamedRequests, RequestRecords, With, Maybe

LEMMA RequestsAreSomething == \A r \in NamedRequests : r # Free /\ r \in Maybe(NamedRequests)
  BY FreeIsNothing DEF NamedRequests, Maybe

LEMMA WriteIs ==
    ASSUME RequestShape, closed' \in BOOLEAN, NEW r \in Maybe(NamedRequests), NEW ok \in BOOLEAN, Write(r, ok)
    PROVE  RequestShape' /\ request' = r /\ requestFile' = IF ok THEN r ELSE requestFile
  BY DEF RequestShape, Write

LEMMA WritePairIs ==
    ASSUME PairShape, NEW p \in Maybe(PairRecords), NEW ok \in BOOLEAN, WritePair(p, ok), queued \subseteq {"requests", "pairs"}
    PROVE  PairShape' /\ queued' \subseteq {"requests", "pairs"}
  BY DEF PairShape, WritePair

LEMMA StatusesAre == OpenStatuses \subseteq Statuses /\ {"pending", "dismissed", "discarded"} \subseteq Statuses
  BY DEF Statuses

-----------------------------------------------------------------------------
(* Approval.                                                               *)

LEMMA ApproveBeginsOwn ==
    ASSUME SourceInv, ApproveBegins
    PROVE  Fits("approve") /\ OwnPart("approve")
PROOF
  <1>0. RequestShape /\ PairShape /\ WorkShape /\ LocalShape /\ NamedWereStarted /\ ClosedIsOver
    BY DEF SourceInv
  <1>1. PICK ok \in BOOLEAN :
           /\ request # Free /\ request.status = "pending" /\ requestLock = Free
           /\ Write(With(request, "approved", request.thread, request.linked), ok)
           /\ IF ok THEN Go("approve", "starting") /\ requestLock' = "approve" ELSE UNCHANGED <<at, requestLock>>
           /\ UNCHANGED <<pairs, workers, mine, jobLock, closed>> /\ at["approve"] = "no"
    BY DEF ApproveBegins, Begin
  <1>2. request \in NamedRequests /\ With(request, "approved", request.thread, request.linked) \in NamedRequests
        /\ With(request, "approved", request.thread, request.linked).thread = request.thread
    BY <1>0, <1>1, RequestIs, StatusesAre DEF RequestShape, OpenStatuses
  <1>3. RequestShape' /\ request' # Free /\ request'.thread = request.thread
        /\ requestFile' \in {request', requestFile}
    BY <1>0, <1>1, <1>2, WriteIs, RequestsAreSomething DEF RequestShape
  <1>4. PairShape' /\ WorkShape' /\ UNCHANGED worker /\ ~closed
    BY <1>0, <1>1 DEF PairShape, WorkShape, pairs, workers, ClosedIsOver, Rested
  <1>5. Fits("approve")
    BY <1>3, <1>4 DEF Fits
  <1>6. ApproveKnows' /\ OwnTurn("approve")'
    BY <1>0, <1>1, <1>3 DEF ApproveKnows, OwnTurn, Inside, Purging, Discarding, Go, LocalShape, WithPrompt, Operations
  <1>7. NamesStarted(request)' /\ NamesStarted(requestFile)' /\ mine'["approve"].thread \in Started'
    BY <1>0, <1>1, <1>3, <1>4 DEF NamedWereStarted, NamesStarted, Started
  <1> QED
    BY <1>1, <1>3, <1>4, <1>5, <1>6, <1>7 DEF OwnPart, Discarding

\* An approval under way has the request, which is therefore not closed.
LEMMA ApproveHas ==
    ASSUME SourceInv, at["approve"] # "no"
    PROVE  /\ Inside("approve") /\ requestLock = "approve" /\ request # Free /\ request \in NamedRequests
           /\ ~closed
PROOF
  <1>1. Inside("approve") /\ ~Purging("approve") /\ "approve" \in Operations
    BY DEF Inside, Purging, Operations
  <1>2. requestLock = "approve" /\ request # Free /\ ~closed
    BY <1>1 DEF SourceInv, RequestTurns, OwnTurn, ClosedIsOver
  <1> QED
    BY <1>1, <1>2, RequestIs DEF SourceInv, RequestShape

LEMMA ApproveOwn ==
    ASSUME SourceInv, Approve
    PROVE  Fits("approve") /\ OwnPart("approve")
PROOF
  <1> DEFINE w0 == mine["approve"].thread
  <1>0. /\ RequestShape /\ PairShape /\ WorkShape /\ LocalShape /\ NamedWereStarted /\ ApproveKnows
        /\ "approve" \in Operations /\ w0 \in Maybe(Workers)
    BY DEF SourceInv, LocalShape, LocalRecs, Operations
  <1>1. at["approve"] # "no" /\ UNCHANGED closed
    BY DEF Approve, ApproveStarts, ApproveRefused, ApprovePrompts, ApprovePairs, ApproveSupervises,
           ApproveLinks, ApproveUnpairs, ApproveDeletes, ApproveReverts
  <1>2. Inside("approve") /\ requestLock = "approve" /\ request # Free /\ request \in NamedRequests /\ ~closed
    BY <1>1, ApproveHas
  <1>3. WorkShape' /\ \A w \in Workers : worker[w] # "none" => worker'[w] # "none"
    <2>1. CASE ApproveStarts
      BY <1>0, <2>1 DEF ApproveStarts, WorkShape
    <2>2. CASE ApprovePrompts
      BY <1>0, <2>2 DEF ApprovePrompts, WorkShape
    <2>3. CASE ApproveDeletes
      BY <1>0, <2>3 DEF ApproveDeletes, WorkShape
    <2>4. CASE ApproveSupervises
      BY <1>0, <2>4 DEF ApproveSupervises, WorkShape, ApproveKnows, WithPrompt
    <2>5. CASE ApproveUnpairs
      BY <1>0, <2>5 DEF ApproveUnpairs, WorkShape
    <2>6. CASE ApproveRefused \/ ApprovePairs \/ ApproveLinks \/ ApproveReverts
      BY <1>0, <2>6 DEF ApproveRefused, ApprovePairs, ApproveLinks, ApproveReverts, WorkShape, workers
    <2> QED
      BY <2>1, <2>2, <2>3, <2>4, <2>5, <2>6 DEF Approve
  <1>4. Started \subseteq Started'
    BY <1>3 DEF Started
  <1>5. \/ UNCHANGED requests
        \/ \E r \in NamedRequests, ok \in BOOLEAN : Write(r, ok) /\ r.thread \in Started'
    <2>0. {"running", "pending"} \subseteq Statuses /\ Free \in Maybe(Workers) /\ (pair # Free) \in BOOLEAN
      BY StatusesAre DEF OpenStatuses, Maybe
    <2>1. CASE ApproveStarts
      <3>1. PICK w \in Workers, ok \in BOOLEAN :
               Write(With(request, "running", w, request.linked), ok) /\ worker' = [worker EXCEPT ![w] = "idle"]
        BY <2>1 DEF ApproveStarts
      <3>2. w \in Started'
        BY <1>0, <3>1 DEF Started, WorkShape
      <3>3. With(request, "running", w, request.linked) \in NamedRequests
            /\ With(request, "running", w, request.linked).thread = w
        BY <1>2, <2>0, RequestIs, RequestsAreSomething DEF Maybe
      <3> QED
        BY <3>1, <3>2, <3>3
    <2>2. CASE ApproveLinks
      <3>1. PICK ok \in BOOLEAN : Write([request EXCEPT !.linked = TRUE], ok)
        BY <2>2 DEF ApproveLinks
      <3>2. [request EXCEPT !.linked = TRUE] \in NamedRequests
            /\ [request EXCEPT !.linked = TRUE].thread = request.thread
        BY <1>2, RequestIs, RequestsAreSomething
      <3>3. request.thread \in Started'
        BY <1>0, <1>2, <1>4 DEF NamedWereStarted, NamesStarted
      <3> QED
        BY <3>1, <3>2, <3>3
    <2>3. CASE ApproveReverts
      <3>1. /\ With(request, "pending", Free, FALSE) \in NamedRequests
            /\ With(request, "pending", Free, FALSE).thread = Free
            /\ With(request, "running", w0, pair # Free) \in NamedRequests
            /\ With(request, "running", w0, pair # Free).thread = w0
        <4> DEFINE b == pair # Free
        <4>1. b \in BOOLEAN
          OBVIOUS
        <4> HIDE DEF b
        <4>2. \A x \in Statuses, t \in Maybe(Workers), c \in BOOLEAN :
                 With(request, x, t, c) \in NamedRequests /\ With(request, x, t, c).thread = t
          BY <1>2, RequestIs, RequestsAreSomething
        <4>3. FALSE \in BOOLEAN
          OBVIOUS
        <4>4. /\ With(request, "pending", Free, FALSE) \in NamedRequests
              /\ With(request, "pending", Free, FALSE).thread = Free
          BY <2>0, <4>2, <4>3, Zenon
        <4>5. /\ With(request, "running", w0, b) \in NamedRequests
              /\ With(request, "running", w0, b).thread = w0
          BY <1>0, <2>0, <4>1, <4>2, Zenon
        <4> QED
          BY <4>4, <4>5 DEF b
      <3>2. Free \in Started' /\ w0 \in Started'
        BY <1>0, <1>4 DEF NamedWereStarted, Started
      <3>3. CASE at["approve"] = "reverting"
        BY <2>3, <3>1, <3>2, <3>3 DEF ApproveReverts
      <3>4. CASE at["approve"] # "reverting"
        BY <2>3, <3>1, <3>2, <3>4 DEF ApproveReverts
      <3> QED
        BY <3>3, <3>4
    <2>4. CASE ApproveRefused \/ ApprovePrompts \/ ApprovePairs \/ ApproveSupervises \/ ApproveUnpairs \/ ApproveDeletes
      BY <2>4 DEF ApproveRefused, ApprovePrompts, ApprovePairs, ApproveSupervises, ApproveUnpairs, ApproveDeletes
    <2> QED
      BY <2>1, <2>2, <2>3, <2>4 DEF Approve
  <1>6. PairShape' /\ queued' \subseteq {"requests", "pairs"}
    <2>1. CASE ApprovePairs
      <3>1. [worker |-> w0, from |-> Free] \in Maybe(PairRecords)
        BY <1>0 DEF PairRecords, Maybe
      <3> QED
        BY <1>0, <2>1, <3>1, WritePairIs DEF ApprovePairs, RequestShape
    <2>2. CASE ApproveUnpairs
      BY <1>0, <2>2, WritePairIs DEF ApproveUnpairs, RequestShape, Maybe, PairShape, pairs
    <2>3. CASE UNCHANGED pairs /\ queued' \subseteq queued
      BY <1>0, <2>3 DEF PairShape, pairs, RequestShape
    <2> QED
      BY <2>1, <2>2, <2>3 DEF Approve, ApproveStarts, ApproveRefused, ApprovePrompts, ApproveSupervises,
         ApproveLinks, ApproveDeletes, ApproveReverts, Write
  <1>7. RequestShape' /\ request' # Free /\ request'.thread \in Started' /\ NamesStarted(requestFile)'
    <2>1. CASE UNCHANGED requests
      BY <1>0, <1>1, <1>2, <1>4, <1>6, <2>1 DEF RequestShape, requests, NamedWereStarted, NamesStarted
    <2>2. ASSUME NEW r \in NamedRequests, NEW ok \in BOOLEAN, Write(r, ok), r.thread \in Started'
          PROVE  RequestShape' /\ request' # Free /\ request'.thread \in Started' /\ NamesStarted(requestFile)'
      <3>1. RequestShape' /\ request' = r /\ requestFile' \in {r, requestFile}
        BY <1>0, <1>1, <2>2, WriteIs, RequestsAreSomething DEF RequestShape
      <3> QED
        BY <1>0, <1>4, <2>2, <3>1, RequestsAreSomething DEF NamedWereStarted, NamesStarted
    <2> QED
      BY <1>5, <2>1, <2>2
  <1>8. ApproveKnows' /\ mine'["approve"].thread \in Started'
    <2>1. CASE ApproveStarts
      BY <1>0, <2>1 DEF ApproveStarts, ApproveKnows, Started, WorkShape, LocalShape, LocalRecs
    <2>2. CASE End("approve")
      BY <1>0, <2>2, Ends DEF ApproveKnows, Started, NoLocals, WithPrompt, SourceInv
    <2>3. CASE ApproveRefused \/ (UNCHANGED mine /\ at["approve"] \in WithPrompt)
      BY <1>0, <1>4, <2>3 DEF ApproveRefused, Go, LocalShape, ApproveKnows, WithPrompt, NamedWereStarted
    <2> QED
      BY <2>1, <2>2, <2>3 DEF Approve, ApprovePrompts, ApprovePairs, ApproveSupervises, ApproveLinks,
         ApproveUnpairs, ApproveDeletes, ApproveReverts, WithPrompt
  <1>9. OwnTurn("approve")'
    <2>1. CASE End("approve")
      <3>1. at'["approve"] = "no"
        BY <1>0, <2>1, Ends DEF SourceInv
      <3> QED
        BY <3>1 DEF OwnTurn, Inside, Purging, Discarding
    <2>2. CASE UNCHANGED locks
      BY <1>2, <1>7, <2>2 DEF OwnTurn, locks
    <2> QED
      BY <2>1, <2>2 DEF Approve, ApproveStarts, ApproveRefused, ApprovePrompts, ApprovePairs,
         ApproveSupervises, ApproveLinks, ApproveUnpairs, ApproveDeletes, ApproveReverts
  <1> QED
    BY <1>1, <1>2, <1>3, <1>6, <1>7, <1>8, <1>9 DEF OwnPart, Fits, Discarding, NamesStarted

-----------------------------------------------------------------------------
(* Discarding.                                                             *)

\* What a step that leaves a file, or the Workers, alone keeps of the types.
LEMMA ShapesKept ==
    ASSUME SourceInv, closed' \in BOOLEAN
    PROVE  /\ UNCHANGED requests /\ queued' \subseteq {"requests", "pairs"} => RequestShape'
           /\ UNCHANGED pairs => PairShape'
           /\ UNCHANGED workers => WorkShape'
PROOF
  <1>1. RequestShape /\ PairShape /\ WorkShape
    BY DEF SourceInv
  <1> QED
    BY <1>1 DEF RequestShape, PairShape, WorkShape, requests, pairs, workers

\* A step that leaves the request alone, sets no Worker to work but a fresh one, and
\* unmakes none.
LEMMA RequestKept ==
    ASSUME SourceInv, NEW o, UNCHANGED <<requests, closed>>,
           \A w \in Workers : worker'[w] # worker[w] =>
               worker'[w] # "none" /\ (worker'[w] = "running" => worker[w] = "none")
    PROVE  /\ Fits(o) /\ Started \subseteq Started'
           /\ NamesStarted(request)' /\ NamesStarted(requestFile)'
           /\ closed' => closed /\ request' = requestFile' /\ Rested(request)'
PROOF
  <1>0. RequestShape /\ NamedWereStarted /\ ClosedIsOver
    BY DEF SourceInv
  <1>1. Fits(o)
    BY DEF Fits, requests
  <1>2. Started \subseteq Started'
    BY <1>1, StartedStays
  <1>3. NamesStarted(request)' /\ NamesStarted(requestFile)'
    BY <1>0, <1>2 DEF NamedWereStarted, NamesStarted, requests
  <1>4. request # Free => request.thread = Free \/ request.thread \in Workers
    BY <1>0, RequestIs DEF RequestShape, Maybe
  <1>5. closed' => closed /\ request' = requestFile' /\ Rested(request)'
    BY <1>0, <1>4 DEF ClosedIsOver, Rested, requests, NamedWereStarted, NamesStarted, Started
  <1> QED
    BY <1>1, <1>2, <1>3, <1>5

\* A discard past its wait has the request, whose Worker it holds.
LEMMA DiscardHas ==
    ASSUME SourceInv, NEW o \in Discarding, at[o] \in Closing
    PROVE  /\ Inside(o) /\ requestLock = o /\ request # Free /\ request \in NamedRequests /\ ~closed
           /\ mine[o].thread = request.thread /\ request.thread \in Maybe(Workers)
           /\ request.thread # Free => jobLock[request.thread] = o
PROOF
  <1>1. Inside(o) /\ ~Purging(o) /\ o \in Operations
    BY DEF Inside, Purging, Operations, Discarding, Closing
  <1>2. requestLock = o /\ request # Free /\ ~closed
    BY <1>1 DEF SourceInv, RequestTurns, OwnTurn, ClosedIsOver
  <1>3. DiscardTurn(o)
    BY DEF SourceInv, JobTurns
  <1>4. request \in NamedRequests /\ request.thread \in Maybe(Workers)
    BY <1>2, RequestIs DEF SourceInv, RequestShape
  <1> QED
    BY <1>1, <1>2, <1>3, <1>4 DEF DiscardTurn

\* A discard that is not, or no more, past its wait.
LEMMA OutOfTurn ==
    ASSUME NEW o \in Discarding, at'[o] \in {"no", "locking", "deleting"}
    PROVE  OwnTurn(o)' /\ DiscardTurn(o)' /\ ~Inside(o)'
  BY DEF OwnTurn, DiscardTurn, Inside, Purging, Closing, Discarding

LEMMA DiscardOwn ==
    ASSUME SourceInv, NEW o \in Discarding, (o = "discard" /\ DiscardBegins) \/ Discard(o)
    PROVE  Fits(o) /\ OwnPart(o)
PROOF
  <1> DEFINE Quiet == UNCHANGED <<requests, pairs, queued, workers, closed>>
             Own == OwnTurn(o)' /\ DiscardTurn(o)' /\ (closed' => ~Inside(o)')
  <1>0. /\ RequestShape /\ PairShape /\ WorkShape /\ LocalShape /\ LockShape /\ NamedWereStarted /\ RequestTurns
        /\ o \in Operations /\ mine[o].thread \in Maybe(Workers) /\ DiscardTurn(o) /\ ClosedIsOver
        /\ queued \subseteq {"requests", "pairs"} /\ closed \in BOOLEAN
    BY DEF SourceInv, LocalShape, LocalRecs, Discarding, Operations, JobTurns, RequestShape
  <1>a. o # "approve" /\ o # "message" /\ o # "handoff"
    BY DEF Discarding
  <1>e. ASSUME \/ at' = [at EXCEPT ![o] = "no"]
               \/ at' = [at EXCEPT ![o] = "locking"]
               \/ at' = [at EXCEPT ![o] = "deleting"]
        PROVE  Own
    BY <1>0, <1>e, OutOfTurn DEF LocalShape
  <1>q. ASSUME UNCHANGED <<requests, worker, reported, retired, closed>>, callback' \subseteq Workers, Own,
               PairShape', queued' \subseteq {"requests", "pairs"}
        PROVE  Fits(o) /\ OwnPart(o)
    <2>1. RequestShape' /\ WorkShape'
      BY <1>0, <1>q, ShapesKept DEF WorkShape
    <2>2. /\ Fits(o) /\ NamesStarted(request)' /\ NamesStarted(requestFile)'
          /\ closed' => closed /\ request' = requestFile' /\ Rested(request)'
      BY <1>q, RequestKept
    <2> QED
      BY <1>a, <1>q, <2>1, <2>2 DEF OwnPart
  <1>p. ASSUME Quiet, Own PROVE Fits(o) /\ OwnPart(o)
    BY <1>0, <1>p, <1>q, ShapesKept DEF workers, WorkShape
  <1>1. CASE o = "discard" /\ DiscardBegins
    BY <1>1, <1>e, <1>p DEF DiscardBegins, Go
  <1>2. CASE DiscardLocks(o)
    <2>1. at'[o] = "entering" /\ UNCHANGED mine /\ Quiet
      BY <1>0, <1>2 DEF DiscardLocks, Go, LocalShape
    <2>2. mine[o].thread # Free => jobLock'[mine[o].thread] = o
      BY <1>0, <1>2 DEF DiscardLocks, LockShape, Maybe
    <2>3. OwnTurn(o)' /\ DiscardTurn(o)' /\ ~Inside(o)'
      BY <2>1, <2>2, <1>a DEF OwnTurn, DiscardTurn, Inside, Purging, Closing
    <2> QED
      BY <1>p, <2>1, <2>3
  <1>3. CASE DiscardEnters(o)
    <2>1. CASE at' = [at EXCEPT ![o] = "quiescing"] /\ Open /\ request.thread = mine[o].thread
               /\ requestLock' = o /\ UNCHANGED <<mine, jobLock>>
      <3>1. Quiet /\ at[o] = "entering"
        BY <1>3 DEF DiscardEnters
      <3>2. OwnTurn(o)'
        BY <2>1, <3>1 DEF OwnTurn, Open, requests
      <3>3. DiscardTurn(o)'
        BY <1>0, <2>1, <3>1 DEF DiscardTurn, LocalShape, requests, Closing
      <3>4. ~closed
        BY <1>0, <2>1 DEF ClosedIsOver, Rested, Open, OpenStatuses
      <3> QED
        BY <1>p, <3>1, <3>2, <3>3, <3>4
    <2> QED
      BY <1>3, <1>e, <1>p, <2>1 DEF DiscardEnters, Go, End, Open
  <1>4. CASE DiscardQuiesces(o)
    <2>1. at[o] = "quiescing" /\ Quiet
      BY <1>4 DEF DiscardQuiesces
    <2>2. CASE at' = [at EXCEPT ![o] = "stopping"] /\ UNCHANGED <<mine, locks>>
      <3>1. OwnTurn(o)' /\ ~closed
        BY <2>1, <2>2, DiscardHas DEF OwnTurn, requests, locks, Closing
      <3>2. DiscardTurn(o)'
        BY <1>0, <2>1, <2>2 DEF DiscardTurn, LocalShape, requests, locks, Closing
      <3> QED
        BY <1>p, <2>1, <3>1, <3>2
    <2> QED
      BY <1>4, <1>e, <1>p, <2>1, <2>2 DEF DiscardQuiesces, Go, End
  <1>5. CASE DiscardStops(o)
    <2> DEFINE t == mine[o].thread
    <2>1. /\ at[o] = "stopping" /\ UNCHANGED <<requests, pairs, queued, reported, retired, callback, closed>>
          /\ worker' \in {worker, [worker EXCEPT ![t] = "idle"]}
          /\ worker' # worker => t \in Workers /\ worker[t] = "running"
          /\ \/ End(o)
             \/ at' = [at EXCEPT ![o] = "unpairing"] /\ UNCHANGED <<mine, locks>>
                /\ (t # Free => worker'[t] # "running")
      BY <1>0, <1>5 DEF DiscardStops, Go, WorkShape, Maybe
    <2>2. WorkShape' /\ \A w \in Workers : worker'[w] = worker[w] \/ (worker'[w] = "idle" /\ worker[w] # "none")
      BY <1>0, <2>1 DEF WorkShape
    <2>3. /\ Fits(o) /\ NamesStarted(request)' /\ NamesStarted(requestFile)'
          /\ closed' => closed /\ request' = requestFile' /\ Rested(request)'
      BY <2>1, <2>2, RequestKept
    <2>4. RequestShape' /\ PairShape'
      BY <1>0, <2>1, ShapesKept
    <2>5. ~closed
      BY <2>1, DiscardHas DEF Closing
    <2>6. OwnTurn(o)' /\ DiscardTurn(o)'
      <3>1. CASE End(o)
        BY <1>e, <3>1 DEF End
      <3>2. CASE at' = [at EXCEPT ![o] = "unpairing"] /\ UNCHANGED <<mine, locks>> /\ (t # Free => worker'[t] # "running")
        <4>1. OwnTurn(o)'
          BY <2>1, <3>2, DiscardHas DEF OwnTurn, requests, locks, Closing
        <4>2. DiscardTurn(o)'
          BY <1>0, <2>1, <3>2 DEF DiscardTurn, LocalShape, requests, locks, Closing
        <4> QED
          BY <4>1, <4>2
      <3> QED
        BY <2>1, <3>1, <3>2
    <2> QED
      BY <1>a, <2>1, <2>2, <2>3, <2>4, <2>5, <2>6 DEF OwnPart
  <1>6. CASE DiscardUnpairs(o)
    <2>1. at[o] = "unpairing" /\ UNCHANGED <<requests, worker, reported, retired, closed>>
      BY <1>6 DEF DiscardUnpairs
    <2>2. callback' \subseteq Workers /\ PairShape' /\ queued' \subseteq {"requests", "pairs"}
      BY <1>0, <1>6, WritePairIs DEF DiscardUnpairs, WorkShape, PairShape, pairs, Maybe
    <2>3. CASE at' = [at EXCEPT ![o] = "closing"] /\ UNCHANGED <<mine, locks>>
      <3>1. OwnTurn(o)' /\ ~closed
        BY <2>1, <2>3, DiscardHas DEF OwnTurn, requests, locks, Closing
      <3>2. DiscardTurn(o)'
        BY <1>0, <2>1, <2>3 DEF DiscardTurn, LocalShape, requests, locks, Closing
      <3> QED
        BY <1>q, <2>1, <2>2, <3>1, <3>2
    <2> QED
      BY <1>6, <1>e, <1>q, <2>1, <2>2, <2>3 DEF DiscardUnpairs, Go, End
  <1>7. CASE DiscardCloses(o)
    <2> DEFINE r == With(request, "discarded", request.thread, FALSE)
    <2>1. PICK ok \in BOOLEAN :
             /\ at[o] = "closing" /\ Write(r, ok) /\ closed' = ok /\ UNCHANGED <<pairs, workers>>
             /\ at' \in {[at EXCEPT ![o] = "deleting"], [at EXCEPT ![o] = "no"]}
      BY <1>7 DEF DiscardCloses, Go, End
    <2>2. /\ Inside(o) /\ request # Free /\ request \in NamedRequests /\ ~closed
          /\ mine[o].thread = request.thread /\ request.thread \in Maybe(Workers)
      BY <2>1, DiscardHas DEF Closing
    <2>3. r \in NamedRequests /\ r.status = "discarded" /\ r.thread = request.thread
      <3>1. FALSE \in BOOLEAN /\ "discarded" \in Statuses
        BY StatusesAre
      <3>2. \A x \in Statuses, t \in Maybe(Workers), c \in BOOLEAN :
               With(request, x, t, c) \in NamedRequests /\ With(request, x, t, c).thread = t
               /\ With(request, x, t, c).status = x
        BY <2>2, RequestIs, RequestsAreSomething
      <3> QED
        BY <2>2, <3>1, <3>2, Zenon
    <2>4. RequestShape' /\ request' = r /\ requestFile' \in {r, requestFile} /\ (ok => requestFile' = r)
      BY <1>0, <2>1, <2>3, WriteIs, RequestsAreSomething DEF RequestShape
    <2>5. PairShape' /\ WorkShape' /\ UNCHANGED worker
      BY <1>0, <2>1, ShapesKept DEF workers
    <2> HIDE DEF r
    <2>6. Fits(o)
      BY <2>2, <2>3, <2>4, <2>5 DEF Fits
    <2>7. NamesStarted(request)' /\ NamesStarted(requestFile)'
      BY <1>0, <2>2, <2>3, <2>4, <2>5 DEF NamedWereStarted, NamesStarted, Started
    <2>8. closed' => request' = requestFile' /\ Rested(request)'
      BY <1>0, <2>1, <2>2, <2>3, <2>4, <2>5 DEF Rested, DiscardTurn
    <2>9. OwnTurn(o)' /\ DiscardTurn(o)' /\ ~Inside(o)'
      BY <1>0, <2>1, OutOfTurn DEF LocalShape
    <2> QED
      BY <1>0, <1>a, <2>2, <2>4, <2>5, <2>6, <2>7, <2>8, <2>9 DEF OwnPart
  <1> QED
    BY <1>1, <1>2, <1>3, <1>4, <1>5, <1>6, <1>7 DEF Discard

-----------------------------------------------------------------------------
(* Deletion.                                                               *)

\* A deletion that purges has the request.
LEMMA DeleteHas ==
    ASSUME SourceInv, at["delete"] \in {"purging", "unsupervising"}
    PROVE  Inside("delete") /\ Purging("delete") /\ requestLock = "delete" /\ request # Free /\ request \in NamedRequests
PROOF
  <1>1. Inside("delete") /\ Purging("delete") /\ "delete" \in Operations
    BY DEF Inside, Purging, Operations
  <1>2. requestLock = "delete" /\ request # Free
    BY <1>1 DEF SourceInv, RequestTurns, OwnTurn
  <1> QED
    BY <1>1, <1>2, RequestIs DEF SourceInv, RequestShape

LEMMA DeleteOwn ==
    ASSUME SourceInv, DeleteBegins \/ Delete
    PROVE  Fits("delete") /\ OwnPart("delete")
PROOF
  <1>0. /\ RequestShape /\ PairShape /\ WorkShape /\ LocalShape /\ NamedWereStarted /\ ClosedIsOver
        /\ "delete" \in Operations /\ "delete" \in Discarding
        /\ queued \subseteq {"requests", "pairs"} /\ closed \in BOOLEAN
    BY DEF SourceInv, RequestShape, Operations, Discarding
  <1> DEFINE Own == OwnTurn("delete")' /\ DiscardTurn("delete")' /\ (closed' => (Inside("delete") => Purging("delete"))')
  <1>1. UNCHANGED <<pairs, closed>> /\ queued' \subseteq queued /\ PairShape'
    <2>1. UNCHANGED <<pairs, closed>> /\ queued' \subseteq queued
      BY DEF Delete, DeleteBegins, DeleteEnters, DeleteWorker, DeleteUnsupervises, DeleteRemoves, Write
    <2> QED
      BY <1>0, <2>1 DEF PairShape, pairs
  <1>e. ASSUME at'["delete"] \in {"no", "locking", "deleting"} PROVE Own
    BY <1>0, <1>e, OutOfTurn
  <1>p. ASSUME at'["delete"] \in {"purging", "unsupervising"}, requestLock' = "delete", request' # Free PROVE Own
    BY <1>p DEF OwnTurn, DiscardTurn, Inside, Purging, Closing, Discarding
  <1>2. CASE UNCHANGED requests
    <2>1. /\ WorkShape'
          /\ \A w \in Workers : worker'[w] = worker[w] \/ (worker'[w] \in {"idle", "gone"} /\ worker[w] # "none")
      <3>1. CASE DeleteWorker
        <4>1. PICK w \in Workers : Exists(w) /\ worker' \in {worker, [worker EXCEPT ![w] = "gone"]}
                                   /\ UNCHANGED <<reported, retired, callback>>
          BY <3>1 DEF DeleteWorker
        <4> QED
          BY <1>0, <4>1 DEF WorkShape, Exists
      <3>2. CASE UNCHANGED <<worker, reported, retired>> /\ callback' \subseteq callback
        BY <1>0, <3>2 DEF WorkShape
      <3> QED
        BY <3>1, <3>2 DEF Delete, DeleteBegins, DeleteEnters, DeleteUnsupervises, DeleteRemoves, workers
    <2>2. /\ Fits("delete") /\ NamesStarted(request)' /\ NamesStarted(requestFile)'
          /\ closed' => closed /\ request' = requestFile' /\ Rested(request)'
      BY <1>1, <1>2, <2>1, RequestKept
    <2>3. RequestShape'
      BY <1>0, <1>1, <1>2, ShapesKept
    <2>4. Own
      <3>1. CASE at'["delete"] \in {"no", "locking", "deleting"}
        BY <1>e, <3>1
      <3>2. CASE at["delete"] \in {"purging", "unsupervising"} /\ at'["delete"] \in {"purging", "unsupervising"}
                 /\ UNCHANGED requestLock
        BY <1>2, <1>p, <3>2, DeleteHas DEF requests
      <3>3. CASE at'["delete"] = "purging" /\ requestLock' = "delete" /\ request # Free
        BY <1>2, <1>p, <3>3 DEF requests
      <3>4. at \in [Operations -> Steps]
        BY <1>0 DEF LocalShape
      <3> QED
        BY <1>0, <3>1, <3>2, <3>3, <3>4
        DEF Delete, DeleteBegins, DeleteEnters, DeleteWorker, DeleteUnsupervises, DeleteRemoves, Go, End, locks
    <2> QED
      BY <1>0, <1>1, <2>1, <2>2, <2>3, <2>4 DEF OwnPart
  <1>3. CASE DeleteEnters /\ ~UNCHANGED requests
    <2>1. PICK ok \in BOOLEAN :
             /\ request # Free /\ Open /\ pair # Free /\ pair.worker # Free
             /\ Write([request EXCEPT !.workers = request.workers \cup {pair.worker}], ok)
             /\ UNCHANGED workers /\ at'["delete"] \in {"no", "locking"}
      BY <1>0, <1>3 DEF DeleteEnters, Go, End, LocalShape, requests
    <2>2. request \in NamedRequests /\ pair.worker \in Workers
      BY <1>0, <2>1, RequestIs DEF RequestShape, PairShape, PairRecords, Maybe
    <2> DEFINE r == [request EXCEPT !.workers = request.workers \cup {pair.worker}]
    <2>3. r \in NamedRequests /\ r.thread = request.thread
      BY <2>2 DEF NamedRequests, RequestRecords
    <2>4. RequestShape' /\ request' = r /\ requestFile' \in {r, requestFile}
      BY <1>0, <1>1, <2>1, <2>3, WriteIs, RequestsAreSomething DEF RequestShape
    <2> HIDE DEF r
    <2>5. ~closed /\ WorkShape' /\ UNCHANGED worker
      BY <1>0, <1>1, <2>1, ShapesKept DEF ClosedIsOver, Rested, Open, OpenStatuses, workers
    <2>6. Fits("delete") /\ NamesStarted(request)' /\ NamesStarted(requestFile)'
      BY <1>0, <2>1, <2>3, <2>4, <2>5, RequestsAreSomething DEF Fits, NamedWereStarted, NamesStarted, Started
    <2> QED
      BY <1>0, <1>1, <1>e, <2>1, <2>4, <2>5, <2>6 DEF OwnPart
  <1>4. CASE DeleteRemoves /\ ~UNCHANGED requests
    <2>1. /\ at["delete"] = "purging" /\ Write(Free, TRUE) /\ UNCHANGED workers /\ at'["delete"] = "no"
      BY <1>0, <1>4 DEF DeleteRemoves, End, LocalShape
    <2>2. RequestShape' /\ request' = Free /\ requestFile' = Free
      BY <1>0, <1>1, <2>1 DEF Write, RequestShape, Maybe
    <2>3. Inside("delete")
      BY <2>1, DeleteHas
    <2>4. Fits("delete") /\ WorkShape'
      BY <1>0, <1>1, <2>1, <2>3, ShapesKept DEF Fits, workers
    <2> QED
      BY <1>0, <1>1, <1>e, <2>1, <2>2, <2>3, <2>4 DEF OwnPart, NamesStarted, Rested
  <1> QED
    BY <1>2, <1>3, <1>4 DEF Delete, DeleteBegins, DeleteWorker, DeleteUnsupervises

-----------------------------------------------------------------------------
(* Messages.                                                               *)

LEMMA MessageOwn ==
    ASSUME SourceInv, MessageBegins \/ Message
    PROVE  Fits("message") /\ OwnPart("message")
PROOF
  <1> DEFINE w0 == mine["message"].thread
  <1>0. /\ RequestShape /\ PairShape /\ WorkShape /\ LocalShape /\ LockShape /\ NamedWereStarted /\ ClosedIsOver
        /\ MessageKnows /\ MessageTurn /\ "message" \in Operations /\ "message" \notin Discarding
        /\ queued \subseteq {"requests", "pairs"} /\ closed \in BOOLEAN
    BY DEF SourceInv, JobTurns, RequestShape, Operations, Discarding
  <1>1. /\ UNCHANGED <<pairs, reported, retired, callback, closed>> /\ queued' \subseteq queued /\ PairShape'
    <2>1. UNCHANGED <<pairs, reported, retired, callback, closed>> /\ queued' \subseteq queued
      BY DEF MessageBegins, Message, MessageLocks, MessageEnters, MessageArrives, MessageUnknown, MessageRejected, workers
    <2> QED
      BY <1>0, <2>1 DEF PairShape, pairs
  <1>2. OwnTurn("message")' /\ ~Inside("message")'
    BY DEF OwnTurn, Inside, Purging, Discarding
  <1>3. MessageKnows' /\ MessageTurn'
    <2>1. CASE MessageBegins
      BY <1>0, <2>1 DEF MessageBegins, Go, LocalShape, LocalRecs, MessageKnows, MessageTurn, PairShape, PairRecords, Maybe
    <2>2. CASE MessageLocks
      BY <1>0, <2>2 DEF MessageLocks, Go, LocalShape, MessageKnows, MessageTurn, LockShape
    <2>3. CASE End("message")
      BY <1>0, <2>3, Ends DEF MessageKnows, MessageTurn
    <2>4. CASE MessageEnters /\ ~End("message")
      <3>1. /\ at["message"] = "entering" /\ UNCHANGED jobLock /\ at'["message"] = "sending"
            /\ mine' \in {mine, [mine EXCEPT !["message"].owned = TRUE]}
        BY <1>0, <2>4 DEF MessageEnters, Go, LocalShape
      <3>2. mine'["message"].thread = w0
        BY <1>0, <3>1 DEF LocalShape, LocalRecs
      <3> QED
        BY <1>0, <3>1, <3>2 DEF MessageKnows, MessageTurn
    <2> QED
      BY <2>1, <2>2, <2>3, <2>4 DEF Message, MessageArrives, MessageUnknown, MessageRejected
  <1>4. CASE UNCHANGED <<requests, worker>>
    <2>1. /\ Fits("message") /\ NamesStarted(request)' /\ NamesStarted(requestFile)'
          /\ closed' => closed /\ request' = requestFile' /\ Rested(request)'
      BY <1>1, <1>4, RequestKept
    <2>2. RequestShape' /\ WorkShape'
      BY <1>0, <1>1, <1>4, ShapesKept DEF workers
    <2> QED
      BY <1>0, <1>1, <1>2, <1>3, <2>1, <2>2 DEF OwnPart
  \* The Worker is set to work: a discarded request refuses the message.
  <1>5. CASE MessageArrives
    <2>1. /\ at["message"] = "sending" /\ ~Refuses(w0) /\ worker' = [worker EXCEPT ![w0] = "running"]
          /\ UNCHANGED <<requests, queued, pairs, reported, retired, callback>>
      BY <1>5 DEF MessageArrives
    <2>2. w0 \in Workers /\ jobLock[w0] = "message" /\ worker[w0] # "none"
      BY <1>0, <2>1 DEF MessageKnows, MessageTurn, Refuses, Exists
    <2>3. RequestShape' /\ WorkShape'
      BY <1>0, <1>1, <2>1, <2>2, ShapesKept DEF WorkShape
    <2>4. Fits("message")
      BY <1>0, <2>1, <2>2 DEF Fits, WorkShape, requests
    <2>5. NamesStarted(request)' /\ NamesStarted(requestFile)'
      BY <1>0, <2>1, <2>4, StartedStays DEF NamedWereStarted, NamesStarted, requests
    <2>6. ASSUME closed' PROVE request' = requestFile' /\ Rested(request)'
      <3>1. request = requestFile /\ Rested(request) /\ UNCHANGED requests
        BY <1>0, <1>1, <2>1, <2>6 DEF ClosedIsOver
      <3>2. ASSUME request # Free, request.thread # Free PROVE request.thread # w0 /\ request.thread \in Workers
        BY <1>0, <2>1, <3>1, <3>2, RequestIs DEF RequestShape, NamedRequests, Refuses, Rested, Maybe
      <3> QED
        BY <1>0, <2>1, <2>2, <3>1, <3>2 DEF Rested, requests, WorkShape
    <2> QED
      BY <1>0, <1>1, <1>2, <1>3, <2>3, <2>4, <2>5, <2>6 DEF OwnPart
  \* The request is set back to work, or back to ready.
  <1>6. CASE ~UNCHANGED requests /\ UNCHANGED worker
    <2>1. request # Free /\ (closed => request.status # "discarded") /\ requestFile' = request'
          /\ \E s \in Statuses : request' \in {request, [request EXCEPT !.status = s]}
      <3>1. CASE MessageEnters
        <4>1. request # Free /\ request.status = "changes_ready" /\ requestFile' = request'
              /\ request' \in {request, [request EXCEPT !.status = "running"]}
          BY <1>6, <3>1 DEF MessageEnters, requests
        <4> QED
          BY <4>1 DEF Statuses, OpenStatuses
      <3>2. CASE MessageRejected
        <4>1. request # Free /\ request.status = "running" /\ requestFile' = request'
              /\ request' \in {request, [request EXCEPT !.status = "changes_ready"]}
          BY <1>6, <3>2 DEF MessageRejected, requests
        <4> QED
          BY <4>1 DEF Statuses, OpenStatuses
      <3> QED
        BY <1>6, <3>1, <3>2 DEF Message, MessageBegins, MessageLocks, MessageArrives, MessageUnknown
    <2>2. request' \in NamedRequests /\ request' # Free /\ request'.thread = request.thread
      <3>1. PICK s \in Statuses : request' \in {request, [request EXCEPT !.status = s]}
        BY <2>1
      <3>2. request \in NamedRequests
            /\ [request EXCEPT !.status = s] \in NamedRequests /\ [request EXCEPT !.status = s].thread = request.thread
        BY <1>0, <2>1, RequestIs DEF RequestShape
      <3> QED
        BY <3>1, <3>2, RequestsAreSomething
    <2>3. RequestShape' /\ WorkShape'
      BY <1>0, <1>1, <1>6, <2>1, <2>2, ShapesKept, RequestsAreSomething DEF RequestShape, workers
    <2>4. Fits("message")
      BY <1>6, <2>2 DEF Fits
    <2>5. NamesStarted(request)' /\ NamesStarted(requestFile)'
      BY <1>0, <1>6, <2>1, <2>2 DEF NamedWereStarted, NamesStarted, Started
    <2>6. ~closed'
      BY <1>0, <1>1, <2>1 DEF ClosedIsOver, Rested
    <2> QED
      BY <1>0, <1>1, <1>2, <1>3, <2>3, <2>4, <2>5, <2>6 DEF OwnPart
  <1> QED
    BY <1>4, <1>5, <1>6 DEF Message, MessageBegins, MessageLocks, MessageEnters, MessageUnknown, MessageRejected, workers

-----------------------------------------------------------------------------
(* Handoff.                                                                *)

\* What is undone next is among what has to be undone.
LEMMA NextUndoIs ==
    ASSUME mine["handoff"].undo # {}, mine["handoff"].undo \subseteq Undos
    PROVE  NextUndo \in mine["handoff"].undo
PROOF
  <1> DEFINE u == mine["handoff"].undo
             First(i) == UndoOrder[i] \in u /\ \A j \in 1..i - 1 : UndoOrder[j] \notin u
  <1>1. /\ DOMAIN UndoOrder = 1..6
        /\ UndoOrder[1] = "return" /\ UndoOrder[2] = "unretire" /\ UndoOrder[3] = "detach"
        /\ UndoOrder[4] = "untrack" /\ UndoOrder[5] = "delete" /\ UndoOrder[6] = "resupervise"
    BY DEF UndoOrder
  <1>2. \E i \in 1..6 : UndoOrder[i] \in u
    BY <1>1 DEF Undos
  <1>3. \E i \in 1..6 : First(i)
    <2> HIDE DEF u
    <2>1. /\ UndoOrder[1] \in u => First(1)
          /\ UndoOrder[1] \notin u /\ UndoOrder[2] \in u => First(2)
          /\ UndoOrder[1] \notin u /\ UndoOrder[2] \notin u /\ UndoOrder[3] \in u => First(3)
      OBVIOUS
    <2>2. /\ UndoOrder[1] \notin u /\ UndoOrder[2] \notin u /\ UndoOrder[3] \notin u /\ UndoOrder[4] \in u => First(4)
          /\ UndoOrder[1] \notin u /\ UndoOrder[2] \notin u /\ UndoOrder[3] \notin u /\ UndoOrder[4] \notin u
             /\ UndoOrder[5] \in u => First(5)
          /\ UndoOrder[1] \notin u /\ UndoOrder[2] \notin u /\ UndoOrder[3] \notin u /\ UndoOrder[4] \notin u
             /\ UndoOrder[5] \notin u /\ UndoOrder[6] \in u => First(6)
      OBVIOUS
    <2> HIDE DEF First
    <2>3. 1 \in 1..6 /\ 2 \in 1..6 /\ 3 \in 1..6 /\ 4 \in 1..6 /\ 5 \in 1..6 /\ 6 \in 1..6
          /\ \A i \in 1..6 : i = 1 \/ i = 2 \/ i = 3 \/ i = 4 \/ i = 5 \/ i = 6
      OBVIOUS
    <2> QED
      BY <1>2, <2>1, <2>2, <2>3
  <1>4. First(CHOOSE i \in DOMAIN UndoOrder : First(i))
    <2> HIDE DEF First
    <2> QED
      BY <1>1, <1>3
  <1> QED
    BY <1>4 DEF NextUndo

\* A handoff of the request's Worker, once it has begun to start another, has the request.
LEMMA HandoffHas ==
    ASSUME SourceInv, at["handoff"] \in WithNext \cup {"starting"}, mine["handoff"].owned
    PROVE  Inside("handoff") /\ requestLock = "handoff" /\ request # Free /\ request \in NamedRequests /\ ~closed
PROOF
  <1>1. Inside("handoff") /\ ~Purging("handoff") /\ "handoff" \in Operations
    BY DEF Inside, Purging, Operations
  <1>2. requestLock = "handoff" /\ request # Free /\ ~closed
    BY <1>1 DEF SourceInv, RequestTurns, OwnTurn, ClosedIsOver
  <1> QED
    BY <1>1, <1>2, RequestIs DEF SourceInv, RequestShape

\* A handoff knows what it is about after each of its steps.
LEMMA HandoffKnowsOn ==
    ASSUME SourceInv, HandoffBegins \/ Handoff
    PROVE  HandoffKnows'
PROOF
  <1> DEFINE h == mine["handoff"]
             k == mine'["handoff"]
             s == at["handoff"]
             t == at'["handoff"]
  <1>0. /\ PairShape /\ RequestShape /\ LocalShape /\ LockShape /\ HandoffKnows /\ "handoff" \in Operations
        /\ h \in LocalRecs /\ at \in [Operations -> Steps] /\ mine \in [Operations -> LocalRecs]
    BY DEF SourceInv, LocalShape, Operations
  <1>e. CASE End("handoff")
    <2>1. t = "no" /\ k = NoLocals
      BY <1>0, <1>e, Ends
    <2> QED
      BY <2>1 DEF HandoffKnows, NoLocals, WithNext
  \* It goes on with what it has.
  <1>s. ASSUME k = h, s \in WithNext \cup {"entering", "locking"}, t \in WithNext \/ (s = "entering" /\ t = "starting"),
               s \in {"entering", "locking"} => t = "starting", t # "transferring"
        PROVE  HandoffKnows'
    BY <1>0, <1>s DEF HandoffKnows, WithNext
  \* It adds to what it has to undo, the request when it holds it.
  <1>u. ASSUME s \in WithNext, t \in WithNext, k.thread = h.thread, k.next = h.next, k.owned = h.owned,
               h.undo \subseteq k.undo, t = "transferring" => h.owned,
               "return" \in k.undo => k.prior # Free /\ k.owned
        PROVE  HandoffKnows'
    BY <1>0, <1>u DEF HandoffKnows, WithNext
  <1>1. CASE HandoffBegins
    <2>1. pair.worker \in Workers /\ s = "no"
      BY <1>0, <1>1 DEF HandoffBegins, Begin, PairShape, PairRecords, Maybe
    <2>2. t = "locking" /\ k = [h EXCEPT !.thread = pair.worker, !.owned = Owns(pair.worker)]
      BY <1>0, <1>1 DEF HandoffBegins, Go
    <2>3. k.thread \in Workers /\ k.undo = {}
      BY <1>0, <2>1, <2>2 DEF HandoffKnows, LocalRecs
    <2> QED
      BY <2>2, <2>3 DEF HandoffKnows, WithNext
  <1>2. CASE HandoffLocks /\ ~End("handoff")
    <2>1. s = "locking" /\ t = "entering" /\ k = [h EXCEPT !.owned = Owns(h.thread)]
      BY <1>0, <1>2 DEF HandoffLocks, Go
    <2>2. k.thread \in Workers /\ k.undo = {}
      BY <1>0, <2>1 DEF HandoffKnows, LocalRecs
    <2> QED
      BY <2>1, <2>2 DEF HandoffKnows, WithNext
  <1>3. CASE HandoffEnters /\ ~End("handoff")
    <2>1. s = "entering" /\ t = "starting" /\ k = h
      BY <1>0, <1>3 DEF HandoffEnters, Go
    <2> QED
      BY <1>s, <2>1
  <1>4. CASE HandoffStarts /\ ~End("handoff")
    <2>1. PICK w \in Workers :
             s = "starting" /\ t = "tracking" /\ k = [h EXCEPT !.next = w, !.undo = {"untrack", "delete"}]
      BY <1>0, <1>4 DEF HandoffStarts, Go
    <2>2. k.thread \in Workers /\ k.next \in Workers /\ k.undo = {"untrack", "delete"}
      BY <1>0, <2>1 DEF HandoffKnows, LocalRecs
    <2> QED
      BY <2>1, <2>2 DEF HandoffKnows, WithNext
  <1>5. CASE HandoffTracks \/ HandoffFlushes
    <2>1. k = h /\ s \in {"tracking", "flushing"} /\ t \in {"attaching", "undoing", "retiring"}
      BY <1>0, <1>5 DEF HandoffTracks, HandoffFlushes, Go
    <2> QED
      BY <1>s, <2>1 DEF WithNext
  <1>6. CASE HandoffAttaches
    <2>1. CASE k = h /\ t = "undoing" /\ s = "attaching"
      BY <1>s, <2>1 DEF WithNext
    <2>2. CASE /\ t = IF h.owned THEN "transferring" ELSE "flushing"
               /\ k = [h EXCEPT !.before = pair, !.undo = h.undo \cup {"detach"}] /\ s = "attaching"
      <3>1. /\ k.thread = h.thread /\ k.next = h.next /\ k.owned = h.owned /\ k.prior = h.prior
            /\ k.undo = h.undo \cup {"detach"}
        BY <1>0, <2>2 DEF LocalRecs
      <3> QED
        BY <1>0, <1>u, <2>2, <3>1 DEF WithNext, HandoffKnows
    <2>3. CASE pair # Free /\ pair.worker = h.thread
      BY <1>0, <1>6, <2>2, <2>3 DEF HandoffAttaches, Go
    <2>4. CASE ~(pair # Free /\ pair.worker = h.thread)
      BY <1>0, <1>6, <2>1, <2>4 DEF HandoffAttaches, Go
    <2> QED
      BY <2>3, <2>4
  <1>7. CASE HandoffTransfers
    <2>1. s = "transferring" /\ h.owned
      BY <1>0, <1>7 DEF HandoffTransfers, HandoffKnows
    <2>2. request # Free
      BY <2>1, HandoffHas DEF WithNext
    <2>3. CASE k = h /\ t = "undoing"
      BY <1>s, <2>1, <2>3 DEF WithNext
    <2>4. CASE t = "flushing" /\ k = [h EXCEPT !.prior = request, !.undo = h.undo \cup {"return"}]
      <3>1. /\ k.thread = h.thread /\ k.next = h.next /\ k.owned = h.owned /\ k.prior = request
            /\ k.undo = h.undo \cup {"return"}
        BY <1>0, <2>4 DEF LocalRecs
      <3> QED
        BY <1>u, <2>1, <2>2, <2>4, <3>1 DEF WithNext
    <2>5. PICK ok \in BOOLEAN :
             /\ mine' = IF ok THEN [mine EXCEPT !["handoff"] = [h EXCEPT !.prior = request, !.undo = h.undo \cup {"return"}]]
                        ELSE mine
             /\ Go("handoff", IF ok THEN "flushing" ELSE "undoing")
      BY <1>7 DEF HandoffTransfers
    <2>6. CASE ok
      BY <1>0, <2>4, <2>5, <2>6 DEF Go
    <2>7. CASE ~ok
      BY <1>0, <2>3, <2>5, <2>7 DEF Go
    <2> QED
      BY <2>6, <2>7
  <1>8. CASE HandoffRetires
    <2>1. s = "retiring" /\ t \in {"releasing", "undoing"} /\ k = [h EXCEPT !.undo = h.undo \cup {"unretire"}]
      BY <1>0, <1>8 DEF HandoffRetires, Go
    <2>2. /\ k.thread = h.thread /\ k.next = h.next /\ k.owned = h.owned /\ k.prior = h.prior
          /\ k.undo = h.undo \cup {"unretire"}
      BY <1>0, <2>1 DEF LocalRecs
    <2> QED
      BY <1>0, <1>u, <2>1, <2>2 DEF WithNext, HandoffKnows
  <1>9. CASE HandoffReleases /\ ~End("handoff")
    <2>1. CASE k = h /\ t = "undoing" /\ s = "releasing"
      BY <1>s, <2>1 DEF WithNext
    <2>2. CASE s = "releasing" /\ t = "undoing" /\ k = [h EXCEPT !.undo = h.undo \cup {"resupervise"}]
      <3>1. /\ k.thread = h.thread /\ k.next = h.next /\ k.owned = h.owned /\ k.prior = h.prior
            /\ k.undo = h.undo \cup {"resupervise"}
        BY <1>0, <2>2 DEF LocalRecs
      <3> QED
        BY <1>0, <1>u, <2>2, <3>1 DEF WithNext, HandoffKnows
    <2> QED
      BY <1>0, <1>9, <2>1, <2>2 DEF HandoffReleases, Go
  <1>10. CASE HandoffUndoes /\ ~End("handoff")
    <2>1. s = "undoing" /\ t = s /\ h.undo # {NextUndo} /\ k = [h EXCEPT !.undo = h.undo \ {NextUndo}]
      BY <1>0, <1>10 DEF HandoffUndoes
    <2>2. /\ k.thread = h.thread /\ k.next = h.next /\ k.owned = h.owned /\ k.prior = h.prior
          /\ k.undo = h.undo \ {NextUndo} /\ h.undo # {}
      BY <1>0, <2>1 DEF LocalRecs, HandoffKnows, WithNext
    <2>3. k.undo # {}
      BY <2>1, <2>2
    <2> HIDE DEF h, k
    <2> QED
      BY <1>0, <2>1, <2>2, <2>3 DEF WithNext, HandoffKnows, h, k
  <1> QED
    BY <1>e, <1>1, <1>2, <1>3, <1>4, <1>5, <1>6, <1>7, <1>8, <1>9, <1>10 DEF Handoff

\* The names in a handoff's local variables are of Workers that were started.
LEMMA HandoffNames ==
    ASSUME SourceInv, HandoffBegins \/ Handoff, Started \subseteq Started'
    PROVE  (NamesStarted(mine["handoff"].prior))' /\ mine'["handoff"].next \in Started'
PROOF
  <1> DEFINE h == mine["handoff"]
             k == mine'["handoff"]
  <1>0. /\ RequestShape /\ WorkShape /\ LocalShape /\ LockShape /\ NamedWereStarted /\ "handoff" \in Operations
        /\ h \in LocalRecs /\ mine \in [Operations -> LocalRecs]
    BY DEF SourceInv, LocalShape, Operations
  <1>1. CASE k.prior = h.prior /\ k.next = h.next
    BY <1>0, <1>1 DEF NamedWereStarted, NamesStarted
  <1>2. CASE End("handoff")
    <2>1. k = NoLocals
      BY <1>0, <1>2, Ends
    <2>2. Free \in Started'
      BY DEF Started
    <2> QED
      BY <2>1, <2>2 DEF NoLocals, NamesStarted
  <1>3. CASE HandoffStarts /\ ~End("handoff")
    <2>1. PICK w \in Workers : /\ worker' = [worker EXCEPT ![w] = "running"]
                               /\ k = [h EXCEPT !.next = w, !.undo = {"untrack", "delete"}]
      BY <1>0, <1>3 DEF HandoffStarts
    <2>2. k.prior = h.prior /\ k.next = w /\ w \in Started'
      BY <1>0, <2>1 DEF LocalRecs, WorkShape, Started
    <2> QED
      BY <1>0, <2>2 DEF NamedWereStarted, NamesStarted
  <1>4. CASE HandoffTransfers
    <2>1. CASE k = [h EXCEPT !.prior = request, !.undo = h.undo \cup {"return"}]
      <3>1. k.prior = request /\ k.next = h.next
        BY <1>0, <2>1 DEF LocalRecs
      <3> QED
        BY <1>0, <3>1 DEF NamedWereStarted, NamesStarted
    <2> QED
      BY <1>0, <1>1, <1>4, <2>1 DEF HandoffTransfers
  <1>5. CASE HandoffAttaches
    <2>1. CASE k = [h EXCEPT !.before = pair, !.undo = h.undo \cup {"detach"}]
      BY <1>0, <1>1, <2>1 DEF LocalRecs
    <2> QED
      BY <1>0, <1>1, <1>5, <2>1 DEF HandoffAttaches
  <1>6. ASSUME NEW u, k = [h EXCEPT !.undo = u] PROVE k.prior = h.prior /\ k.next = h.next
    BY <1>0, <1>6 DEF LocalRecs
  <1>7. CASE HandoffRetires \/ HandoffReleases \/ HandoffUndoes
    BY <1>0, <1>1, <1>2, <1>6, <1>7 DEF HandoffRetires, HandoffReleases, HandoffUndoes
  <1>8. CASE HandoffBegins
    <2>1. k = [h EXCEPT !.thread = pair.worker, !.owned = Owns(pair.worker)]
      BY <1>0, <1>8 DEF HandoffBegins
    <2> QED
      BY <1>0, <1>1, <2>1 DEF LocalRecs
  <1>9. CASE HandoffLocks /\ ~End("handoff")
    <2>1. k = [h EXCEPT !.owned = Owns(h.thread)]
      BY <1>0, <1>9 DEF HandoffLocks
    <2> QED
      BY <1>0, <1>1, <2>1 DEF LocalRecs
  <1> QED
    BY <1>1, <1>2, <1>3, <1>4, <1>5, <1>7, <1>8, <1>9
    DEF Handoff, HandoffEnters, HandoffTracks, HandoffFlushes

\* It begins to start another Worker with the request's turn, when that is about the
\* request, and keeps it.
LEMMA HandoffTurn ==
    ASSUME SourceInv, HandoffBegins \/ Handoff, request # Free => request' # Free, UNCHANGED closed
    PROVE  OwnTurn("handoff")' /\ (closed' => ~Inside("handoff")')
PROOF
  <1> DEFINE h == mine["handoff"]
             k == mine'["handoff"]
             s == at["handoff"]
             t == at'["handoff"]
  <1>0. /\ LocalShape /\ LockShape /\ ClosedIsOver /\ "handoff" \in Operations
        /\ h \in LocalRecs /\ at \in [Operations -> Steps] /\ mine \in [Operations -> LocalRecs]
    BY DEF SourceInv, LocalShape, Operations
  <1>a. Inside("handoff")' => t \in WithNext \cup {"starting"} /\ k.owned
    BY DEF Inside, Purging, Discarding
  <1>1. CASE t \notin WithNext \cup {"starting"}
    BY <1>1, <1>a DEF OwnTurn
  <1>2. CASE HandoffEnters
    <2>1. SUFFICES ASSUME t = "starting", k.owned PROVE requestLock' = "handoff" /\ request' # Free /\ ~closed'
      BY <1>0, <1>1, <1>2, <1>a DEF HandoffEnters, Go, End, OwnTurn, WithNext
    <2>2. h.owned /\ requestLock' = "handoff" /\ Owns(h.thread)
      BY <1>0, <1>2, <2>1 DEF HandoffEnters, Go, End
    <2> QED
      BY <1>0, <2>2 DEF Owns, ClosedIsOver, Rested, OwnerStatuses, OpenStatuses
  <1>3. CASE s \in WithNext \cup {"starting"} /\ requestLock' = requestLock /\ k.owned = h.owned
    BY <1>0, <1>3, <1>a, HandoffHas DEF OwnTurn
  <1>4. CASE End("handoff") \/ HandoffBegins \/ HandoffLocks
    BY <1>0, <1>1, <1>4 DEF End, HandoffBegins, HandoffLocks, Go, WithNext
  <1>5. CASE (HandoffStarts \/ HandoffAttaches \/ HandoffTransfers \/ HandoffRetires \/ HandoffReleases \/ HandoffUndoes)
             /\ ~End("handoff")
    <2>1. s \in WithNext \cup {"starting"} /\ UNCHANGED locks
      BY <1>5 DEF HandoffStarts, HandoffAttaches, HandoffTransfers, HandoffRetires, HandoffReleases, HandoffUndoes, WithNext
    <2>3. k.owned = h.owned
      <3>1. CASE HandoffStarts
        <4>1. PICK w \in Workers : mine' = mine \/ k = [h EXCEPT !.next = w, !.undo = {"untrack", "delete"}]
          BY <1>0, <1>5, <3>1 DEF HandoffStarts
        <4> QED
          BY <1>0, <4>1 DEF LocalRecs
      <3>2. CASE HandoffAttaches
        <4>1. CASE k = [h EXCEPT !.before = pair, !.undo = h.undo \cup {"detach"}]
          BY <1>0, <4>1 DEF LocalRecs
        <4> QED
          BY <1>0, <3>2, <4>1 DEF HandoffAttaches
      <3>3. CASE HandoffTransfers
        <4>1. CASE k = [h EXCEPT !.prior = request, !.undo = h.undo \cup {"return"}]
          BY <1>0, <4>1 DEF LocalRecs
        <4> QED
          BY <1>0, <3>3, <4>1 DEF HandoffTransfers
      <3>4. ASSUME NEW u, k = [h EXCEPT !.undo = u] PROVE k.owned = h.owned
        BY <1>0, <3>4 DEF LocalRecs
      <3>5. CASE HandoffRetires \/ HandoffReleases \/ HandoffUndoes
        BY <1>0, <1>5, <3>4, <3>5 DEF HandoffRetires, HandoffReleases, HandoffUndoes
      <3> QED
        BY <1>5, <3>1, <3>2, <3>3, <3>5
    <2> QED
      BY <1>3, <2>1, <2>3 DEF locks
  <1>6. CASE HandoffTracks \/ HandoffFlushes
    <2>1. s \in WithNext \cup {"starting"} /\ UNCHANGED <<mine, locks>>
      BY <1>6 DEF HandoffTracks, HandoffFlushes, WithNext
    <2> QED
      BY <1>3, <2>1 DEF locks
  <1> QED
    BY <1>2, <1>4, <1>5, <1>6 DEF Handoff

LEMMA HandoffOwn ==
    ASSUME SourceInv, HandoffBegins \/ Handoff
    PROVE  Fits("handoff") /\ OwnPart("handoff")
PROOF
  <1> DEFINE h == mine["handoff"]
             s == at["handoff"]
  <1>0. /\ RequestShape /\ PairShape /\ WorkShape /\ LocalShape /\ LockShape /\ NamedWereStarted /\ ClosedIsOver
        /\ HandoffKnows /\ "handoff" \in Operations /\ "handoff" \notin Discarding /\ h \in LocalRecs
        /\ queued \subseteq {"requests", "pairs"} /\ closed \in BOOLEAN
    BY DEF SourceInv, LocalShape, RequestShape, Operations, Discarding
  <1>1. UNCHANGED closed
    BY DEF Handoff, HandoffBegins, HandoffLocks, HandoffEnters, HandoffStarts, HandoffTracks, HandoffAttaches,
           HandoffTransfers, HandoffFlushes, HandoffRetires, HandoffReleases, HandoffUndoes
  <1>2. PairShape' /\ queued' \subseteq {"requests", "pairs"}
    <2>1. CASE HandoffAttaches
      <3>1. h.next \in Workers /\ h.thread \in Workers
        BY <1>0, <2>1 DEF HandoffAttaches, HandoffKnows, WithNext
      <3>2. [worker |-> h.next, from |-> h.thread] \in Maybe(PairRecords)
        BY <3>1 DEF PairRecords, Maybe
      <3>3. pair' \in {pair, [worker |-> h.next, from |-> h.thread]} /\ pairFile' = pairFile
            /\ queued' \subseteq queued \cup {"pairs"}
        BY <2>1 DEF HandoffAttaches
      <3> QED
        BY <1>0, <3>2, <3>3 DEF PairShape
    <2>2. CASE UNCHANGED pairs /\ queued' \subseteq queued
      BY <1>0, <2>2 DEF PairShape, pairs
    <2>3. ASSUME NEW p \in Maybe(PairRecords), NEW ok \in BOOLEAN, WritePair(p, ok)
          PROVE  PairShape' /\ queued' \subseteq {"requests", "pairs"}
      BY <1>0, <2>3, WritePairIs
    <2>4. pair \in Maybe(PairRecords) /\ h.before \in Maybe(PairRecords)
      BY <1>0 DEF PairShape, LocalRecs
    <2>5. CASE HandoffFlushes
      BY <2>2, <2>3, <2>4, <2>5 DEF HandoffFlushes
    <2>6. CASE HandoffUndoes
      BY <2>2, <2>3, <2>4, <2>6
      DEF HandoffUndoes, UndoTransfer, UndoRetirement, UndoAttachment, UndoCallback, UndoStart, Write
    <2> QED
      BY <2>1, <2>2, <2>5, <2>6
      DEF Handoff, HandoffBegins, HandoffLocks, HandoffEnters, HandoffStarts, HandoffTracks,
          HandoffTransfers, HandoffRetires, HandoffReleases
  \* The Workers: a fresh one is set to work, and one that was started may go.
  <1>3. /\ WorkShape'
        /\ \A w \in Workers : worker'[w] # worker[w] =>
               worker'[w] # "none" /\ (worker'[w] = "running" => worker[w] = "none")
    <2>1. CASE HandoffStarts
      <3>1. PICK w \in Workers : /\ Fresh(w) /\ worker' \in {worker, [worker EXCEPT ![w] = "running"]}
                                 /\ UNCHANGED <<reported, retired, callback>>
        BY <2>1 DEF HandoffStarts
      <3> QED
        BY <1>0, <3>1 DEF WorkShape, Fresh
    <2>2. CASE HandoffUndoes
      <3>1. s = "undoing" /\ h.thread \in Workers /\ h.next \in Workers
        BY <1>0, <2>2 DEF HandoffUndoes, HandoffKnows, WithNext
      <3>2. worker' \in {worker, [worker EXCEPT ![h.next] = "gone"]} /\ UNCHANGED reported
            /\ retired' \subseteq retired /\ callback' \subseteq callback \cup {h.thread}
        BY <2>2 DEF HandoffUndoes, UndoTransfer, UndoRetirement, UndoAttachment, UndoCallback, UndoStart
      <3> QED
        BY <1>0, <3>1, <3>2 DEF WorkShape
    <2>3. CASE UNCHANGED workers
      BY <1>0, <2>3 DEF WorkShape, workers
    <2>4. CASE HandoffTracks \/ HandoffRetires \/ HandoffReleases
      <3>1. h.thread \in Workers /\ (s = "tracking" => h.next \in Workers)
        BY <1>0, <2>4 DEF HandoffTracks, HandoffRetires, HandoffReleases, HandoffKnows, WithNext
      <3>2. UNCHANGED <<worker, reported>> /\ retired' \subseteq retired \cup {h.thread}
            /\ callback' \subseteq callback \cup (IF s = "tracking" THEN {h.next} ELSE {})
        BY <2>4 DEF HandoffTracks, HandoffRetires, HandoffReleases
      <3> QED
        BY <1>0, <3>1, <3>2 DEF WorkShape
    <2> QED
      BY <2>1, <2>2, <2>3, <2>4
      DEF Handoff, HandoffBegins, HandoffLocks, HandoffEnters, HandoffAttaches, HandoffTransfers, HandoffFlushes, workers
  <1>4. Started \subseteq Started'
    BY <1>3 DEF Started
  \* The request: a transfer, or its return, by a handoff that has the request's turn.
  <1>5. \/ UNCHANGED requests
        \/ /\ Inside("handoff") /\ request # Free /\ ~closed
           /\ request' \in NamedRequests /\ request'.thread \in Started'
           /\ requestFile' \in {requestFile, request'}
    <2>1. CASE HandoffTransfers
      <3>1. s = "transferring" /\ h.owned /\ h.next \in Workers
        BY <1>0, <2>1 DEF HandoffTransfers, HandoffKnows, WithNext
      <3>2. Inside("handoff") /\ request # Free /\ ~closed /\ request \in NamedRequests
        BY <3>1, HandoffHas DEF WithNext
      <3> DEFINE r == With(request, "running", h.next, request.linked)
      <3>3. r \in NamedRequests /\ r.thread = h.next
        <4>1. h.next \in Maybe(Workers) /\ "running" \in Statuses /\ request.linked \in BOOLEAN
          BY <3>1, <3>2, RequestIs, RequestsAreSomething DEF Maybe, Statuses, OpenStatuses
        <4>2. \A x \in Statuses, t \in Maybe(Workers), c \in BOOLEAN :
                 With(request, x, t, c) \in NamedRequests /\ With(request, x, t, c).thread = t
          BY <3>2, RequestIs, RequestsAreSomething
        <4> QED
          BY <4>1, <4>2, Zenon
      <3>4. request' \in {r, request} /\ requestFile' = request'
        BY <2>1 DEF HandoffTransfers
      <3>5. h.next \in Started' /\ request.thread \in Started'
        BY <1>0, <1>4, <3>2 DEF NamedWereStarted, NamesStarted
      <3> QED
        BY <3>2, <3>3, <3>4, <3>5
    <2>2. CASE HandoffUndoes /\ ~UNCHANGED requests
      <3>1. PICK ok \in BOOLEAN :
               s = "undoing" /\ NextUndo = "return" /\ Write([h.prior EXCEPT !.linked = request.linked], ok)
        BY <2>2
        DEF HandoffUndoes, UndoTransfer, UndoRetirement, UndoAttachment, UndoCallback, UndoStart, requests, WritePair
      <3>2. "return" \in h.undo
        BY <1>0, <3>1, NextUndoIs DEF HandoffKnows, WithNext, LocalRecs
      <3>3. h.owned /\ h.prior # Free /\ h.prior \in Maybe(NamedRequests)
        BY <1>0, <3>2 DEF HandoffKnows, LocalRecs
      <3>4. Inside("handoff") /\ request # Free /\ ~closed /\ request \in NamedRequests
        BY <3>1, <3>3, HandoffHas DEF WithNext
      <3> DEFINE r == [h.prior EXCEPT !.linked = request.linked]
      <3>5. r \in NamedRequests /\ r.thread = h.prior.thread
        <4>1. request.linked \in BOOLEAN
          BY <3>4, RequestIs, RequestsAreSomething
        <4>2. \A b \in BOOLEAN :
                 [h.prior EXCEPT !.linked = b] \in NamedRequests /\ [h.prior EXCEPT !.linked = b].thread = h.prior.thread
          BY <3>3, RequestIs
        <4> QED
          BY <4>1, <4>2, Zenon
      <3> HIDE DEF r
      <3>6. request' = r /\ requestFile' \in {r, requestFile}
        BY <3>1 DEF Write, r
      <3>7. r.thread \in Started'
        BY <1>0, <1>4, <3>3, <3>5 DEF NamedWereStarted, NamesStarted
      <3> QED
        BY <3>4, <3>5, <3>6, <3>7
    <2> QED
      BY <2>1, <2>2
      DEF Handoff, HandoffBegins, HandoffLocks, HandoffEnters, HandoffStarts, HandoffTracks, HandoffAttaches,
          HandoffFlushes, HandoffRetires, HandoffReleases, requests, WritePair
  <1>6. CASE UNCHANGED requests
    <2>1. /\ Fits("handoff") /\ NamesStarted(request)' /\ NamesStarted(requestFile)'
          /\ closed' => closed /\ request' = requestFile' /\ Rested(request)'
      BY <1>1, <1>3, <1>6, RequestKept
    <2>2. RequestShape'
      BY <1>0, <1>1, <1>2, <1>6, ShapesKept
    <2>3. OwnTurn("handoff")' /\ (closed' => ~Inside("handoff")')
      BY <1>1, <1>6, HandoffTurn DEF requests
    <2> QED
      BY <1>0, <1>1, <1>2, <1>3, <1>4, <2>1, <2>2, <2>3, HandoffKnowsOn, HandoffNames DEF OwnPart
  <1>7. CASE /\ Inside("handoff") /\ request # Free /\ ~closed
             /\ request' \in NamedRequests /\ request'.thread \in Started'
             /\ requestFile' \in {requestFile, request'}
    <2>1. RequestShape' /\ request' # Free
      BY <1>0, <1>1, <1>2, <1>7, RequestsAreSomething DEF RequestShape
    <2>2. Fits("handoff")
      BY <1>3, <1>7 DEF Fits
    <2>3. NamesStarted(request)' /\ NamesStarted(requestFile)'
      BY <1>0, <1>4, <1>7 DEF NamedWereStarted, NamesStarted
    <2>4. OwnTurn("handoff")'
      BY <1>1, <2>1, HandoffTurn
    <2> QED
      BY <1>0, <1>1, <1>2, <1>3, <1>4, <1>7, <2>1, <2>2, <2>3, <2>4, HandoffKnowsOn, HandoffNames DEF OwnPart
  <1> QED
    BY <1>5, <1>6, <1>7

-----------------------------------------------------------------------------
(* What is nobody's operation, and a restart.                              *)

LEMMA OthersOwn ==
    ASSUME SourceInv,
           \/ Publish \/ Dismiss \/ SavesRequests \/ SavesPairs \/ UNCHANGED sourceVars
           \/ \E w \in Workers : Report(w) \/ Rests(w)
    PROVE  Alone(Free) /\ Fits(Free) /\ OwnPart(Free)
PROOF
  <1>0. /\ RequestShape /\ PairShape /\ WorkShape /\ LocalShape /\ LockShape /\ NamedWereStarted /\ ClosedIsOver
        /\ queued \subseteq {"requests", "pairs"} /\ closed \in BOOLEAN
    BY DEF SourceInv, RequestShape
  <1>1. UNCHANGED <<at, mine, locks, closed, retired, callback>>
    BY DEF Publish, Dismiss, SavesRequests, SavesPairs, Report, Rests, sourceVars, workers
  <1>2. Alone(Free)
    BY <1>0, <1>1, NobodySteps
  <1>3. Free \notin Operations /\ Free \notin Discarding /\ Free # "approve" /\ Free # "message" /\ Free # "handoff"
    BY FreeIsNothing DEF Operations, Discarding
  <1>4. PairShape' /\ queued' \subseteq {"requests", "pairs"}
    <2>1. CASE SavesPairs
      BY <1>0, <2>1, WritePairIs DEF SavesPairs, PairShape
    <2>2. CASE UNCHANGED pairs /\ queued' \subseteq queued \cup {"requests"}
      BY <1>0, <2>2 DEF PairShape, pairs
    <2> QED
      BY <2>1, <2>2 DEF Publish, Dismiss, SavesRequests, Report, Rests, sourceVars, Write
  <1>5. WorkShape' /\ \A w \in Workers : worker'[w] # worker[w] => worker'[w] = "idle" /\ worker[w] = "running"
    <2>1. CASE \E w \in Workers : Report(w) \/ Rests(w)
      BY <1>0, <2>1 DEF Report, Rests, WorkShape
    <2>2. CASE UNCHANGED workers
      BY <1>0, <2>2 DEF workers, WorkShape
    <2> QED
      BY <2>1, <2>2 DEF Publish, Dismiss, SavesRequests, SavesPairs, sourceVars
  <1>6. Started \subseteq Started'
    BY <1>5 DEF Started
  <1>7. CASE UNCHANGED requests
    <2>1. /\ Fits(Free) /\ NamesStarted(request)' /\ NamesStarted(requestFile)'
          /\ closed' => closed /\ request' = requestFile' /\ Rested(request)'
      BY <1>1, <1>5, <1>7, RequestKept
    <2>2. RequestShape'
      BY <1>0, <1>1, <1>4, <1>7, ShapesKept
    <2> QED
      BY <1>1, <1>2, <1>3, <1>4, <1>5, <2>1, <2>2 DEF OwnPart
  <1>8. CASE SavesRequests
    <2>1. PICK ok \in BOOLEAN : Write(request, ok) /\ UNCHANGED workers
      BY <1>8 DEF SavesRequests
    <2>2. RequestShape' /\ request' = request /\ requestFile' \in {request, requestFile} /\ UNCHANGED worker
      BY <1>0, <1>1, <2>1, WriteIs DEF RequestShape, workers
    <2>3. Fits(Free) /\ NamesStarted(request)' /\ NamesStarted(requestFile)'
      BY <1>0, <2>2 DEF Fits, NamedWereStarted, NamesStarted, Started
    <2>4. closed' => closed /\ request' = requestFile' /\ Rested(request)'
      BY <1>0, <1>1, <2>2 DEF ClosedIsOver, Rested
    <2> QED
      BY <1>1, <1>2, <1>3, <1>4, <1>5, <2>2, <2>3, <2>4 DEF OwnPart
  \* The request goes on from pending, from work or from what it published.
  <1>9. CASE /\ request # Free /\ request.status # "discarded" /\ requestFile' \in {requestFile, request'}
             /\ \E s \in Statuses : request' = [request EXCEPT !.status = s]
    <2>1. PICK s \in Statuses : request' = [request EXCEPT !.status = s]
      BY <1>9
    <2>2. [request EXCEPT !.status = s] \in NamedRequests /\ [request EXCEPT !.status = s].thread = request.thread
      BY <1>0, <1>9, RequestIs DEF RequestShape
    <2>3. request' \in NamedRequests /\ request' # Free /\ request'.thread = request.thread
      BY <2>1, <2>2, RequestsAreSomething
    <2>4. RequestShape'
      BY <1>0, <1>1, <1>4, <1>9, <2>3, RequestsAreSomething DEF RequestShape
    <2>5. Fits(Free)
      BY <1>5, <2>3 DEF Fits
    <2>6. NamesStarted(request)' /\ NamesStarted(requestFile)'
      BY <1>0, <1>6, <1>9, <2>3 DEF NamedWereStarted, NamesStarted
    <2>7. ~closed'
      BY <1>0, <1>1, <1>9 DEF ClosedIsOver, Rested
    <2> QED
      BY <1>1, <1>2, <1>3, <1>4, <1>5, <2>4, <2>5, <2>6, <2>7 DEF OwnPart
  <1>10. ASSUME ~UNCHANGED requests, ~SavesRequests
         PROVE  /\ request # Free /\ request.status # "discarded" /\ requestFile' \in {requestFile, request'}
                /\ \E s \in Statuses : request' = [request EXCEPT !.status = s]
    <2>0. {"pr_opened", "committed", "dismissed", "changes_ready"} \subseteq Statuses
      BY DEF Statuses, OpenStatuses
    <2>1. CASE Publish
      <3>1. /\ request # Free /\ request.status \in {"changes_ready", "committed"} /\ requestFile' \in {requestFile, request'}
            /\ request' = [request EXCEPT !.status = IF request.status = "committed" THEN "pr_opened" ELSE "committed"]
        BY <2>1 DEF Publish, Write
      <3> QED
        BY <2>0, <3>1
    <2>2. CASE Dismiss
      <3>1. /\ request # Free /\ request.status = "pending" /\ requestFile' \in {requestFile, request'}
            /\ request' = [request EXCEPT !.status = "dismissed"]
        BY <2>2 DEF Dismiss, Write
      <3> QED
        BY <2>0, <3>1
    <2>3. CASE \E w \in Workers : Report(w)
      <3>1. /\ request # Free /\ request.status = "running" /\ requestFile' = requestFile
            /\ request' = [request EXCEPT !.status = "changes_ready"]
        BY <1>10, <2>3 DEF Report, requests
      <3> QED
        BY <2>0, <3>1
    <2> QED
      BY <1>10, <2>1, <2>2, <2>3 DEF SavesPairs, Rests, sourceVars
  <1> QED
    BY <1>7, <1>8, <1>9, <1>10

\* What Manor makes of a saved request and a saved pair when it starts again.
LEMMA SettledIs ==
    ASSUME WorkShape, NEW r \in NamedRequests, r.thread \in Started, NEW p \in Maybe(PairRecords)
    PROVE  LET f == Followed(r, p)
               v == Shown(f, p)
               m == Settled(f, v)
           IN  v \in Maybe(PairRecords) /\ m \in NamedRequests /\ m.thread \in Started
PROOF
  <1> DEFINE f == Followed(r, p)
             v == Shown(f, p)
             m == Settled(f, v)
  <1>0. /\ {"running", "pending", "changes_ready"} \subseteq Statuses /\ Free \in Maybe(Workers) /\ Free \in Started
        /\ r \in Maybe(NamedRequests) /\ r # Free /\ r.linked \in BOOLEAN
    BY RequestIs, RequestsAreSomething DEF Statuses, OpenStatuses, Maybe, Started
  <1>1. f \in NamedRequests /\ f.thread \in Started
    <2>1. ASSUME PairIsAhead(r, p)
          PROVE  p.worker \in Maybe(Workers) /\ p.worker \in Started
      BY <2>1, FreeIsNothing DEF PairIsAhead, ShowsAnother, Exists, PairRecords, Maybe, Started
    <2>2. \A x \in Statuses, t \in Maybe(Workers), c \in BOOLEAN :
             With(r, x, t, c) \in NamedRequests /\ With(r, x, t, c).thread = t
      BY <1>0, RequestIs
    <2>3. CASE PairIsAhead(r, p)
      <3>1. With(r, "running", p.worker, r.linked) \in NamedRequests
            /\ With(r, "running", p.worker, r.linked).thread = p.worker
        BY <1>0, <2>1, <2>2, <2>3, Zenon
      <3> QED
        BY <2>1, <2>3, <3>1 DEF Followed
    <2> QED
      BY <2>3 DEF Followed
  <1> HIDE DEF f
  <1>2. f \in Maybe(NamedRequests) /\ f # Free /\ f.linked \in BOOLEAN /\ f.thread \in Maybe(Workers)
    BY <1>1, RequestIs, RequestsAreSomething
  <1>3. v \in Maybe(PairRecords)
    <2>1. ASSUME NEW w \in Maybe(Workers), NEW x \in Maybe(Workers)
          PROVE  [worker |-> w, from |-> x] \in Maybe(PairRecords)
      BY DEF PairRecords, Maybe
    <2>2. p # Free => p.worker \in Maybe(Workers)
      BY DEF PairRecords, Maybe
    <2> QED
      BY <1>0, <1>2, <2>1, <2>2 DEF Shown, ShowsAnother
  <1> HIDE DEF v
  <1>4. m \in NamedRequests /\ m.thread \in Started
    <2>1. /\ \A x \in Statuses :
                [f EXCEPT !.status = x] \in NamedRequests /\ [f EXCEPT !.status = x].thread = f.thread
          /\ \A b \in BOOLEAN :
                [f EXCEPT !.linked = b] \in NamedRequests /\ [f EXCEPT !.linked = b].thread = f.thread
      BY <1>2, RequestIs
    <2>2. \A x \in Statuses, b \in BOOLEAN :
             /\ [f EXCEPT !.status = x, !.linked = b] \in NamedRequests
             /\ [f EXCEPT !.status = x, !.linked = b].thread = f.thread
             /\ [f EXCEPT !.linked = b, !.status = x] \in NamedRequests
             /\ [f EXCEPT !.linked = b, !.status = x].thread = f.thread
      BY <1>1 DEF NamedRequests, RequestRecords
    <2>3. f.status \in Statuses
      BY <1>1 DEF NamedRequests, RequestRecords
    <2>4. With(f, "pending", Free, FALSE) \in NamedRequests /\ With(f, "pending", Free, FALSE).thread = Free
      <3>1. \A x \in Statuses, t \in Maybe(Workers), c \in BOOLEAN :
               With(f, x, t, c) \in NamedRequests /\ With(f, x, t, c).thread = t
        BY <1>2, RequestIs
      <3>2. FALSE \in BOOLEAN
        OBVIOUS
      <3> QED
        BY <1>0, <3>1, <3>2, Zenon
    <2> QED
      BY <1>0, <1>1, <1>2, <2>1, <2>2, <2>3, <2>4 DEF Settled
  <1> QED
    BY <1>3, <1>4 DEF f, v

LEMMA RestartKeeps ==
    ASSUME SourceInv, Restart
    PROVE  SourceInv'
PROOF
  <1> DEFINE saved == requestFile
             owns == saved # Free /\ saved.status \in OwnerStatuses
             followed == IF owns THEN Followed(saved, pairFile) ELSE saved
             shown == IF owns THEN Shown(followed, pairFile) ELSE pairFile
             settled == IF owns THEN Settled(followed, shown) ELSE saved
             named == IF shown = Free THEN {} ELSE {shown.worker} \ {Free}
  <1>0. /\ RequestShape /\ PairShape /\ WorkShape /\ NamedWereStarted /\ ClosedIsOver
    BY DEF SourceInv
  <1>1. settled \in Maybe(NamedRequests) /\ NamesStarted(settled) /\ shown \in Maybe(PairRecords)
    <2>1. CASE owns
      <3>1. saved \in NamedRequests /\ saved.thread \in Started /\ pairFile \in Maybe(PairRecords)
        BY <1>0, <2>1, RequestIs DEF RequestShape, PairShape, NamedWereStarted, NamesStarted
      <3>2. LET f == Followed(saved, pairFile)
                v == Shown(f, pairFile)
                m == Settled(f, v)
            IN  v \in Maybe(PairRecords) /\ m \in NamedRequests /\ m.thread \in Started
        BY <1>0, <3>1, SettledIs
      <3> QED
        BY <2>1, <3>2, RequestsAreSomething DEF NamesStarted
    <2>2. CASE ~owns
      BY <1>0, <2>2 DEF RequestShape, PairShape, NamedWereStarted
    <2> QED
      BY <2>1, <2>2
  <1>2. /\ request' = settled /\ requestFile' = settled
        /\ worker' = [w \in Workers |-> IF worker[w] = "running" THEN "idle" ELSE worker[w]]
        /\ pair' = IF \A w \in named : Exists(w) THEN shown ELSE [shown EXCEPT !.worker = Free]
        /\ pairFile' = pair'
        /\ retired' = retired \cup (IF pairFile = Free THEN {} ELSE {pairFile.from} \ {Free})
        /\ callback' = callback \cup {w \in named : Exists(w)}
        /\ queued' = {}
        /\ at' = [o \in Operations |-> "no"] /\ mine' = [o \in Operations |-> NoLocals]
        /\ requestLock' = Free /\ jobLock' = [w \in Workers |-> Free]
        /\ UNCHANGED <<reported, closed>>
    BY DEF Restart
  <1>3. closed => saved = Free \/ (saved.status = "discarded" /\ settled = saved)
    BY <1>0 DEF ClosedIsOver, Rested, OwnerStatuses, OpenStatuses
  <1>4. saved = Free => settled = Free
    OBVIOUS
  <1>n. named \subseteq Workers
    BY <1>1 DEF PairRecords, Maybe
  <1>p. ~(\A w \in named : Exists(w)) => shown # Free /\ [shown EXCEPT !.worker = Free] \in PairRecords
    BY <1>1 DEF PairRecords, Maybe
  <1> HIDE DEF settled, shown, owns, followed, named
  <1>5. RequestShape' /\ PairShape'
    BY <1>0, <1>1, <1>2, <1>p DEF RequestShape, PairShape, Maybe
  <1>6. WorkShape'
    <2>1. (IF pairFile = Free THEN {} ELSE {pairFile.from} \ {Free}) \subseteq Workers
      BY <1>0 DEF PairShape, PairRecords, Maybe
    <2> QED
      BY <1>0, <1>2, <1>n, <2>1 DEF WorkShape
  <1>7. LocalShape' /\ LockShape'
    BY <1>2, NoLocalsIs DEF LocalShape, LockShape, Steps, Maybe
  <1>8. \A o \in Operations : at'[o] = "no" /\ mine'[o] = NoLocals
    BY <1>2
  <1>9. {"approve", "message", "handoff"} \subseteq Operations /\ Discarding \subseteq Operations
    BY DEF Operations, Discarding
  <1>10. ApproveKnows' /\ MessageKnows' /\ HandoffKnows'
    BY <1>8, <1>9 DEF ApproveKnows, MessageKnows, HandoffKnows, WithPrompt, WithNext, NoLocals
  <1>11. \A o \in Operations : ~Inside(o)'
    BY <1>8 DEF Inside, Purging, Closing, WithNext
  <1>12. RequestTurns' /\ JobTurns'
    BY <1>8, <1>9, <1>11 DEF RequestTurns, OwnTurn, JobTurns, MessageTurn, DiscardTurn, Closing
  <1>13. Started \subseteq Started' /\ Free \in Started'
    BY <1>2 DEF Started
  <1>14. NamedWereStarted'
    BY <1>1, <1>2, <1>8, <1>9, <1>13 DEF NamedWereStarted, NamesStarted, NoLocals
  <1>15. ClosedIsOver'
    <2>1. SUFFICES ASSUME closed PROVE Rested(request)'
      BY <1>2, <1>11 DEF ClosedIsOver
    <2>2. settled # Free /\ settled.thread # Free => settled.thread \in Workers
      BY <1>1 DEF NamesStarted, Started
    <2>3. \A w \in Workers : worker'[w] # "running"
      BY <1>2
    <2> QED
      BY <1>2, <1>3, <1>4, <2>1, <2>2, <2>3 DEF Rested
  <1> QED
    BY <1>5, <1>6, <1>7, <1>10, <1>12, <1>14, <1>15 DEF SourceInv

-----------------------------------------------------------------------------
(* The theorems.                                                           *)

LEMMA SourceInitInv == SourceInit => SourceInv
PROOF
  <1> SUFFICES ASSUME SourceInit PROVE SourceInv
    OBVIOUS
  <1>1. /\ request = [status |-> "pending", thread |-> Free, linked |-> FALSE, workers |-> {}]
        /\ requestFile = request /\ pair = Free /\ pairFile = Free /\ queued = {}
        /\ reported = {} /\ retired = {} /\ callback = {}
        /\ at = [o \in Operations |-> "no"] /\ mine = [o \in Operations |-> NoLocals]
        /\ requestLock = Free /\ jobLock = [w \in Workers |-> Free] /\ closed = FALSE
        /\ \E first \in {"none", "running"} : worker = [w \in Workers |-> IF w = 1 THEN first ELSE "none"]
    BY DEF SourceInit
  <1>2. RequestShape
    BY <1>1 DEF RequestShape, NamedRequests, RequestRecords, Maybe, Statuses
  <1>3. PairShape /\ WorkShape /\ LockShape
    BY <1>1 DEF PairShape, WorkShape, LockShape, Maybe
  <1>4. LocalShape
    BY <1>1, NoLocalsIs DEF LocalShape, Steps
  <1>8. \A o \in Operations : at[o] = "no" /\ mine[o] = NoLocals
    BY <1>1
  <1>9. {"approve", "message", "handoff"} \subseteq Operations /\ Discarding \subseteq Operations
    BY DEF Operations, Discarding
  <1>10. ApproveKnows /\ MessageKnows /\ HandoffKnows
    BY <1>8, <1>9 DEF ApproveKnows, MessageKnows, HandoffKnows, WithPrompt, WithNext, NoLocals
  <1>11. \A o \in Operations : ~Inside(o)
    BY <1>8 DEF Inside, Purging, Closing, WithNext
  <1>12. RequestTurns /\ JobTurns
    BY <1>8, <1>9, <1>11 DEF RequestTurns, OwnTurn, JobTurns, MessageTurn, DiscardTurn, Closing
  <1>14. NamedWereStarted
    BY <1>1, <1>8, <1>9 DEF NamedWereStarted, NamesStarted, NoLocals, Started
  <1>15. ClosedIsOver
    BY <1>1 DEF ClosedIsOver
  <1> QED
    BY <1>2, <1>3, <1>4, <1>10, <1>12, <1>14, <1>15 DEF SourceInv

LEMMA SourceStep ==
    ASSUME SourceInv, [SourceNext]_sourceVars
    PROVE  SourceInv'
PROOF
  <1>0. /\ LocalShape /\ LockShape /\ RequestShape /\ PairShape /\ RequestTurns /\ MessageKnows /\ HandoffKnows
    BY DEF SourceInv
  <1>1. {"approve", "discard", "delete", "handoff", "message", Free} \subseteq Maybe(Operations)
        /\ Discarding \subseteq Maybe(Operations)
    BY DEF Operations, Maybe, Discarding
  <1>2. CASE ApproveBegins \/ Approve
    BY <1>0, <1>1, <1>2, ApproveAlone, ApproveBeginsOwn, ApproveOwn, StepKeeps
  <1>3. ASSUME NEW o \in Discarding, (o = "discard" /\ DiscardBegins) \/ Discard(o)
        PROVE  SourceInv'
    BY <1>0, <1>1, <1>3, DiscardAlone, DiscardOwn, StepKeeps
  <1>4. CASE DeleteBegins \/ Delete
    BY <1>0, <1>1, <1>4, DeleteAlone, DeleteOwn, StepKeeps
  <1>5. CASE HandoffBegins \/ Handoff
    BY <1>0, <1>1, <1>5, HandoffAlone, HandoffOwn, StepKeeps
  <1>6. CASE MessageBegins \/ Message
    BY <1>0, <1>1, <1>6, MessageAlone, MessageOwn, StepKeeps
  <1>7. CASE \/ Publish \/ Dismiss \/ SavesRequests \/ SavesPairs \/ UNCHANGED sourceVars
             \/ \E w \in Workers : Report(w) \/ Rests(w)
    BY <1>1, <1>7, OthersOwn, StepKeeps
  <1>8. CASE Restart
    BY <1>8, RestartKeeps
  <1>9. "discard" \in Discarding
    BY DEF Discarding
  <1> QED
    BY <1>2, <1>3, <1>4, <1>5, <1>6, <1>7, <1>8, <1>9 DEF SourceNext

LEMMA SourceInvImplies == SourceInv => SourceTypeOK /\ ClosedStays
PROOF
  <1> SUFFICES ASSUME SourceInv PROVE SourceTypeOK /\ ClosedStays
    OBVIOUS
  <1>1. SourceTypeOK
    BY DEF SourceInv, RequestShape, PairShape, WorkShape, LocalShape, LockShape, NamedRequests, Maybe, SourceTypeOK
  <1>2. ClosedStays
    BY DEF SourceInv, ClosedIsOver, Rested, ClosedStays
  <1> QED
    BY <1>1, <1>2

LEMMA SourceAlways == SourceSpec => []SourceInv
PROOF
  <1>1. SourceInit => SourceInv
    BY SourceInitInv
  <1>2. SourceInv /\ [SourceNext]_sourceVars => SourceInv'
    BY SourceStep
  <1> QED
    BY <1>1, <1>2, PTL DEF SourceSpec

\* A request that was closed stays closed, in memory and in its file, and its Worker
\* works no more: nobody who knew it open can open it again, or set that Worker to work.
THEOREM ClosedRequestStays == SourceSpec => []ClosedStays
PROOF
  <1>1. SourceInv => ClosedStays
    BY SourceInvImplies
  <1> QED
    BY <1>1, SourceAlways, PTL

-----------------------------------------------------------------------------
(* One fault at a time: what holds of the pair and the request meanwhile.  *)

\* A Worker that can be worked with, and one whose job Butler supervises as well.
Usable(w) == Exists(w) /\ w \notin retired
Kept(w)  == Usable(w) /\ w \in callback

\* The request holds the checkout for its Worker; it is published, closed or deleted.
Owner     == request # Free /\ request.status \in OwnerStatuses
Published == request = Free \/ request.status \in {"pr_opened", "discarded"}

\* A handoff is about to start a Worker, or has; and it does so with the request's turn.
Replacing  == at["handoff"] \in WithNext \cup {"starting"}
HasRequest == Replacing /\ mine["handoff"].owned
ToUndo(x)  == x \in mine["handoff"].undo

\* An approval under way has an open request, which shows its Worker in no pair before
\* it makes one and after it has begun to take everything back.
ApprovalRuns == LET s == at["approve"]
                    t == mine["approve"].thread IN
    /\ s # "no" => Owner
    /\ s = "starting" => request.status = "approved"
    /\ s \in WithPrompt => request.thread = t /\ request.status \in {"running", "changes_ready"}
    /\ s \in {"starting", "prompting", "pairing", "deleting", "reverting"} => pair = Free
    /\ s \in {"prompting", "pairing", "supervising", "linking"} => Usable(t)
    /\ s = "linking" => t \in callback
    /\ s \in {"deleting", "unpairing"} => failures = 1
    /\ s # "keeping"

\* What a handoff has to take back at a step it comes to when nothing has failed.
UndoAt(s, owned) ==
    {"untrack", "delete"}
    \cup (IF s \in {"transferring", "flushing", "retiring", "releasing"} THEN {"detach"} ELSE {})
    \cup (IF s \in {"flushing", "retiring", "releasing"} /\ owned THEN {"return"} ELSE {})
    \cup (IF s = "releasing" THEN {"unretire"} ELSE {})

\* A handoff of published work leaves the request alone; another one has moved the
\* request to the new Worker exactly when it has to return it.
HandoffRuns == LET s == at["handoff"]
                   h == mine["handoff"] IN
    /\ s # "no" /\ ~h.owned => Published /\ (pair # Free /\ ~ToUndo("detach") => pair.worker = h.thread)
    /\ HasRequest => Owner /\ request.thread = IF ToUndo("return") THEN h.next ELSE h.thread
    /\ Replacing => h.thread \in Started
    /\ Replacing /\ ToUndo("return") =>
           h.prior.thread = h.thread /\ h.prior.status \in OwnerStatuses \ {"approved"}
    /\ s \in WithNext => h.next # h.thread /\ h.next \notin retired
    /\ s \in WithNext \ {"undoing"} => h.undo = UndoAt(s, h.owned)
    /\ s = "undoing" /\ failures = 0 => h.undo \subseteq {"untrack", "delete"}

\* The pair, while there is one, shows the new Worker exactly when the handoff has to
\* detach it; the one replaced is as it was, but for what the handoff has to take back;
\* and the new one can be worked with until the handoff begins to take everything back.
HandoffShows == LET s == at["handoff"]
                    h == mine["handoff"] IN
    /\ Replacing /\ pair # Free /\ ~ToUndo("detach") =>
           pair.worker = h.thread /\ (s \in WithNext => pair.from # h.next)
    /\ Replacing /\ pair # Free /\ ToUndo("detach") =>
           /\ pair.worker = h.next /\ pair.from = h.thread
           /\ h.before # Free /\ h.before.worker = h.thread
           /\ h.before.from \notin {h.thread, h.next} /\ h.before.from \in Started
    /\ s \in WithNext /\ pair # Free =>
           /\ Exists(h.thread)
           /\ h.thread \notin retired \/ ToUndo("unretire")
           /\ h.thread \in callback \/ ToUndo("resupervise")
    /\ s \in WithNext \ {"undoing"} /\ (pair # Free \/ h.owned) =>
           Usable(h.next) /\ (s # "tracking" => h.next \in callback)

\* A pair belongs to an open request that it is linked with and shows the request's
\* Worker, which is kept, but for what an approval or a handoff under way says.
PairShows ==
    /\ pair # Free => Open /\ pair.worker \in Workers /\ pair.from # pair.worker /\ pair.from \in Started
    /\ pair # Free /\ at["approve"] \notin {"supervising", "linking", "unpairing"} => request.linked
    /\ pair # Free /\ Owner /\ ~HasRequest => pair.worker = request.thread
    /\ pair # Free /\ at["handoff"] \notin WithNext /\ at["approve"] \notin {"supervising", "unpairing"} =>
           Kept(pair.worker)

\* A request names no Worker before it is approved, and one from its first on.
RequestNames ==
    /\ request # Free /\ request.status \in {"pending", "approved"} => pair = Free /\ request.thread = Free
    /\ Owner /\ request.status # "approved" => request.thread \in Workers
    /\ retired \subseteq Started

\* A discard closes, and a deletion purges, what no pair shows any more.
DiscardsEnd == \A o \in Discarding :
    /\ at[o] = "closing" \/ Purging(o) => pair = Free
    /\ Purging(o) => ~Open

\* Before the first fault the request's Worker is there, its file lags behind by a
\* report at most, and the pair's file by an attachment that is still to be flushed.
FilesFollow == failures = 0 =>
    /\ Owner /\ request.thread # Free => Usable(request.thread)
    /\ \/ requestFile = request
       \/ /\ request # Free /\ request.status = "changes_ready"
          /\ requestFile = [request EXCEPT !.status = "running"]
    /\ \/ pairFile = pair
       \/ /\ pair # Free /\ pairFile = mine["handoff"].before /\ "pairs" \in queued
          /\ at["handoff"] \in {"transferring", "flushing"}

OneFault == /\ ApprovalRuns /\ HandoffRuns /\ HandoffShows /\ PairShows /\ RequestNames
            /\ DiscardsEnd /\ FilesFollow
OneFaultInv == failures \in Nat /\ (failures <= 1 => OneFault)

-----------------------------------------------------------------------------
(* What the others leave to an approval and a handoff.                     *)

\* Only one operation has the request, and nobody has it while its turn is free.
LEMMA OneInside ==
    ASSUME SourceInv
    PROVE  /\ \A p, q \in Operations : Inside(p) /\ Inside(q) => p = q
           /\ \A p \in Operations : Inside(p) => requestLock = p
           /\ requestLock = Free => \A p \in Operations : ~Inside(p)
  BY FreeIsNothing DEF SourceInv, RequestTurns, OwnTurn

\* A handoff that is replacing its Worker and an approval are never under way together.
LEMMA ApprovesOrReplaces ==
    ASSUME SourceInv, ApprovalRuns, HandoffRuns, at["approve"] # "no"
    PROVE  ~Replacing /\ (at["handoff"] # "no" => mine["handoff"].owned)
PROOF
  <1>1. Inside("approve") /\ {"approve", "handoff"} \subseteq Operations
    BY DEF Inside, Operations
  <1>2. Owner /\ ~Published
    BY DEF ApprovalRuns, Owner, Published, OwnerStatuses, OpenStatuses
  <1>3. at["handoff"] # "no" => mine["handoff"].owned
    BY <1>2 DEF HandoffRuns
  <1>4. ~HasRequest
    <2>1. HasRequest => Inside("handoff")
      BY DEF HasRequest, Replacing, Inside
    <2> QED
      BY <1>1, <2>1, OneInside
  <1>5. ~Replacing
    BY <1>3, <1>4 DEF HasRequest, Replacing, WithNext
  <1> QED
    BY <1>3, <1>5

\* Steps that leave the request, its pair and its Workers as they are, but for finished
\* work that is taken up again; that move it on towards publication; that take the pair
\* away; and that leave the request neither open nor with a pair.
SameRequest == request # Free /\ request' # Free /\ request'.thread = request.thread /\ request'.linked = request.linked
Continued   == SameRequest /\ {request.status, request'.status} \subseteq {"running", "changes_ready"}
Forwarded   == /\ SameRequest
               /\ \/ request'.status = request.status
                  \/ request.status = "changes_ready" /\ request'.status = "committed"
                  \/ request.status = "committed" /\ request'.status = "pr_opened"
                  \/ request.status = "pending" /\ request'.status = "dismissed"
StillThere  == \A w \in Workers : Exists(w) => Exists(w)'
Calm        == UNCHANGED <<pair, callback>> /\ StillThere
NobodyHas   == at["approve"] = "no" /\ ~HasRequest
Over        == pair' = Free /\ ~Open' /\ (UNCHANGED request \/ Published')

\* The files' part of a step: what is changed is saved or a fault, but for a report.
Reported == request # Free /\ request.status = "running" /\ request' = [request EXCEPT !.status = "changes_ready"]
SavedOn == failures' = 0 =>
    /\ requestFile' = request' \/ UNCHANGED requests \/ (Reported /\ UNCHANGED requestFile)
    /\ pairFile' = pair' \/ (UNCHANGED pairs /\ ("pairs" \in queued => "pairs" \in queued'))

\* What a step that is neither an approval's nor a handoff's may do.
Mild ==
    /\ UNCHANGED <<retired, at["approve"], mine["approve"], at["handoff"], mine["handoff"]>>
    /\ failures' \in {failures, failures + 1} /\ SavedOn
    /\ \/ Calm /\ (UNCHANGED request \/ Continued)
       \/ NobodyHas /\ Calm /\ Forwarded
       \/ NobodyHas /\ pair' = Free /\ UNCHANGED request /\ StillThere
       \/ NobodyHas /\ Over

LEMMA StatusFacts ==
    /\ \A s \in OwnerStatuses : s \in OpenStatuses /\ s \notin {"pending", "pr_opened", "discarded", "dismissed"}
    /\ {"approved", "running", "changes_ready", "committed"} = OwnerStatuses
    /\ OpenStatuses = OwnerStatuses \cup {"pr_opened"}
    /\ "discarded" \notin OpenStatuses /\ "pending" \notin OpenStatuses /\ "dismissed" \notin OpenStatuses
  BY DEF OwnerStatuses, OpenStatuses

\* What such a step keeps of the request, read off its four cases.
LEMMA MildIs ==
    ASSUME Mild, RequestNames, PairShows, NEW t \in Workers
    PROVE  /\ Published => Published'
           /\ Owner' => Owner /\ request'.thread = request.thread /\ (Usable(t) => Usable(t)')
                        /\ (request'.status = "approved" => request.status = "approved")
           /\ pair' # Free => /\ pair' = pair /\ UNCHANGED callback /\ Open' /\ request # Free
                              /\ request'.linked = request.linked
                              /\ (Exists(t) => Exists(t)') /\ (Usable(t) => Usable(t)') /\ (Kept(t) => Kept(t)')
           /\ request' # Free /\ request'.status \in {"pending", "approved"} =>
                  request # Free /\ request'.status = request.status /\ request'.thread = request.thread
           /\ ~NobodyHas => Calm /\ (UNCHANGED request \/ Continued)
PROOF
  <1>1. CASE Calm /\ (UNCHANGED request \/ Continued)
    <2>1. /\ pair' # Free => pair # Free
          /\ (Exists(t) => Exists(t)') /\ (Usable(t) => Usable(t)') /\ (Kept(t) => Kept(t)')
      BY <1>1 DEF Calm, StillThere, Usable, Kept, Mild
    <2>2. CASE UNCHANGED request
      BY <1>1, <2>1, <2>2 DEF Calm, Published, Owner, PairShows, Open
    <2>3. CASE Continued
      BY <1>1, <2>1, <2>3, StatusFacts DEF Continued, SameRequest, Calm, Published, Owner, Open
    <2> QED
      BY <1>1, <2>2, <2>3
  <1>2. CASE NobodyHas /\ Calm /\ Forwarded
    <2>1. /\ pair' # Free => pair # Free
          /\ (Exists(t) => Exists(t)') /\ (Usable(t) => Usable(t)') /\ (Kept(t) => Kept(t)')
      BY <1>2 DEF Calm, StillThere, Usable, Kept, Mild
    <2>2. pair # Free => Open
      BY DEF PairShows
    <2> QED
      BY <1>2, <2>1, <2>2, StatusFacts DEF Forwarded, SameRequest, Calm, Published, Owner, Open
  <1>3. CASE NobodyHas /\ pair' = Free /\ UNCHANGED request /\ StillThere
    <2>1. Usable(t) => Usable(t)'
      BY <1>3 DEF StillThere, Usable, Mild
    <2> QED
      BY <1>3, <2>1 DEF Published, Owner
  <1>4. CASE NobodyHas /\ Over
    BY <1>4, StatusFacts DEF Over, Published, Owner, Open
  <1> QED
    BY <1>1, <1>2, <1>3, <1>4 DEF Mild

LEMMA MildApproval ==
    ASSUME Mild, SourceInv, ApprovalRuns, RequestNames, PairShows, failures \in Nat, failures' <= 1
    PROVE  ApprovalRuns'
PROOF
  <1> DEFINE t == mine["approve"].thread
             s == at["approve"]
  <1>1. s' = s /\ t' = t /\ (failures = 1 => failures' = 1)
    BY DEF Mild
  <1>2. CASE s = "no"
    BY <1>1, <1>2 DEF ApprovalRuns, WithPrompt
  <1>3. CASE s # "no"
    <2>1. Calm /\ (UNCHANGED request \/ Continued)
      <3>1. ~NobodyHas
        BY <1>3 DEF NobodyHas
      <3> QED
        BY <3>1 DEF Mild
    <2>2. Owner'
      <3>1. Owner
        BY <1>3 DEF ApprovalRuns
      <3> QED
        BY <2>1, <3>1, StatusFacts DEF Owner, Continued, SameRequest
    <2>3. s = "starting" => request'.status = "approved"
      BY <2>1 DEF ApprovalRuns, Continued
    <2>4. s \in WithPrompt => request'.thread = t /\ request'.status \in {"running", "changes_ready"}
      BY <2>1 DEF ApprovalRuns, Continued, SameRequest
    <2>5. s \in {"prompting", "pairing", "supervising", "linking"} => Usable(t)'
      <3>1. SUFFICES ASSUME s \in {"prompting", "pairing", "supervising", "linking"} PROVE Usable(t)'
        OBVIOUS
      <3>2. t \in Workers /\ Usable(t)
        BY <3>1 DEF ApprovalRuns, SourceInv, ApproveKnows, WithPrompt
      <3>3. UNCHANGED retired /\ Exists(t)'
        BY <2>1, <3>2 DEF Calm, StillThere, Usable, Mild
      <3> QED
        BY <1>1, <3>2, <3>3 DEF Usable
    <2> QED
      BY <1>1, <2>1, <2>2, <2>3, <2>4, <2>5 DEF ApprovalRuns, Calm
  <1> QED
    BY <1>2, <1>3

LEMMA MildHandoff ==
    ASSUME Mild, SourceInv, Started \subseteq Started', HandoffRuns, RequestNames, PairShows,
           failures \in Nat, failures' <= 1
    PROVE  HandoffRuns'
PROOF
  <1> DEFINE h == mine["handoff"]
             s == at["handoff"]
  <1>1. s' = s /\ h' = h /\ (failures' = 0 => failures = 0)
    BY DEF Mild
  <1>2. (Replacing' <=> Replacing) /\ (HasRequest' <=> HasRequest) /\ \A x : ToUndo(x)' <=> ToUndo(x)
    BY <1>1 DEF Replacing, HasRequest, ToUndo
  <1>3. ASSUME s # "no", ~h.owned
        PROVE  Published' /\ (pair' # Free /\ ~ToUndo("detach")' => pair'.worker = h.thread)
    <2>1. Published'
      <3>1. CASE UNCHANGED request
        BY <1>3, <3>1 DEF HandoffRuns, Published
      <3>2. CASE ~UNCHANGED request
        BY <1>3, <3>2, StatusFacts DEF HandoffRuns, Mild, Over, Continued, Forwarded, SameRequest, Published
      <3> QED
        BY <3>1, <3>2
    <2>2. pair' # Free => pair' = pair
      BY DEF Mild, Calm, Over
    <2> QED
      BY <1>2, <1>3, <2>1, <2>2 DEF HandoffRuns
  <1>4. HasRequest => Owner' /\ request'.thread = request.thread
    <2>1. SUFFICES ASSUME HasRequest PROVE Owner' /\ request'.thread = request.thread
      OBVIOUS
    <2>2. (UNCHANGED request \/ Continued) /\ Owner
      BY <2>1 DEF Mild, NobodyHas, HandoffRuns
    <2> QED
      BY <2>2, StatusFacts DEF Continued, SameRequest, Owner
  <1>5. UNCHANGED retired
    BY DEF Mild
  <1> QED
    BY <1>1, <1>2, <1>3, <1>4, <1>5 DEF HandoffRuns

LEMMA MildShows ==
    ASSUME Mild, SourceInv, Started \subseteq Started', HandoffRuns, HandoffShows, RequestNames, PairShows
    PROVE  HandoffShows' /\ PairShows'
PROOF
  <1> DEFINE h == mine["handoff"]
             s == at["handoff"]
  <1>0. HandoffKnows /\ WorkShape
    BY DEF SourceInv
  <1>1. s' = s /\ h' = h /\ at'["approve"] = at["approve"]
    BY DEF Mild
  <1>2. (Replacing' <=> Replacing) /\ (HasRequest' <=> HasRequest) /\ \A x : ToUndo(x)' <=> ToUndo(x)
    BY <1>1 DEF Replacing, HasRequest, ToUndo
  <1>3. \A t \in Workers :
           pair' # Free => /\ pair' = pair /\ UNCHANGED callback /\ Open' /\ request # Free
                           /\ request'.linked = request.linked
                           /\ (Exists(t) => Exists(t)') /\ (Usable(t) => Usable(t)') /\ (Kept(t) => Kept(t)')
    BY MildIs
  <1>4. \A t \in Workers : Owner' => Owner /\ request'.thread = request.thread
    BY MildIs
  <1>5. UNCHANGED retired
    BY DEF Mild
  <1>6. ASSUME s \in WithNext, pair' # Free
        PROVE  /\ Exists(h.thread)' /\ (h.thread \notin retired' \/ ToUndo("unretire"))
               /\ h.thread \in callback' \/ ToUndo("resupervise")
    <2>1. h.thread \in Workers
      BY <1>0, <1>6 DEF HandoffKnows, WithNext
    <2> QED
      BY <1>1, <1>3, <1>5, <1>6, <2>1 DEF HandoffShows, Exists
  <1>7. ASSUME s \in WithNext \ {"undoing"}, pair' # Free \/ h.owned
        PROVE  Usable(h.next)' /\ (s # "tracking" => h.next \in callback')
    <2>1. h.next \in Workers
      BY <1>0, <1>7 DEF HandoffKnows
    <2>2. CASE h.owned
      <3>1. Calm
        BY <1>7, <2>2 DEF Mild, NobodyHas, HasRequest, Replacing
      <3>2. Usable(h.next) /\ (s # "tracking" => h.next \in callback)
        BY <1>7, <2>2 DEF HandoffShows
      <3> QED
        BY <1>1, <1>5, <2>1, <3>1, <3>2 DEF Calm, StillThere, Usable, Exists
    <2>3. CASE pair' # Free
      <3>1. pair # Free /\ UNCHANGED callback /\ (Usable(h.next) => worker'[h.next] \in {"idle", "running"})
        BY <1>3, <2>1, <2>3 DEF Usable, Exists
      <3>2. Usable(h.next) /\ (s # "tracking" => h.next \in callback)
        BY <1>7, <3>1 DEF HandoffShows
      <3> QED
        BY <1>1, <1>5, <3>1, <3>2 DEF Usable, Exists
    <2> QED
      BY <1>7, <2>2, <2>3
  <1>8. HandoffShows'
    <2>1. ASSUME Replacing, pair' # Free, ~ToUndo("detach")
          PROVE  pair'.worker = h.thread /\ (s \in WithNext => pair'.from # h.next)
      <3>1. pair' = pair
        BY <2>1 DEF Mild, Calm, Over
      <3> QED
        BY <2>1, <3>1 DEF HandoffShows
    <2>2. ASSUME Replacing, pair' # Free, ToUndo("detach")
          PROVE  /\ pair'.worker = h.next /\ pair'.from = h.thread
                 /\ h.before # Free /\ h.before.worker = h.thread
                 /\ h.before.from \notin {h.thread, h.next} /\ h.before.from \in Started'
      <3>1. pair' = pair
        BY <2>2 DEF Mild, Calm, Over
      <3> QED
        BY <2>2, <3>1 DEF HandoffShows
    <2> QED
      BY <1>1, <1>2, <1>6, <1>7, <2>1, <2>2 DEF HandoffShows
  <1>9. ASSUME pair' # Free PROVE PairShows'
    <2>1. pair' = pair /\ pair # Free /\ pair.worker \in Workers
      BY <1>9 DEF Mild, Calm, Over, PairShows
    <2>2. PICK t \in Workers : t = pair.worker
      BY <2>1
    <2>3. /\ Open' /\ request'.linked = request.linked /\ (Kept(t) => Kept(t)')
          /\ (Owner' => Owner /\ request'.thread = request.thread)
      BY <1>3, <1>4, <1>9
    <2>4. /\ pair'.worker = t /\ pair'.from # t /\ pair'.from \in Started'
          /\ at["approve"] \notin {"supervising", "linking", "unpairing"} => request'.linked
          /\ Owner' /\ ~HasRequest => t = request'.thread
      BY <2>1, <2>2, <2>3 DEF PairShows
    <2>5. s \notin WithNext /\ at["approve"] \notin {"supervising", "unpairing"} => Kept(t)'
      BY <2>1, <2>2, <2>3 DEF PairShows
    <2> QED
      BY <1>1, <1>2, <2>3, <2>4, <2>5 DEF PairShows, Kept, Usable, Exists
  <1> QED
    BY <1>8, <1>9 DEF PairShows

LEMMA MildNames ==
    ASSUME Mild, SourceInv, Started \subseteq Started', RequestNames, PairShows
    PROVE  RequestNames'
PROOF
  <1>1. CASE UNCHANGED request
    BY <1>1 DEF RequestNames, Mild, Calm, Over, Owner
  <1>2. CASE ~UNCHANGED request
    BY <1>2, StatusFacts DEF RequestNames, Mild, Calm, Continued, Forwarded, SameRequest, Over, Owner, Published, Open
  <1> QED
    BY <1>1, <1>2

LEMMA MildFiles ==
    ASSUME Mild, SourceInv, RequestNames, PairShows, FilesFollow, failures \in Nat
    PROVE  FilesFollow'
PROOF
  <1>1. SUFFICES ASSUME failures' = 0 PROVE FilesFollow'
    BY DEF FilesFollow
  <1>2. failures = 0 /\ at'["handoff"] = at["handoff"] /\ mine'["handoff"] = mine["handoff"]
    BY <1>1 DEF Mild
  <1>3. ASSUME Owner', request'.thread # Free
        PROVE  \E t \in Workers : t = request'.thread /\ Usable(t)'
    <2>1. request # Free /\ request'.thread = request.thread
      BY <1>3, StatusFacts DEF Mild, Continued, Forwarded, SameRequest, Over, Owner, Open
    <2>2. PICK t \in Workers : t = request.thread
      BY <1>3, <2>1, RequestIs DEF SourceInv, RequestShape, Maybe
    <2>3. Owner /\ (Usable(t) => Usable(t)')
      BY <1>3, MildIs
    <2>4. Usable(t)
      BY <1>2, <1>3, <2>1, <2>2, <2>3 DEF FilesFollow
    <2> QED
      BY <2>1, <2>2, <2>3, <2>4
  <1>4. \/ requestFile' = request'
        \/ /\ request' # Free /\ request'.status = "changes_ready"
           /\ requestFile' = [request' EXCEPT !.status = "running"]
    <2>1. CASE requestFile' = request'
      BY <2>1
    <2>2. CASE UNCHANGED requests
      BY <1>2, <2>2 DEF FilesFollow, requests
    <2>3. CASE Reported /\ UNCHANGED requestFile
      <3>1. requestFile = request
        BY <1>2, <2>3 DEF FilesFollow, Reported
      <3>2. request \in NamedRequests
        BY <2>3, RequestIs DEF SourceInv, RequestShape, Reported
      <3>3. /\ request' # Free /\ request'.status = "changes_ready"
            /\ request = [request' EXCEPT !.status = "running"]
        <4>1. "changes_ready" \in Statuses
          BY DEF Statuses, OpenStatuses
        <4>2. [request EXCEPT !.status = "changes_ready"] # Free
          BY <3>2, <4>1, RequestIs, RequestsAreSomething
        <4> QED
          BY <2>3, <3>2, <4>2 DEF NamedRequests, RequestRecords, Reported
      <3> QED
        BY <2>3, <3>1, <3>3
    <2> QED
      BY <1>1, <2>1, <2>2, <2>3 DEF Mild, SavedOn
  <1>5. \/ pairFile' = pair'
        \/ /\ pair' # Free /\ pairFile' = mine'["handoff"].before /\ "pairs" \in queued'
           /\ at'["handoff"] \in {"transferring", "flushing"}
    BY <1>1, <1>2 DEF Mild, SavedOn, FilesFollow, pairs
  <1> QED
    BY <1>3, <1>4, <1>5 DEF FilesFollow, Usable, Exists

\* A deletion or a closing that has come to its end keeps what it found, whoever steps
\* mildly beside it.
Ended(o) == /\ at[o] = "closing" \/ Purging(o) => pair = Free
            /\ Purging(o) => ~Open

LEMMA MildEnds ==
    ASSUME Mild, NEW o \in Discarding, Ended(o), at'[o] = at[o]
    PROVE  Ended(o)'
PROOF
  <1>1. pair = Free => pair' = Free
    BY DEF Mild, Calm, Over
  <1>2. Open' => Open
    BY StatusFacts DEF Mild, Continued, Forwarded, SameRequest, Over, Open
  <1> QED
    BY <1>1, <1>2 DEF Ended, Purging

\* A request whose status alone is changed.
LEMMA StatusAlone ==
    ASSUME NEW r \in NamedRequests, NEW x \in Statuses
    PROVE  /\ [r EXCEPT !.status = x] # Free /\ [r EXCEPT !.status = x].status = x
           /\ [r EXCEPT !.status = x].thread = r.thread /\ [r EXCEPT !.status = x].linked = r.linked
PROOF
  <1>1. [r EXCEPT !.status = x] \in NamedRequests
    BY DEF NamedRequests, RequestRecords
  <1> QED
    BY <1>1, RequestsAreSomething DEF NamedRequests, RequestRecords

\* Work that was ready goes on, or work that went on is ready.
LEMMA ContinuedIs ==
    ASSUME RequestShape, request # Free, NEW x \in {"running", "changes_ready"},
           request.status \in {"running", "changes_ready"}, request' = [request EXCEPT !.status = x]
    PROVE  Continued
PROOF
  <1>1. request \in NamedRequests /\ x \in Statuses
    BY RequestIs DEF RequestShape, Statuses, OpenStatuses
  <1>2. request' # Free /\ request'.status = x /\ request'.thread = request.thread /\ request'.linked = request.linked
    BY <1>1, StatusAlone
  <1> QED
    BY <1>2 DEF Continued, SameRequest

\* A step's outcome, and what a write under it leaves of the files.
LEMMA OutcomeIs ==
    ASSUME failures \in Nat, NEW ok \in BOOLEAN, Outcome(ok)
    PROVE  /\ failures' \in {failures, failures + 1} /\ failures' \in Nat
           /\ ok => failures' = failures
           /\ ~ok => failures' # 0 /\ (failures' <= 1 => failures = 0 /\ failures' = 1)
  BY DEF Outcome

LEMMA WriteSaves ==
    ASSUME failures \in Nat, NEW r, NEW ok \in BOOLEAN, Write(r, ok)
    PROVE  /\ request' = r /\ (failures' = 0 => requestFile' = request')
           /\ "pairs" \in queued => "pairs" \in queued'
           /\ failures' \in {failures, failures + 1} /\ failures' \in Nat
  BY OutcomeIs DEF Write

LEMMA WritePairSaves ==
    ASSUME failures \in Nat, NEW p, NEW ok \in BOOLEAN, WritePair(p, ok)
    PROVE  /\ pair' = p /\ (failures' = 0 => pairFile' = pair')
           /\ failures' \in {failures, failures + 1} /\ failures' \in Nat
  BY OutcomeIs DEF WritePair

\* Who has the request keeps approvals and handoffs from it; so does nobody.
LEMMA NobodyBeside ==
    ASSUME SourceInv,
           requestLock = Free \/ \E o \in Operations \ {"approve", "handoff"} : Inside(o)
    PROVE  NobodyHas
PROOF
  <1>1. {"approve", "handoff"} \subseteq Operations
    BY DEF Operations
  <1>2. ~Inside("approve") /\ ~Inside("handoff")
    BY <1>1, OneInside
  <1>3. at["approve"] = "no"
    BY <1>2 DEF Inside
  <1>4. ~HasRequest
    BY <1>2 DEF Inside, HasRequest, Replacing
  <1> QED
    BY <1>3, <1>4 DEF NobodyHas

\* A step of another operation does not touch the approval and the handoff.
LEMMA BesideAlone ==
    ASSUME NEW o, o \notin {"approve", "handoff"}, Alone(o)
    PROVE  UNCHANGED <<at["approve"], mine["approve"], at["handoff"], mine["handoff"]>>
PROOF
  <1>1. {"approve", "handoff"} \subseteq Operations \ {o}
    BY DEF Operations
  <1> QED
    BY <1>1 DEF Alone, LocalsAlone

LEMMA DiscardMild ==
    ASSUME SourceInv, PairShows, DiscardsEnd, failures \in Nat, NEW o \in Discarding,
           (o = "discard" /\ DiscardBegins) \/ Discard(o)
    PROVE  Mild /\ Ended(o)'
PROOF
  <1>0. /\ LocalShape /\ LockShape /\ RequestShape /\ PairShape /\ WorkShape /\ RequestTurns
        /\ o \in Operations \ {"approve", "handoff"} /\ Ended(o)
    BY DEF SourceInv, Discarding, Operations, DiscardsEnd, Ended
  <1>1. Alone(o) /\ UNCHANGED <<at["approve"], mine["approve"], at["handoff"], mine["handoff"]>>
    BY <1>0, DiscardAlone, BesideAlone
  <1>2. LocalShape' /\ at \in [Operations -> Steps]
    BY <1>0, <1>1 DEF Alone, LocalsAlone, LocalShape
  <1>3. CASE /\ UNCHANGED <<requests, pairs, queued, callback, retired>> /\ StillThere
             /\ failures' \in {failures, failures + 1} /\ at'[o] \notin {"closing", "purging", "unsupervising"}
    BY <1>1, <1>3 DEF Mild, SavedOn, Calm, Ended, Purging, requests, pairs
  <1>4. CASE (o = "discard" /\ DiscardBegins) \/ DiscardLocks(o) \/ DiscardEnters(o) \/ DiscardQuiesces(o)
    <2>1. UNCHANGED <<requests, pairs, queued, workers>> /\ StillThere
      BY <1>4 DEF DiscardBegins, DiscardLocks, DiscardEnters, DiscardQuiesces, StillThere, Exists, workers
    <2>2. failures' \in {failures, failures + 1}
      BY <1>4, OutcomeIs DEF DiscardBegins, DiscardLocks, DiscardEnters, DiscardQuiesces
    <2>3. at'[o] \in {"locking", "entering", "quiescing", "deleting", "stopping", "no"}
      BY <1>0, <1>2, <1>4
      DEF DiscardBegins, DiscardLocks, DiscardEnters, DiscardQuiesces, Go, End
    <2> QED
      BY <1>3, <2>1, <2>2, <2>3 DEF workers
  <1>5. CASE DiscardStops(o)
    <2>1. PICK ok \in BOOLEAN :
             /\ Outcome(ok) /\ UNCHANGED <<requests, pairs, queued, retired, callback>>
             /\ IF ok THEN Go(o, "unpairing") ELSE End(o)
             /\ worker' = IF ok /\ mine[o].thread # Free /\ worker[mine[o].thread] = "running"
                          THEN [worker EXCEPT ![mine[o].thread] = "idle"] ELSE worker
      BY <1>5 DEF DiscardStops
    <2>2. StillThere
      BY <1>0, <2>1 DEF StillThere, Exists, WorkShape
    <2>3. at'[o] \in {"unpairing", "no"}
      BY <1>0, <1>2, <2>1 DEF Go, End
    <2> QED
      BY <1>3, <2>1, <2>2, <2>3, OutcomeIs
  <1>6. CASE DiscardUnpairs(o) \/ DiscardCloses(o)
    <2>1. at[o] \in Closing
      BY <1>6 DEF DiscardUnpairs, DiscardCloses, Closing
    <2>2. Inside(o) /\ request # Free /\ request \in NamedRequests
      BY <2>1, DiscardHas
    <2>3. NobodyHas
      BY <1>0, <2>2, NobodyBeside
    <2>4. CASE DiscardUnpairs(o)
      <3>1. PICK ok \in BOOLEAN :
               /\ IF ok /\ request.linked THEN WritePair(Free, TRUE) /\ callback' = {}
                                          ELSE Outcome(ok) /\ UNCHANGED <<pairs, queued, callback>>
               /\ IF ok THEN Go(o, "closing") /\ UNCHANGED <<mine, locks>> ELSE End(o)
               /\ UNCHANGED <<requests, worker, reported, retired>>
        BY <2>4 DEF DiscardUnpairs
      <3>2. StillThere /\ UNCHANGED request
        BY <3>1 DEF StillThere, Exists, requests
      <3>3. CASE ok /\ request.linked
        <4>1. pair' = Free /\ (failures' = 0 => pairFile' = pair') /\ failures' \in {failures, failures + 1}
          BY <3>1, <3>3, WritePairSaves
        <4>2. at'[o] = "closing"
          BY <1>0, <1>2, <3>1, <3>3 DEF Go
        <4>3. SavedOn
          BY <3>1, <4>1 DEF SavedOn
        <4> QED
          BY <1>1, <2>3, <3>1, <3>2, <4>1, <4>2, <4>3 DEF Mild, Ended, Purging
      <3>4. CASE ~(ok /\ request.linked)
        <4>1. UNCHANGED <<pairs, queued, callback>> /\ failures' \in {failures, failures + 1}
          BY <3>1, <3>4, OutcomeIs
        <4>2. at'[o] = IF ok THEN "closing" ELSE "no"
          BY <1>0, <1>2, <3>1 DEF Go, End
        <4>3. ok => pair = Free
          BY <2>3, <3>4 DEF PairShows, NobodyHas
        <4>4. SavedOn /\ Calm
          BY <3>1, <3>2, <4>1 DEF SavedOn, Calm, requests, pairs
        <4> QED
          BY <1>1, <3>1, <3>2, <4>1, <4>2, <4>3, <4>4 DEF Mild, Ended, Purging, pairs
      <3> QED
        BY <3>3, <3>4
    <2>5. CASE DiscardCloses(o)
      <3>1. PICK ok \in BOOLEAN :
               /\ Write(With(request, "discarded", request.thread, FALSE), ok)
               /\ IF o = "delete" THEN Go(o, "deleting") ELSE End(o)
               /\ UNCHANGED <<pairs, workers>> /\ at[o] = "closing"
        BY <2>5 DEF DiscardCloses
      <3>2. pair' = Free
        BY <1>0, <3>1 DEF Ended, pairs
      <3>3. request'.status = "discarded" /\ (failures' = 0 => requestFile' = request')
            /\ failures' \in {failures, failures + 1} /\ ("pairs" \in queued => "pairs" \in queued')
        <4>1. With(request, "discarded", request.thread, FALSE).status = "discarded"
          BY DEF With
        <4> QED
          BY <3>1, <4>1, WriteSaves
      <3>4. at'[o] \in {"deleting", "no"}
        BY <1>0, <1>2, <3>1 DEF Go, End
      <3>5. Over
        BY <3>2, <3>3 DEF Over, Open, OpenStatuses, Published
      <3>6. SavedOn
        BY <3>1, <3>3 DEF SavedOn
      <3> QED
        BY <1>1, <2>3, <3>1, <3>3, <3>4, <3>5, <3>6 DEF Mild, Ended, Purging, workers
    <2> QED
      BY <1>6, <2>4, <2>5
  <1> QED
    BY <1>4, <1>5, <1>6 DEF Discard

LEMMA DeleteMild ==
    ASSUME SourceInv, PairShows, DiscardsEnd, failures \in Nat, DeleteBegins \/ Delete
    PROVE  Mild /\ Ended("delete")'
PROOF
  <1>0. /\ LocalShape /\ LockShape /\ RequestShape /\ PairShape /\ WorkShape /\ RequestTurns
        /\ "delete" \in Operations \ {"approve", "handoff"} /\ Ended("delete")
    BY DEF SourceInv, Discarding, Operations, DiscardsEnd, Ended
  <1>1. Alone("delete") /\ UNCHANGED <<at["approve"], mine["approve"], at["handoff"], mine["handoff"]>>
    BY <1>0, DeleteAlone, BesideAlone
  <1>2. at \in [Operations -> Steps]
    BY <1>0 DEF LocalShape
  <1>3. CASE DeleteBegins
    <2>1. UNCHANGED <<requests, pairs, queued, workers, failures>> /\ at'["delete"] = "deleting"
      BY <1>0, <1>2, <1>3 DEF DeleteBegins, Go
    <2> QED
      BY <1>1, <2>1 DEF Mild, SavedOn, Calm, StillThere, Exists, Ended, Purging, requests, pairs, workers
  <1>4. CASE DeleteEnters
    <2>0. NobodyHas
      <3>1. requestLock = Free
        BY <1>4 DEF DeleteEnters
      <3> QED
        BY <3>1, NobodyBeside
    <2>1. UNCHANGED <<pairs, workers>> /\ StillThere /\ Calm
      BY <1>4 DEF DeleteEnters, StillThere, Exists, Calm, pairs, workers
    <2>2. CASE UNCHANGED <<requests, queued, failures>>
      <3>1. at'["delete"] \in {"no", "locking", "purging"} /\ (at'["delete"] = "purging" => ~Open)
        BY <1>0, <1>2, <1>4 DEF DeleteEnters, Go, End
      <3>2. ~Open => pair = Free
        BY DEF PairShows
      <3> QED
        BY <1>1, <2>1, <2>2, <3>1, <3>2 DEF Mild, SavedOn, Ended, Purging, requests, pairs, workers, Open
    <2>3. CASE ~UNCHANGED <<requests, queued, failures>>
      <3>1. PICK ok \in BOOLEAN : Write([request EXCEPT !.workers = @ \cup {pair.worker}], ok)
        BY <1>4, <2>3 DEF DeleteEnters
      <3>2. request # Free /\ at'["delete"] \in {"no", "locking"} /\ pair.worker \in Workers
        BY <1>0, <1>2, <1>4, <2>3 DEF DeleteEnters, Go, End, PairShows
      <3>3. request \in NamedRequests
        BY <1>0, <3>2, RequestIs DEF RequestShape
      <3>4. /\ [request EXCEPT !.workers = @ \cup {pair.worker}] \in NamedRequests
            /\ [request EXCEPT !.workers = @ \cup {pair.worker}].thread = request.thread
            /\ [request EXCEPT !.workers = @ \cup {pair.worker}].linked = request.linked
            /\ [request EXCEPT !.workers = @ \cup {pair.worker}].status = request.status
        BY <3>2, <3>3 DEF NamedRequests, RequestRecords
      <3>5. Forwarded
        BY <3>1, <3>2, <3>4, RequestsAreSomething DEF Write, Forwarded, SameRequest
      <3>6. SavedOn /\ failures' \in {failures, failures + 1}
        BY <2>1, <3>1, WriteSaves DEF SavedOn, pairs
      <3> QED
        BY <1>1, <2>0, <2>1, <3>2, <3>5, <3>6 DEF Mild, Ended, Purging, workers
    <2> QED
      BY <2>2, <2>3
  <1>5. CASE DeleteWorker \/ DeleteUnsupervises \/ DeleteRemoves
    <2>1. at["delete"] \in {"purging", "unsupervising"}
      BY <1>5 DEF DeleteWorker, DeleteUnsupervises, DeleteRemoves
    <2>2. Inside("delete") /\ pair = Free /\ ~Open
      BY <1>0, <2>1, DeleteHas DEF Ended
    <2>3. NobodyHas
      BY <1>0, <2>2, NobodyBeside
    <2>4. CASE DeleteWorker \/ DeleteUnsupervises
      <3>1. UNCHANGED <<requests, pairs, queued, retired>> /\ failures' \in {failures, failures + 1}
        BY <2>4, OutcomeIs DEF DeleteWorker, DeleteUnsupervises
      <3>2. Over /\ SavedOn
        BY <2>2, <3>1 DEF Over, SavedOn, Open, requests, pairs
      <3>3. pair' = Free /\ ~Open'
        BY <3>2 DEF Over
      <3> QED
        BY <1>1, <2>3, <3>1, <3>2, <3>3 DEF Mild, Ended
    <2>5. CASE DeleteRemoves
      <3>1. PICK ok \in BOOLEAN :
               /\ IF ok THEN Write(Free, TRUE) ELSE Outcome(FALSE) /\ UNCHANGED <<requests, queued>>
               /\ UNCHANGED <<pairs, workers>>
        BY <2>5 DEF DeleteRemoves
      <3>2. CASE ok
        <4>1. request' = Free /\ SavedOn /\ failures' \in {failures, failures + 1}
          BY <3>1, <3>2, WriteSaves DEF SavedOn, pairs
        <4>2. Over
          BY <2>2, <3>1, <4>1 DEF Over, Open, Published, pairs
        <4>3. pair' = Free /\ ~Open'
          BY <4>2 DEF Over
        <4> QED
          BY <1>1, <2>3, <3>1, <4>1, <4>2, <4>3 DEF Mild, Ended, workers
      <3>3. CASE ~ok
        <4>1. UNCHANGED <<requests, queued, pairs>> /\ failures' \in {failures, failures + 1}
          BY <3>1, <3>3, OutcomeIs
        <4>2. Over /\ SavedOn
          BY <2>2, <4>1 DEF Over, SavedOn, Open, requests, pairs
        <4>3. pair' = Free /\ ~Open'
          BY <4>2 DEF Over
        <4> QED
          BY <1>1, <2>3, <3>1, <4>1, <4>2, <4>3 DEF Mild, Ended, workers
      <3> QED
        BY <3>2, <3>3
    <2> QED
      BY <1>5, <2>4, <2>5
  <1> QED
    BY <1>3, <1>4, <1>5 DEF Delete

LEMMA MessageMild ==
    ASSUME SourceInv, failures \in Nat, MessageBegins \/ Message
    PROVE  Mild /\ \A o \in Discarding : at'[o] = at[o]
PROOF
  <1>0. /\ LocalShape /\ LockShape /\ RequestShape /\ PairShape /\ WorkShape /\ MessageKnows
        /\ "message" \in Operations \ {"approve", "handoff"}
    BY DEF SourceInv, Operations
  <1>1. Alone("message") /\ UNCHANGED <<at["approve"], mine["approve"], at["handoff"], mine["handoff"]>>
    BY <1>0, MessageAlone, BesideAlone
  <1>2. \A o \in Discarding : at'[o] = at[o]
    <2>1. Discarding \subseteq Operations \ {"message"}
      BY DEF Discarding, Operations
    <2> QED
      BY <1>1, <2>1 DEF Alone, LocalsAlone
  <1>3. UNCHANGED <<pairs, retired, callback>> /\ ("pairs" \in queued => "pairs" \in queued')
    BY DEF MessageBegins, Message, MessageLocks, MessageEnters, MessageArrives, MessageUnknown, MessageRejected, workers
  <1>4. failures' \in {failures, failures + 1}
    BY OutcomeIs DEF MessageBegins, Message, MessageLocks, MessageEnters, MessageArrives, MessageUnknown, MessageRejected
  <1>5. StillThere
    <2>1. CASE MessageArrives
      BY <1>0, <2>1 DEF MessageArrives, StillThere, Exists, WorkShape
    <2>2. CASE UNCHANGED worker
      BY <2>2 DEF StillThere, Exists
    <2> QED
      BY <2>1, <2>2 DEF MessageBegins, Message, MessageLocks, MessageEnters, MessageUnknown, MessageRejected, workers
  <1>6. UNCHANGED requests \/ (requestFile' = request' /\ (UNCHANGED request \/ Continued))
    <2>1. CASE MessageEnters /\ ~UNCHANGED requests
      <3>1. /\ request # Free /\ request.status = "changes_ready" /\ requestFile' = request'
            /\ request' \in {[request EXCEPT !.status = "running"], request}
        BY <2>1 DEF MessageEnters
      <3> QED
        BY <1>0, <3>1, ContinuedIs
    <2>2. CASE MessageRejected /\ ~UNCHANGED requests
      <3>1. /\ request # Free /\ request.status = "running" /\ requestFile' = request'
            /\ request' = [request EXCEPT !.status = "changes_ready"]
        BY <2>2 DEF MessageRejected
      <3> QED
        BY <1>0, <3>1, ContinuedIs
    <2> QED
      BY <2>1, <2>2 DEF MessageBegins, Message, MessageLocks, MessageArrives, MessageUnknown
  <1>7. SavedOn
    BY <1>3, <1>6 DEF SavedOn
  <1> QED
    BY <1>1, <1>2, <1>3, <1>4, <1>5, <1>6, <1>7 DEF Mild, Calm, requests, pairs

LEMMA OthersMild ==
    ASSUME SourceInv, failures \in Nat,
           \/ Publish \/ Dismiss \/ SavesRequests \/ SavesPairs \/ UNCHANGED sourceVars
           \/ \E w \in Workers : Report(w) \/ Rests(w)
    PROVE  Mild /\ UNCHANGED at
PROOF
  <1>0. RequestShape /\ PairShape /\ WorkShape
    BY DEF SourceInv
  <1>1. UNCHANGED <<at, mine, retired, callback, pair>>
    BY DEF Publish, Dismiss, SavesRequests, SavesPairs, Report, Rests, sourceVars, workers, pairs, WritePair
  <1>2. StillThere /\ Calm
    <2>1. CASE \E w \in Workers : Rests(w)
      BY <1>0, <1>1, <2>1 DEF Rests, StillThere, Exists, WorkShape, Calm
    <2>2. CASE UNCHANGED worker
      BY <1>1, <2>2 DEF StillThere, Exists, Calm
    <2> QED
      BY <2>1, <2>2 DEF Publish, Dismiss, SavesRequests, SavesPairs, Report, sourceVars, workers
  <1>3. CASE Publish \/ Dismiss
    <2>1. NobodyHas
      <3>1. requestLock = Free
        BY <1>3 DEF Publish, Dismiss
      <3> QED
        BY <3>1, NobodyBeside
    <2>2. PICK ok \in BOOLEAN, x \in Statuses :
             /\ request # Free /\ Write([request EXCEPT !.status = x], ok) /\ UNCHANGED pairs
             /\ \/ request.status = "changes_ready" /\ x = "committed"
                \/ request.status = "committed" /\ x = "pr_opened"
                \/ request.status = "pending" /\ x = "dismissed"
      <3>1. CASE Publish
        <4>1. PICK ok \in BOOLEAN :
                 /\ request # Free /\ request.status \in {"changes_ready", "committed"} /\ UNCHANGED pairs
                 /\ Write([request EXCEPT !.status = IF @ = "committed" THEN "pr_opened" ELSE "committed"], ok)
          BY <3>1 DEF Publish
        <4>2. {"committed", "pr_opened"} \subseteq Statuses
          BY DEF Statuses, OpenStatuses
        <4>3. CASE request.status = "committed"
          BY <4>1, <4>2, <4>3
        <4>4. CASE request.status = "changes_ready"
          BY <4>1, <4>2, <4>4
        <4> QED
          BY <4>1, <4>3, <4>4
      <3>2. CASE Dismiss
        BY <3>2 DEF Dismiss, Statuses
      <3> QED
        BY <1>3, <3>1, <3>2
    <2>3. SavedOn /\ failures' \in {failures, failures + 1} /\ request' = [request EXCEPT !.status = x]
      BY <2>2, WriteSaves DEF SavedOn, pairs
    <2>4. Forwarded
      <3>1. request \in NamedRequests
        BY <1>0, <2>2, RequestIs DEF RequestShape
      <3> QED
        BY <2>2, <2>3, <3>1, StatusAlone DEF Forwarded, SameRequest
    <2> QED
      BY <1>1, <1>2, <2>1, <2>3, <2>4 DEF Mild
  <1>4. CASE SavesRequests
    <2>1. PICK ok \in BOOLEAN : Write(request, ok) /\ UNCHANGED pairs
      BY <1>4 DEF SavesRequests
    <2>2. SavedOn /\ failures' \in {failures, failures + 1} /\ UNCHANGED request
      BY <2>1, WriteSaves DEF SavedOn, pairs
    <2> QED
      BY <1>1, <1>2, <2>2 DEF Mild
  <1>5. CASE SavesPairs
    <2>1. PICK ok \in BOOLEAN : WritePair(pair, ok) /\ UNCHANGED requests
      BY <1>5 DEF SavesPairs
    <2>2. SavedOn /\ failures' \in {failures, failures + 1} /\ UNCHANGED request
      BY <2>1, WritePairSaves DEF SavedOn, requests
    <2> QED
      BY <1>1, <1>2, <2>2 DEF Mild
  <1>6. CASE UNCHANGED sourceVars \/ \E w \in Workers : Report(w) \/ Rests(w)
    <2>1. UNCHANGED <<pairs, failures>> /\ queued \subseteq queued'
      BY <1>6 DEF Report, Rests, sourceVars
    <2>2. UNCHANGED requests \/ (Reported /\ UNCHANGED requestFile)
      BY <1>6 DEF Report, Rests, sourceVars, requests, Reported
    <2>3. UNCHANGED request \/ Continued
      BY <1>0, <2>2, ContinuedIs DEF Reported, requests
    <2> QED
      BY <1>1, <1>2, <2>1, <2>2, <2>3 DEF Mild, SavedOn
  <1> QED
    BY <1>1, <1>3, <1>4, <1>5, <1>6

-----------------------------------------------------------------------------
(* An approval's own steps, beside which no handoff replaces a Worker.     *)

LEMMA ApproveQuiet ==
    ASSUME SourceInv, ApprovalRuns, HandoffRuns, ApproveBegins \/ Approve
    PROVE  /\ ~Replacing /\ ~HasRequest' /\ UNCHANGED <<at["handoff"], mine["handoff"]>>
           /\ at["handoff"] \notin WithNext
           /\ HandoffRuns' /\ HandoffShows' /\ \A o \in Discarding : Ended(o)'
PROOF
  <1>0. {"approve", "handoff"} \subseteq Operations /\ Discarding \subseteq Operations \ {"approve"}
    BY DEF Operations, Discarding
  <1>1. Alone("approve")
    BY ApproveAlone DEF SourceInv
  <1>2. /\ UNCHANGED <<at["handoff"], mine["handoff"]>>
        /\ \A o \in Discarding : at'[o] = at[o]
    BY <1>0, <1>1 DEF Alone, LocalsAlone, Discarding, Operations
  <1>3. ~Replacing /\ (at["handoff"] # "no" => mine["handoff"].owned)
    <2>1. CASE ApproveBegins
      <3>1. request # Free /\ request.status = "pending"
        BY <2>1 DEF ApproveBegins
      <3>2. ~Published /\ ~Owner
        BY <3>1, StatusFacts DEF Published, Owner
      <3> QED
        BY <3>2 DEF HandoffRuns, HasRequest, Replacing, WithNext
    <2>2. CASE Approve
      <3>1. at["approve"] # "no"
        BY <2>2
        DEF Approve, ApproveStarts, ApproveRefused, ApprovePrompts, ApprovePairs, ApproveSupervises,
            ApproveLinks, ApproveUnpairs, ApproveDeletes, ApproveReverts
      <3> QED
        BY <3>1, ApprovesOrReplaces
    <2> QED
      BY <2>1, <2>2
  <1>4. ~Replacing' /\ ~HasRequest'
    BY <1>2, <1>3 DEF Replacing, HasRequest
  <1>5. HandoffRuns' /\ HandoffShows'
    <2>1. at'["handoff"] \notin WithNext /\ at'["handoff"] # "undoing"
          /\ (at'["handoff"] # "no" => mine'["handoff"].owned)
      BY <1>2, <1>3 DEF Replacing, WithNext
    <2> QED
      BY <1>4, <2>1 DEF HandoffRuns, HandoffShows
  <1>6. ASSUME NEW o \in Discarding PROVE ~Inside(o)
    <2>1. CASE ApproveBegins
      <3>1. requestLock = Free
        BY <2>1 DEF ApproveBegins
      <3> QED
        BY <1>0, <3>1, OneInside
    <2>2. CASE Approve
      <3>1. Inside("approve")
        BY <2>2
        DEF Approve, ApproveStarts, ApproveRefused, ApprovePrompts, ApprovePairs, ApproveSupervises,
            ApproveLinks, ApproveUnpairs, ApproveDeletes, ApproveReverts, Inside
      <3> QED
        BY <1>0, <3>1, OneInside
    <2> QED
      BY <2>1, <2>2
  <1>7. \A o \in Discarding : Ended(o)'
    BY <1>2, <1>6 DEF Ended, Inside, Closing, Purging
  <1> QED
    BY <1>2, <1>3, <1>4, <1>5, <1>7 DEF Replacing

\* Without a pair nothing is claimed of it.
LEMMA NoPair == pair' = Free => PairShows'
  BY DEF PairShows

\* The files after a step beside which no handoff is replacing its Worker.
LEMMA FilesAfter ==
    ASSUME FilesFollow, failures \in Nat, ~Replacing,
           failures' = 0 => /\ failures = 0
                            /\ requestFile' = request' \/ UNCHANGED requests
                            /\ pairFile' = pair' \/ UNCHANGED pairs
                            /\ Owner' /\ request'.thread # Free =>
                                   \E w \in Workers : w = request'.thread /\ Usable(w)'
    PROVE  FilesFollow'
PROOF
  <1>1. SUFFICES ASSUME failures' = 0 PROVE FilesFollow'
    BY DEF FilesFollow
  <1>2. failures = 0 /\ (pairFile = pair \/ pairFile' = pair')
    BY <1>1 DEF FilesFollow, Replacing, WithNext
  <1> QED
    BY <1>1, <1>2 DEF FilesFollow, requests, pairs, Usable, Exists

\* A request that is written with another state and another Worker.
LEMMA WriteWith ==
    ASSUME failures \in Nat, RequestShape, request # Free, NEW x \in Statuses, NEW t \in Maybe(Workers),
           NEW ok \in BOOLEAN, Write(With(request, x, t, request.linked), ok)
    PROVE  /\ request' # Free /\ request'.status = x /\ request'.thread = t /\ request'.linked = request.linked
           /\ failures' = 0 => failures = 0 /\ requestFile' = request'
           /\ ~ok /\ failures' <= 1 => failures' = 1
PROOF
  <1>1. request \in NamedRequests
    BY RequestIs DEF RequestShape
  <1>2. With(request, x, t, request.linked) \in NamedRequests
    BY <1>1 DEF NamedRequests, RequestRecords, With, Maybe
  <1>3. request' = With(request, x, t, request.linked) /\ (ok => requestFile' = request') /\ Outcome(ok)
    BY DEF Write
  <1>4. /\ failures' = 0 => failures = 0 /\ ok
        /\ ~ok /\ failures' <= 1 => failures' = 1
    BY <1>3 DEF Outcome
  <1>5. request' # Free
    BY <1>2, <1>3, RequestsAreSomething
  <1>6. request'.status = x /\ request'.thread = t /\ request'.linked = request.linked
    BY <1>3 DEF With
  <1> QED
    BY <1>3, <1>4, <1>5, <1>6

LEMMA ApproveBeginsKeeps ==
    ASSUME SourceInv, OneFault, failures \in Nat, ApproveBegins
    PROVE  OneFault'
PROOF
  <1>0. RequestShape /\ LocalShape /\ ApprovalRuns /\ HandoffRuns /\ RequestNames /\ FilesFollow
    BY DEF SourceInv, OneFault
  <1>1. /\ ~Replacing /\ HandoffRuns' /\ HandoffShows' /\ (\A o \in Discarding : Ended(o)')
        /\ DiscardsEnd'
    BY <1>0, ApproveQuiet DEF DiscardsEnd, Ended
  <1>2. PICK ok \in BOOLEAN :
           /\ request # Free /\ request.status = "pending"
           /\ Write(With(request, "approved", request.thread, request.linked), ok)
           /\ IF ok THEN Go("approve", "starting") ELSE UNCHANGED at
           /\ UNCHANGED <<pairs, workers, mine>> /\ at["approve"] = "no"
    BY DEF ApproveBegins, Begin
  <1>3. pair = Free /\ request.thread = Free /\ pair' = Free
    BY <1>0, <1>2 DEF RequestNames, pairs
  <1>4. /\ request' # Free /\ request'.status = "approved" /\ request'.thread = Free
        /\ failures' = 0 => failures = 0 /\ requestFile' = request'
    <2>1. request.thread \in Maybe(Workers) /\ "approved" \in Statuses
      BY <1>0, <1>2, RequestIs DEF RequestShape, Statuses, OpenStatuses
    <2> QED
      BY <1>0, <1>2, <1>3, <2>1, WriteWith
  <1>5. at'["approve"] \in {"starting", "no"}
    BY <1>0, <1>2 DEF Go, LocalShape, Operations
  <1>6. Owner'
    BY <1>4, StatusFacts DEF Owner
  <1>7. ApprovalRuns'
    BY <1>3, <1>4, <1>5, <1>6 DEF ApprovalRuns, WithPrompt
  <1>8. RequestNames'
    BY <1>0, <1>2, <1>3, <1>4 DEF RequestNames, workers, Started
  <1>9. FilesFollow'
    BY <1>0, <1>1, <1>2, <1>4, FilesAfter DEF pairs
  <1> QED
    BY <1>1, <1>3, <1>7, <1>8, <1>9, NoPair DEF OneFault

LEMMA ApproveKeeps ==
    ASSUME SourceInv, OneFault, failures \in Nat, failures' <= 1, Approve
    PROVE  OneFault'
PROOF
  <1> DEFINE t == mine["approve"].thread
             s == at["approve"]
  <1>0. /\ RequestShape /\ PairShape /\ WorkShape /\ LocalShape /\ ApproveKnows
        /\ ApprovalRuns /\ HandoffRuns /\ PairShows /\ RequestNames /\ FilesFollow
    BY DEF SourceInv, OneFault
  <1>1. /\ ~Replacing /\ ~HasRequest' /\ at["handoff"] \notin WithNext /\ at'["handoff"] = at["handoff"]
        /\ HandoffRuns' /\ HandoffShows' /\ DiscardsEnd'
    BY <1>0, ApproveQuiet DEF DiscardsEnd, Ended
  <1>2. SUFFICES ApprovalRuns' /\ PairShows' /\ RequestNames' /\ FilesFollow'
    BY <1>1 DEF OneFault
  <1>3. s # "no"
    BY DEF Approve, ApproveStarts, ApproveRefused, ApprovePrompts, ApprovePairs, ApproveSupervises,
           ApproveLinks, ApproveUnpairs, ApproveDeletes, ApproveReverts
  <1>4. Owner /\ request # Free /\ request \in NamedRequests
    BY <1>0, <1>3, RequestIs DEF ApprovalRuns, Owner, RequestShape
  <1>5. s \in WithPrompt => t \in Workers /\ request.thread = t /\ request.status \in {"running", "changes_ready"}
    BY <1>0 DEF ApproveKnows, ApprovalRuns
  <1>6. \A x \in Steps : Go("approve", x) => at'["approve"] = x
    BY <1>0 DEF Go, LocalShape, Operations
  <1>7. End("approve") => at'["approve"] = "no"
    BY <1>0 DEF End, LocalShape, Operations
  <1>8. s # "no" /\ ~Replacing /\ ~HasRequest /\ \A w \in Workers : w \in retired => worker[w] # "none"
    BY <1>0, <1>1, <1>3, FreeIsNothing DEF HasRequest, RequestNames, Started
  <1>9. failures' = 0 => failures' = failures \/ failures # 0
    OBVIOUS
  <1>10. CASE ApproveStarts
    <2>1. PICK w \in Workers, ok \in BOOLEAN :
             /\ s = "starting" /\ Fresh(w) /\ worker' = [worker EXCEPT ![w] = "idle"]
             /\ mine' = [mine EXCEPT !["approve"].thread = w]
             /\ Write(With(request, "running", w, request.linked), ok)
             /\ Go("approve", IF ok THEN "prompting" ELSE "deleting")
             /\ UNCHANGED <<pairs, reported, retired, callback>>
      BY <1>10 DEF ApproveStarts
    <2>2. /\ request' # Free /\ request'.status = "running" /\ request'.thread = w
          /\ failures' = 0 => failures = 0 /\ requestFile' = request'
          /\ ~ok => failures' = 1
      <3>1. w \in Maybe(Workers) /\ "running" \in Statuses
        BY DEF Maybe, Statuses, OpenStatuses
      <3> QED
        BY <1>0, <1>4, <2>1, <3>1, WriteWith
    <2>3. mine'["approve"].thread = w /\ at'["approve"] = IF ok THEN "prompting" ELSE "deleting"
      BY <1>0, <1>6, <2>1 DEF LocalShape, LocalRecs, Steps, Operations
    <2>4. pair = Free /\ pair' = Free
      BY <1>0, <2>1 DEF ApprovalRuns, pairs
    <2>5. Usable(w)'
      <3>1. worker'[w] = "idle" /\ w \notin retired'
        BY <1>0, <1>8, <2>1 DEF Fresh, WorkShape
      <3> QED
        BY <3>1, FreeIsNothing DEF Usable, Exists
    <2>6. Owner'
      BY <2>2, StatusFacts DEF Owner
    <2>7. ApprovalRuns'
      <3>1. at'["approve"] \in {"prompting", "deleting"} /\ (at'["approve"] = "deleting" => failures' = 1)
        BY <2>2, <2>3
      <3> QED
        BY <2>2, <2>3, <2>4, <2>5, <2>6, <3>1 DEF ApprovalRuns, Usable, Exists
    <2>8. RequestNames'
      BY <1>0, <2>1, <2>2, <2>4 DEF RequestNames, Started, WorkShape
    <2>9. FilesFollow'
      BY <1>0, <1>1, <2>1, <2>2, <2>5, FilesAfter
    <2> QED
      BY <2>4, <2>7, <2>8, <2>9, NoPair
  <1>11. CASE ApproveRefused
    <2>1. /\ s = "starting" /\ UNCHANGED <<requests, pairs, queued, workers, failures>>
          /\ at'["approve"] = "reverting"
      BY <1>6, <1>11 DEF ApproveRefused, Steps
    <2>2. pair = Free /\ pair' = Free /\ Owner'
      BY <1>0, <1>4, <2>1 DEF ApprovalRuns, pairs, requests, Owner
    <2>3. ApprovalRuns'
      BY <2>1, <2>2 DEF ApprovalRuns, WithPrompt
    <2>4. RequestNames'
      BY <1>0, <2>1, <2>2 DEF RequestNames, Started, Owner, requests, workers
    <2>5. FilesFollow'
      BY <1>0, <1>1, <2>1 DEF FilesFollow, Owner, Usable, Exists, requests, workers, pairs, Replacing, WithNext
    <2> QED
      BY <2>2, <2>3, <2>4, <2>5, NoPair
  <1>12. CASE ApprovePrompts
    <2>1. PICK ok \in BOOLEAN :
             /\ s = "prompting" /\ Outcome(ok)
             /\ worker' = [worker EXCEPT ![t] = IF ok THEN "running" ELSE "gone"]
             /\ Go("approve", IF ok THEN "pairing" ELSE "deleting")
             /\ UNCHANGED <<requests, pairs, queued, reported, retired, callback, mine>>
      BY <1>12 DEF ApprovePrompts
    <2>2. t \in Workers /\ request.thread = t /\ request.status \in {"running", "changes_ready"} /\ Usable(t) /\ pair = Free
      BY <1>0, <1>5, <2>1 DEF WithPrompt, ApprovalRuns
    <2>3. at'["approve"] = (IF ok THEN "pairing" ELSE "deleting") /\ mine'["approve"] = mine["approve"]
      BY <1>6, <2>1 DEF Steps
    <2>4. pair' = Free /\ UNCHANGED request /\ Owner'
      BY <1>4, <2>1, <2>2 DEF pairs, requests, Owner
    <2>5. (ok => Usable(t)') /\ (~ok => failures' = 1) /\ (failures' = 0 => ok /\ failures = 0)
      <3>1. ok => worker'[t] = "running" /\ t \notin retired'
        BY <1>0, <2>1, <2>2 DEF Usable, WorkShape
      <3> QED
        BY <2>1, <2>2, <2>3, <3>1, OutcomeIs, FreeIsNothing DEF Usable, Exists
    <2>6. ApprovalRuns'
      <3>1. at'["approve"] \in {"pairing", "deleting"} /\ (at'["approve"] = "deleting" => failures' = 1)
            /\ (at'["approve"] = "pairing" => Usable(t)')
        BY <2>3, <2>5
      <3> QED
        BY <2>2, <2>3, <2>4, <3>1 DEF ApprovalRuns, Usable, Exists
    <2>7. RequestNames'
      BY <1>0, <2>1, <2>2, <2>4 DEF RequestNames, Started, WorkShape
    <2>8. FilesFollow'
      <3>1. PICK w \in Workers : w = t
        BY <2>2
      <3>2. ok => Usable(w)'
        BY <2>3, <2>5, <3>1 DEF Usable, Exists
      <3> QED
        BY <1>0, <1>1, <2>1, <2>2, <2>4, <2>5, <3>1, <3>2, FilesAfter
    <2> QED
      BY <2>4, <2>6, <2>7, <2>8, NoPair
  <1>13. CASE ApprovePairs
    <2>1. PICK ok \in BOOLEAN :
             /\ s = "pairing" /\ WritePair([worker |-> t, from |-> Free], ok)
             /\ Go("approve", IF ok THEN "supervising" ELSE "unpairing")
             /\ UNCHANGED <<requests, workers, mine>>
      BY <1>13 DEF ApprovePairs
    <2>2. t \in Workers /\ request.thread = t /\ request.status \in {"running", "changes_ready"} /\ Usable(t)
      BY <1>0, <1>5, <2>1 DEF WithPrompt, ApprovalRuns
    <2>3. at'["approve"] = (IF ok THEN "supervising" ELSE "unpairing") /\ mine'["approve"] = mine["approve"]
      BY <1>6, <2>1 DEF Steps
    <2>4. pair' = [worker |-> t, from |-> Free] /\ pair'.worker = t /\ pair'.from = Free
          /\ UNCHANGED <<request, worker, retired>> /\ Owner' /\ Open'
      BY <1>4, <2>1, <2>2, StatusFacts DEF WritePair, requests, workers, Owner, Open
    <2>5. /\ failures' = 0 => failures = 0 /\ pairFile' = pair'
          /\ ~ok => failures' = 1
      BY <2>1, OutcomeIs DEF WritePair
    <2>6. ApprovalRuns'
      <3>1. at'["approve"] \in {"supervising", "unpairing"} /\ (at'["approve"] = "unpairing" => failures' = 1)
        BY <2>3, <2>5
      <3> QED
        BY <2>2, <2>3, <2>4, <3>1 DEF ApprovalRuns, Usable, Exists
    <2>7. RequestNames'
      BY <1>0, <2>2, <2>4 DEF RequestNames, Started, Owner
    <2>8. PairShows'
      <3>1. at'["approve"] \in {"supervising", "unpairing"} /\ Free \in Started'
        BY <2>3 DEF Started
      <3> QED
        BY <2>2, <2>4, <3>1, FreeIsNothing DEF PairShows
    <2>9. FilesFollow'
      <3>1. PICK w \in Workers : w = t
        BY <2>2
      <3>2. Usable(w)'
        BY <2>2, <2>4, <3>1 DEF Usable, Exists
      <3> QED
        BY <1>0, <1>1, <2>1, <2>2, <2>4, <2>5, <3>1, <3>2, FilesAfter
    <2> QED
      BY <2>6, <2>7, <2>8, <2>9
  <1>14. CASE ApproveSupervises
    <2>1. PICK ok \in BOOLEAN :
             /\ s = "supervising" /\ Outcome(ok)
             /\ callback' = IF ok THEN callback \cup {t} ELSE callback
             /\ Go("approve", IF ok THEN "linking" ELSE "unpairing")
             /\ UNCHANGED <<requests, pairs, queued, worker, reported, retired, mine>>
      BY <1>14 DEF ApproveSupervises
    <2>2. t \in Workers /\ request.thread = t /\ request.status \in {"running", "changes_ready"} /\ Usable(t)
      BY <1>0, <1>5, <2>1 DEF WithPrompt, ApprovalRuns
    <2>3. at'["approve"] = (IF ok THEN "linking" ELSE "unpairing") /\ mine'["approve"] = mine["approve"]
      BY <1>6, <2>1 DEF Steps
    <2>4. UNCHANGED <<pair, request>> /\ Owner'
      BY <1>4, <2>1 DEF pairs, requests, Owner
    <2>5. (ok => t \in callback') /\ (~ok => failures' = 1) /\ (failures' = 0 => ok /\ failures = 0)
      BY <2>1, OutcomeIs
    <2>6. ApprovalRuns'
      <3>1. at'["approve"] \in {"linking", "unpairing"} /\ (at'["approve"] = "unpairing" => failures' = 1)
            /\ (at'["approve"] = "linking" => t \in callback')
        BY <2>3, <2>5
      <3> QED
        BY <2>1, <2>2, <2>3, <2>4, <3>1 DEF ApprovalRuns, Usable, Exists
    <2>7. RequestNames'
      BY <1>0, <2>1, <2>4 DEF RequestNames, Started, Owner
    <2>8. PairShows'
      <3>1. pair # Free => pair.worker = t
        BY <1>0, <1>4, <1>8, <2>2 DEF PairShows
      <3>2. at'["approve"] = "linking" \/ at'["approve"] = "unpairing"
        BY <2>3
      <3>3. at'["approve"] = "linking" => Usable(t) /\ t \in callback'
        BY <2>2, <2>3, <2>5
      <3> QED
        BY <1>0, <2>1, <2>2, <2>4, <3>1, <3>2, <3>3
        DEF PairShows, Open, Started, Kept, Usable, Exists
    <2>9. FilesFollow'
      BY <1>0, <1>1, <2>1, <2>4, <2>5 DEF FilesFollow, Usable, Exists, Owner, requests, pairs, Replacing, WithNext
    <2> QED
      BY <2>6, <2>7, <2>8, <2>9
  <1>15. CASE ApproveLinks
    <2>1. PICK ok \in BOOLEAN :
             /\ s = "linking" /\ Write([request EXCEPT !.linked = TRUE], ok)
             /\ IF ok THEN End("approve") ELSE Go("approve", "unpairing") /\ UNCHANGED mine
             /\ UNCHANGED <<pairs, workers>>
      BY <1>15 DEF ApproveLinks
    <2>2. t \in Workers /\ request.thread = t /\ request.status \in {"running", "changes_ready"} /\ Usable(t)
      BY <1>0, <1>5, <2>1 DEF WithPrompt, ApprovalRuns
    <2>3. at'["approve"] = (IF ok THEN "no" ELSE "unpairing") /\ (~ok => mine'["approve"] = mine["approve"])
      BY <1>6, <1>7, <2>1 DEF Steps
    <2>4. /\ request' # Free /\ request'.thread = t /\ request'.status = request.status /\ request'.linked
          /\ failures' = 0 => failures = 0 /\ requestFile' = request'
          /\ ~ok => failures' = 1
      <3>1. [request EXCEPT !.linked = TRUE] \in NamedRequests
        BY <1>4 DEF NamedRequests, RequestRecords
      <3>2. request' = [request EXCEPT !.linked = TRUE] /\ request' # Free
        BY <2>1, <3>1, RequestsAreSomething DEF Write
      <3>3. request'.thread = request.thread /\ request'.status = request.status /\ request'.linked
        BY <1>4, <3>2 DEF NamedRequests, RequestRecords
      <3>4. (failures' = 0 => failures = 0 /\ requestFile' = request') /\ (~ok => failures' = 1)
        BY <2>1, OutcomeIs DEF Write
      <3> QED
        BY <2>2, <3>2, <3>3, <3>4
    <2>5. Owner' /\ UNCHANGED <<pair, pairFile, worker, retired, callback>>
      BY <1>4, <2>1, <2>4 DEF Owner, pairs, workers
    <2>6. ApprovalRuns'
      <3>1. at'["approve"] \in {"no", "unpairing"} /\ (at'["approve"] = "unpairing" => failures' = 1)
            /\ (at'["approve"] = "unpairing" => mine'["approve"].thread = t)
        BY <2>3, <2>4
      <3> QED
        BY <2>2, <2>4, <2>5, <3>1 DEF ApprovalRuns, WithPrompt
    <2>7. RequestNames'
      BY <1>0, <2>2, <2>4, <2>5 DEF RequestNames, Started
    <2>8. PairShows'
      <3>1. pair # Free => pair.worker = t /\ Kept(t)
        BY <1>0, <1>1, <1>4, <1>8, <2>1, <2>2 DEF PairShows
      <3>2. Open'
        BY <2>2, <2>4, StatusFacts DEF Open
      <3> QED
        BY <1>0, <2>2, <2>4, <2>5, <3>1, <3>2 DEF PairShows, Started, Kept, Usable, Exists
    <2>9. FilesFollow'
      <3>1. PICK w \in Workers : w = t
        BY <2>2
      <3>2. Usable(w)'
        BY <2>2, <2>5, <3>1 DEF Usable, Exists
      <3> QED
        BY <1>0, <1>1, <2>1, <2>4, <3>1, <3>2, FilesAfter
    <2> QED
      BY <2>6, <2>7, <2>8, <2>9
  <1>16. CASE ApproveUnpairs
    <2>1. PICK ok \in BOOLEAN :
             /\ s = "unpairing"
             /\ IF ok THEN WritePair(Free, TRUE) ELSE Outcome(FALSE)
             /\ Go("approve", IF ok THEN "deleting" ELSE "keeping")
             /\ UNCHANGED <<requests, worker, retired, mine>>
      BY <1>16 DEF ApproveUnpairs
    <2>2. t \in Workers /\ request.thread = t /\ request.status \in {"running", "changes_ready"} /\ failures = 1
      BY <1>0, <1>5, <2>1 DEF WithPrompt, ApprovalRuns
    <2>3. ok
      <3>1. ~Outcome(FALSE)
        BY <2>2 DEF Outcome
      <3> QED
        BY <2>1, <3>1
    <2>4. /\ at'["approve"] = "deleting" /\ mine'["approve"] = mine["approve"] /\ failures' = 1
          /\ pair' = Free /\ UNCHANGED request /\ Owner'
      BY <1>4, <1>6, <2>1, <2>2, <2>3 DEF Steps, WritePair, Outcome, requests, Owner
    <2>5. ApprovalRuns'
      BY <2>2, <2>4 DEF ApprovalRuns
    <2>6. RequestNames' /\ FilesFollow'
      BY <1>0, <2>1, <2>2, <2>4 DEF RequestNames, Started, FilesFollow
    <2> QED
      BY <2>4, <2>5, <2>6, NoPair
  <1>17. CASE ApproveDeletes
    <2>1. PICK ok \in BOOLEAN :
             /\ s = "deleting" /\ Outcome(ok)
             /\ worker' = IF ok THEN [worker EXCEPT ![t] = "gone"] ELSE worker
             /\ Go("approve", IF ok THEN "reverting" ELSE "keeping")
             /\ UNCHANGED <<requests, pairs, retired>>
      BY <1>17 DEF ApproveDeletes
    <2>2. failures = 1 /\ pair = Free /\ request.status \in {"running", "changes_ready"} /\ t \in Workers /\ request.thread = t
      BY <1>0, <1>5, <2>1 DEF WithPrompt, ApprovalRuns
    <2>3. ok /\ failures' = 1
      BY <2>1, <2>2 DEF Outcome
    <2>4. at'["approve"] = "reverting" /\ pair' = Free /\ UNCHANGED request /\ Owner'
      BY <1>4, <1>6, <2>1, <2>2, <2>3 DEF Steps, requests, pairs, Owner
    <2>5. ApprovalRuns'
      BY <2>4 DEF ApprovalRuns, WithPrompt
    <2>6. RequestNames'
      BY <1>0, <2>1, <2>2, <2>4 DEF RequestNames, Started, WorkShape
    <2>7. FilesFollow'
      BY <2>3 DEF FilesFollow
    <2> QED
      BY <2>4, <2>5, <2>6, <2>7, NoPair
  <1>18. CASE ApproveReverts
    <2>1. s = "reverting" /\ pair = Free
      BY <1>0, <1>18 DEF ApproveReverts, ApprovalRuns
    <2>2. PICK ok \in BOOLEAN :
             /\ Write(With(request, "pending", Free, FALSE), ok) /\ End("approve")
             /\ UNCHANGED <<pairs, workers>>
      BY <1>18, <2>1 DEF ApproveReverts
    <2>3. at'["approve"] = "no" /\ pair' = Free /\ UNCHANGED <<worker, retired>>
      BY <1>7, <2>1, <2>2 DEF pairs, workers
    <2>4. request'.status = "pending" /\ request'.thread = Free /\ (failures' = 0 => failures = 0 /\ requestFile' = request')
      BY <2>2, OutcomeIs DEF Write, With
    <2>5. ~Owner'
      BY <2>4, StatusFacts DEF Owner
    <2>6. ApprovalRuns'
      BY <2>3 DEF ApprovalRuns, WithPrompt
    <2>7. RequestNames'
      BY <1>0, <2>3, <2>4, <2>5 DEF RequestNames, Started
    <2>8. FilesFollow'
      BY <1>0, <1>1, <2>2, <2>4, <2>5, FilesAfter
    <2> QED
      BY <2>3, <2>6, <2>7, <2>8, NoPair
  <1> QED
    BY <1>10, <1>11, <1>12, <1>13, <1>14, <1>15, <1>16, <1>17, <1>18 DEF Approve

-----------------------------------------------------------------------------
(* A handoff's own steps.                                                  *)

LEMMA HandoffQuiet ==
    ASSUME SourceInv, OneFault, HandoffBegins \/ Handoff
    PROVE  /\ UNCHANGED <<at["approve"], mine["approve"]>>
           /\ Replacing => at["approve"] = "no"
           /\ DiscardsEnd'
PROOF
  <1>0. /\ {"approve", "handoff"} \subseteq Operations /\ Discarding \subseteq Operations \ {"handoff"}
        /\ LocalShape /\ HandoffKnows /\ ApprovalRuns /\ HandoffRuns /\ PairShape
    BY DEF Operations, Discarding, SourceInv, OneFault
  <1>1. Alone("handoff")
    BY HandoffAlone DEF SourceInv
  <1>2. UNCHANGED <<at["approve"], mine["approve"]>> /\ \A o \in Discarding : at'[o] = at[o]
    BY <1>0, <1>1 DEF Alone, LocalsAlone, Discarding, Operations
  <1>3. Replacing => at["approve"] = "no"
    BY <1>0, ApprovesOrReplaces
  <1>4. pair = Free => pair' = Free
    BY DEF HandoffBegins, Handoff, HandoffLocks, HandoffEnters, HandoffStarts, HandoffTracks, HandoffAttaches,
           HandoffTransfers, HandoffFlushes, HandoffRetires, HandoffReleases, HandoffUndoes, UndoTransfer,
           UndoRetirement, UndoAttachment, UndoCallback, UndoStart, WritePair, pairs
  <1>5. UNCHANGED request \/ Inside("handoff")
    <2>1. CASE HandoffTransfers
      BY <1>0, <2>1 DEF HandoffTransfers, HandoffKnows, Inside, WithNext
    <2>2. CASE HandoffUndoes
      <3>1. at["handoff"] = "undoing" /\ mine["handoff"].undo # {} /\ mine["handoff"].undo \subseteq Undos
        BY <1>0, <2>2 DEF HandoffUndoes, HandoffKnows, WithNext, LocalShape, LocalRecs
      <3>2. NextUndo = "return" => mine["handoff"].owned
        BY <1>0, <3>1, NextUndoIs DEF HandoffKnows
      <3>3. UNCHANGED request \/ NextUndo = "return"
        BY <2>2 DEF HandoffUndoes, UndoTransfer, UndoRetirement, UndoAttachment, UndoCallback, UndoStart, requests
      <3> QED
        BY <3>1, <3>2, <3>3 DEF Inside, WithNext
    <2> QED
      BY <2>1, <2>2
      DEF HandoffBegins, Handoff, HandoffLocks, HandoffEnters, HandoffStarts, HandoffTracks, HandoffAttaches,
          HandoffFlushes, HandoffRetires, HandoffReleases, requests
  <1>6. ASSUME NEW o \in Discarding PROVE Ended(o)'
    <2>1. CASE Inside(o)
      <3>1. ~Inside("handoff")
        BY <1>0, <2>1, OneInside
      <3> QED
        BY <1>2, <1>4, <1>5, <3>1 DEF Ended, Purging, Open, OneFault, DiscardsEnd
    <2>2. CASE ~Inside(o)
      BY <1>2, <2>2 DEF Ended, Inside, Closing, Purging
    <2> QED
      BY <2>1, <2>2
  <1>7. DiscardsEnd'
    BY <1>6 DEF DiscardsEnd, Ended
  <1> QED
    BY <1>2, <1>3, <1>7

\* An approval goes on undisturbed beside a handoff that is not replacing a Worker yet.
LEMMA HandoffApproval ==
    ASSUME SourceInv, OneFault, HandoffBegins \/ Handoff
    PROVE  ApprovalRuns'
PROOF
  <1>1. UNCHANGED <<at["approve"], mine["approve"]>> /\ (Replacing => at["approve"] = "no") /\ ApprovalRuns
    BY HandoffQuiet DEF OneFault
  <1>2. CASE at["approve"] = "no"
    BY <1>1, <1>2 DEF ApprovalRuns, WithPrompt
  <1>3. CASE at["approve"] # "no"
    <2>1. at["handoff"] \notin WithNext \cup {"starting"}
      BY <1>1, <1>3 DEF Replacing
    <2>2. UNCHANGED <<requests, pairs, workers, failures>>
      BY <2>1
      DEF HandoffBegins, Handoff, HandoffLocks, HandoffEnters, HandoffStarts, HandoffTracks, HandoffAttaches,
          HandoffTransfers, HandoffFlushes, HandoffRetires, HandoffReleases, HandoffUndoes, WithNext
    <2> QED
      BY <1>1, <2>2 DEF ApprovalRuns, Owner, Usable, Exists, requests, pairs, workers
  <1> QED
    BY <1>2, <1>3

\* What a handoff's step is to keep besides.
HandoffKeeps == HandoffRuns' /\ HandoffShows' /\ PairShows' /\ RequestNames' /\ FilesFollow'

\* Where a handoff goes, or ends.
LEMMA HandoffGoes ==
    ASSUME SourceInv
    PROVE  /\ \A x \in Steps : Go("handoff", x) => at'["handoff"] = x
           /\ End("handoff") => at'["handoff"] = "no"
           /\ mine["handoff"] \in LocalRecs
           /\ \A l \in LocalRecs : mine' = [mine EXCEPT !["handoff"] = l] => mine'["handoff"] = l
  BY DEF SourceInv, LocalShape, Go, End, Operations

\* At rest or waiting, a handoff shows and replaces nothing.
LEMMA HandoffWaits ==
    ASSUME at'["handoff"] \in {"no", "locking", "entering"}
    PROVE  ~Replacing' /\ ~HasRequest' /\ HandoffShows' /\ at'["handoff"] \notin WithNext
PROOF
  <1>1. at'["handoff"] \notin WithNext \cup {"starting"}
    BY DEF WithNext
  <1> QED
    BY <1>1 DEF Replacing, HasRequest, HandoffShows

LEMMA HandoffBeginsKeeps ==
    ASSUME SourceInv, OneFault, HandoffBegins
    PROVE  HandoffKeeps
PROOF
  <1>0. PairShows /\ RequestNames /\ FilesFollow /\ LocalShape
    BY DEF OneFault, SourceInv
  <1>1. /\ at["handoff"] = "no" /\ pair # Free
        /\ mine' = [mine EXCEPT !["handoff"] = [mine["handoff"] EXCEPT !.thread = pair.worker, !.owned = Owns(pair.worker)]]
        /\ Go("handoff", "locking")
        /\ UNCHANGED <<requests, pairs, queued, workers, failures>>
    BY DEF HandoffBegins, Begin
  <1>2. at'["handoff"] = "locking"
    BY <1>1, HandoffGoes DEF Steps
  <1>3. mine'["handoff"].thread = pair.worker /\ (mine'["handoff"].owned <=> Owns(pair.worker))
    BY <1>0, <1>1 DEF LocalShape, LocalRecs, Operations
  <1>4. ~Replacing' /\ ~HasRequest' /\ HandoffShows' /\ ~HasRequest /\ at["handoff"] \notin WithNext
        /\ at'["handoff"] \notin WithNext
    BY <1>1, <1>2, HandoffWaits DEF HasRequest, Replacing, WithNext
  <1>5. ~Owns(pair.worker) => Published
    <2>1. Owner => Owns(pair.worker)
      BY <1>0, <1>1, <1>4 DEF PairShows, Owner, Owns
    <2> QED
      BY <1>0, <1>1, <2>1, StatusFacts DEF PairShows, Owner, Published, Open
  <1>6. UNCHANGED <<request, requestFile, pair, pairFile, worker, retired, callback>>
    BY <1>1 DEF requests, pairs, workers
  <1>7. HandoffRuns'
    <2>1. at'["handoff"] \notin WithNext /\ at'["handoff"] # "undoing"
      BY <1>2 DEF WithNext
    <2> QED
      BY <1>3, <1>4, <1>5, <1>6, <2>1 DEF HandoffRuns, Published
  <1>8. UNCHANGED at["approve"]
    BY HandoffQuiet
  <1>9. PairShows' /\ RequestNames'
    BY <1>0, <1>4, <1>6, <1>8 DEF PairShows, RequestNames, Open, Owner, Kept, Usable, Exists, Started
  <1>10. FilesFollow'
    BY <1>0, <1>1, <1>6 DEF FilesFollow, Owner, Usable, Exists
  <1> QED
    BY <1>4, <1>7, <1>9, <1>10 DEF HandoffKeeps

LEMMA HandoffLocksKeeps ==
    ASSUME SourceInv, OneFault, HandoffLocks
    PROVE  HandoffKeeps
PROOF
  <1> DEFINE h == mine["handoff"]
  <1>0. PairShows /\ RequestNames /\ FilesFollow /\ LocalShape /\ HandoffRuns
    BY DEF OneFault, SourceInv
  <1>1. /\ at["handoff"] = "locking" /\ UNCHANGED <<requests, pairs, queued, workers, failures>>
        /\ \/ End("handoff")
           \/ /\ Go("handoff", "entering") /\ (h.owned => Owns(h.thread))
              /\ mine' = [mine EXCEPT !["handoff"] = [mine["handoff"] EXCEPT !.owned = Owns(h.thread)]]
    BY DEF HandoffLocks
  <1>2. \/ at'["handoff"] = "no"
        \/ /\ at'["handoff"] = "entering" /\ mine'["handoff"].thread = h.thread
           /\ mine'["handoff"].undo = h.undo /\ (mine'["handoff"].owned <=> h.owned)
    <2>1. CASE End("handoff")
      BY <2>1, HandoffGoes
    <2>2. CASE /\ Go("handoff", "entering") /\ (h.owned => Owns(h.thread))
               /\ mine' = [mine EXCEPT !["handoff"] = [mine["handoff"] EXCEPT !.owned = Owns(h.thread)]]
      <3>1. h.owned <=> Owns(h.thread)
        <4>1. Published => ~Owns(h.thread)
          BY StatusFacts DEF Published, Owns
        <4> QED
          BY <1>0, <1>1, <2>2, <4>1 DEF HandoffRuns
      <3>2. at'["handoff"] = "entering"
        BY <2>2, HandoffGoes DEF Steps
      <3> QED
        BY <1>0, <2>2, <3>1, <3>2 DEF LocalShape, LocalRecs, Operations
    <2> QED
      BY <1>1, <2>1, <2>2
  <1>3. ~Replacing' /\ ~HasRequest' /\ HandoffShows' /\ ~HasRequest /\ at["handoff"] \notin WithNext
        /\ at'["handoff"] \notin WithNext
    BY <1>1, <1>2, HandoffWaits DEF HasRequest, Replacing, WithNext
  <1>4. UNCHANGED <<request, requestFile, pair, pairFile, worker, retired, callback>>
    BY <1>1 DEF requests, pairs, workers
  <1>5. HandoffRuns'
    <2>1. at'["handoff"] \notin WithNext /\ at'["handoff"] # "undoing"
      BY <1>2 DEF WithNext
    <2> QED
      BY <1>0, <1>1, <1>2, <1>3, <1>4, <2>1 DEF HandoffRuns, Published, ToUndo
  <1>6. UNCHANGED at["approve"]
    BY HandoffQuiet DEF Handoff
  <1>7. PairShows' /\ RequestNames'
    BY <1>0, <1>3, <1>4, <1>6 DEF PairShows, RequestNames, Open, Owner, Kept, Usable, Exists, Started
  <1>8. FilesFollow'
    BY <1>0, <1>1, <1>4 DEF FilesFollow, Owner, Usable, Exists
  <1> QED
    BY <1>3, <1>5, <1>7, <1>8 DEF HandoffKeeps

LEMMA HandoffEntersKeeps ==
    ASSUME SourceInv, OneFault, HandoffEnters
    PROVE  HandoffKeeps
PROOF
  <1> DEFINE h == mine["handoff"]
  <1>0. PairShows /\ RequestNames /\ FilesFollow /\ LocalShape /\ HandoffRuns /\ HandoffKnows
    BY DEF OneFault, SourceInv
  <1>1. /\ at["handoff"] = "entering" /\ UNCHANGED <<requests, pairs, queued, workers, failures>>
        /\ \/ End("handoff")
           \/ /\ Go("handoff", "starting") /\ UNCHANGED mine
              /\ worker[h.thread] = "idle" /\ (h.owned => Owns(h.thread))
    BY DEF HandoffEnters
  <1>2. ~HasRequest /\ at["handoff"] \notin WithNext /\ h.undo = {} /\ h.thread \in Workers
    BY <1>0, <1>1 DEF HasRequest, Replacing, WithNext, HandoffKnows
  <1>3. UNCHANGED <<request, requestFile, pair, pairFile, worker, retired, callback>>
    BY <1>1 DEF requests, pairs, workers
  <1>4. UNCHANGED at["approve"]
    BY HandoffQuiet DEF Handoff
  <1>5. FilesFollow'
    BY <1>0, <1>1, <1>3 DEF FilesFollow, Owner, Usable, Exists
  <1>6. at'["handoff"] \notin WithNext
    BY <1>1, HandoffGoes DEF WithNext, Steps
  <1>7. PairShows' /\ RequestNames'
    BY <1>0, <1>2, <1>3, <1>4, <1>6 DEF PairShows, RequestNames, Open, Owner, Kept, Usable, Exists, Started
  <1>8. CASE End("handoff")
    <2>1. at'["handoff"] = "no"
      BY <1>8, HandoffGoes
    <2>2. ~Replacing' /\ ~HasRequest' /\ HandoffShows'
      BY <2>1, HandoffWaits
    <2>3. HandoffRuns'
      BY <1>6, <2>1, <2>2 DEF HandoffRuns
    <2> QED
      BY <1>5, <1>7, <2>2, <2>3 DEF HandoffKeeps
  <1>9. CASE /\ Go("handoff", "starting") /\ UNCHANGED mine
             /\ worker[h.thread] = "idle" /\ (h.owned => Owns(h.thread))
    <2>1. at'["handoff"] = "starting" /\ mine'["handoff"] = h
      BY <1>9, HandoffGoes DEF Steps
    <2>2. \A x : ~ToUndo(x) /\ ~ToUndo(x)'
      BY <1>2, <2>1 DEF ToUndo
    <2>3. h.thread \in Started'
      BY <1>2, <1>3, <1>9 DEF Started
    <2>4. h.owned => Owner /\ request.thread = h.thread
      BY <1>9 DEF Owns, Owner
    <2>5. ~h.owned => Published /\ (pair # Free => pair.worker = h.thread)
      BY <1>0, <1>1, <2>2 DEF HandoffRuns
    <2>6. HandoffRuns'
      BY <1>3, <1>6, <2>1, <2>2, <2>3, <2>4, <2>5 DEF HandoffRuns, HasRequest, Replacing, Published, Owner
    <2>7. pair # Free => pair.worker = h.thread
      BY <1>0, <1>2, <2>4, <2>5 DEF PairShows
    <2>8. HandoffShows'
      BY <1>3, <1>6, <2>1, <2>2, <2>7 DEF HandoffShows, Replacing
    <2> QED
      BY <1>5, <1>7, <2>6, <2>8 DEF HandoffKeeps
  <1> QED
    BY <1>1, <1>8, <1>9

\* A handoff that ends, or begins to take back, with the request, the pair and the
\* Worker to be replaced as they were.
LEMMA HandoffEndsUnchanged ==
    ASSUME SourceInv, OneFault, at["handoff"] = "starting", at'["handoff"] = "no",
           UNCHANGED <<requests, pairs, workers, at["approve"]>>, failures' = 0 => failures = 0
    PROVE  HandoffKeeps
PROOF
  <1> DEFINE h == mine["handoff"]
  <1>0. PairShows /\ RequestNames /\ FilesFollow /\ HandoffRuns /\ HandoffShows /\ HandoffKnows
    BY DEF OneFault, SourceInv
  <1>1. ~Replacing' /\ ~HasRequest' /\ HandoffShows' /\ at'["handoff"] \notin WithNext
    BY HandoffWaits
  <1>2. HandoffRuns'
    BY <1>1 DEF HandoffRuns
  <1>3. UNCHANGED <<request, requestFile, pair, pairFile, worker, retired, callback>>
    BY DEF requests, pairs, workers
  <1>4. Replacing /\ ~ToUndo("return") /\ ~ToUndo("detach") /\ at["handoff"] \notin WithNext
    BY <1>0 DEF Replacing, HandoffKnows, ToUndo, WithNext
  <1>5. pair # Free /\ Owner => pair.worker = request.thread
    <2>1. SUFFICES ASSUME pair # Free, Owner PROVE pair.worker = request.thread
      OBVIOUS
    <2>2. h.owned
      BY <1>0, <2>1, StatusFacts DEF HandoffRuns, Published, Owner
    <2> QED
      BY <1>0, <1>4, <2>1, <2>2 DEF HandoffRuns, HandoffShows, HasRequest
  <1>6. PairShows'
    BY <1>0, <1>3, <1>4, <1>5 DEF PairShows, Open, Owner, Kept, Usable, Exists, Started
  <1>7. RequestNames'
    BY <1>0, <1>3 DEF RequestNames, Owner, Started
  <1>8. FilesFollow'
    BY <1>0, <1>3 DEF FilesFollow, Owner, Usable, Exists
  <1> QED
    BY <1>1, <1>2, <1>6, <1>7, <1>8 DEF HandoffKeeps

LEMMA HandoffStartsKeeps ==
    ASSUME SourceInv, OneFault, failures \in Nat, HandoffStarts
    PROVE  HandoffKeeps
PROOF
  <1> DEFINE h == mine["handoff"]
  <1>0. PairShows /\ RequestNames /\ FilesFollow /\ LocalShape /\ WorkShape /\ HandoffRuns /\ HandoffShows
        /\ HandoffKnows /\ RequestShape
    BY DEF OneFault, SourceInv
  <1>1. PICK w \in Workers, ok \in BOOLEAN :
           /\ at["handoff"] = "starting" /\ Fresh(w) /\ Outcome(ok)
           /\ \/ /\ ok /\ worker' = [worker EXCEPT ![w] = "running"] /\ Go("handoff", "tracking")
                 /\ mine' = [mine EXCEPT !["handoff"] = [mine["handoff"] EXCEPT !.next = w, !.undo = {"untrack", "delete"}]]
              \/ End("handoff") /\ UNCHANGED worker
           /\ UNCHANGED <<requests, pairs, queued, reported, retired, callback>>
    <2>1. PICK w \in Workers, ok \in BOOLEAN :
             /\ at["handoff"] = "starting" /\ Fresh(w) /\ Outcome(ok)
             /\ IF ok /\ ~CheckoutBusy /\ (request # Free /\ request.status \in OwnerStatuses => Owns(h.thread))
                THEN /\ worker' = [worker EXCEPT ![w] = "running"]
                     /\ mine' = [mine EXCEPT !["handoff"].next = w, !["handoff"].undo = {"untrack", "delete"}]
                     /\ Go("handoff", "tracking")
                ELSE End("handoff") /\ UNCHANGED worker
             /\ UNCHANGED <<requests, pairs, queued, reported, retired, callback>>
      BY DEF HandoffStarts
    <2>2. [mine EXCEPT !["handoff"].next = w, !["handoff"].undo = {"untrack", "delete"}]
          = [mine EXCEPT !["handoff"] = [mine["handoff"] EXCEPT !.next = w, !.undo = {"untrack", "delete"}]]
      BY <1>0 DEF LocalShape, LocalRecs, Operations
    <2> QED
      BY <2>1, <2>2
  <1>2. at["approve"] = "no" /\ at'["approve"] = "no" /\ Replacing
    <2>1. Replacing
      BY <1>1 DEF Replacing
    <2> QED
      BY <2>1, HandoffQuiet DEF Handoff
  <1>3. failures' = 0 => failures = 0
    BY <1>1, OutcomeIs
  <1>4. CASE End("handoff") /\ UNCHANGED worker
    <2>1. at'["handoff"] = "no" /\ UNCHANGED workers
      BY <1>1, <1>4, HandoffGoes DEF workers
    <2> QED
      BY <1>1, <1>2, <1>3, <2>1, HandoffEndsUnchanged
  <1>5. CASE /\ worker' = [worker EXCEPT ![w] = "running"] /\ Go("handoff", "tracking")
             /\ mine' = [mine EXCEPT !["handoff"] = [mine["handoff"] EXCEPT !.next = w, !.undo = {"untrack", "delete"}]]
    <2>1. /\ at'["handoff"] = "tracking" /\ mine'["handoff"].next = w /\ mine'["handoff"].thread = h.thread
          /\ mine'["handoff"].undo = {"untrack", "delete"} /\ (mine'["handoff"].owned <=> h.owned)
          /\ mine'["handoff"].before = h.before
      <3>1. at'["handoff"] = "tracking"
        BY <1>5, HandoffGoes DEF Steps
      <3> QED
        BY <1>0, <1>5, <3>1 DEF LocalShape, LocalRecs, Operations
    <2>2. /\ Replacing' /\ (HasRequest' <=> HasRequest) /\ ~ToUndo("return")' /\ ~ToUndo("detach")'
          /\ ~ToUndo("return") /\ ~ToUndo("detach") /\ at["handoff"] \notin WithNext
      BY <1>0, <1>1, <1>2, <2>1 DEF Replacing, HasRequest, HandoffKnows, ToUndo, WithNext
    <2>3. /\ UNCHANGED <<request, requestFile, pair, pairFile, retired, callback>>
          /\ \A v \in Workers : worker[v] # "none" => worker'[v] = worker[v] /\ v # w
          /\ worker'[w] = "running" /\ w \notin Started /\ w \notin retired /\ Started \subseteq Started'
      <3>1. worker[w] = "none" /\ w # Free
        BY <1>1, FreeIsNothing DEF Fresh
      <3> QED
        BY <1>0, <1>1, <1>5, <3>1 DEF WorkShape, Started, RequestNames, requests, pairs
    <2>4. h.thread \in Workers /\ h.thread # w /\ h.thread \in Started
      BY <1>0, <1>1, <1>2, <2>3 DEF HandoffRuns, HandoffKnows
    <2>5. HandoffRuns'
      BY <1>0, <1>1, <2>1, <2>2, <2>3, <2>4 DEF HandoffRuns, Published, Owner, UndoAt
    <2>6. pair # Free => /\ pair.worker = h.thread /\ pair.from # w /\ Kept(h.thread)
      BY <1>0, <1>2, <2>2, <2>3, <2>4 DEF HandoffShows, PairShows
    <2>7. pair # Free => worker'[h.thread] \in {"idle", "running"} /\ h.thread \notin retired /\ h.thread \in callback
      BY <2>3, <2>4, <2>6 DEF Kept, Usable, Exists
    <2>8. HandoffShows'
      BY <2>1, <2>2, <2>3, <2>4, <2>6, <2>7, FreeIsNothing DEF HandoffShows, Usable, Exists
    <2>9. PairShows'
      <3>1. at'["handoff"] \in WithNext
        BY <2>1 DEF WithNext
      <3> QED
        BY <1>0, <1>2, <2>2, <2>3, <3>1 DEF PairShows, Open, Owner
    <2>10. RequestNames'
      BY <1>0, <2>3 DEF RequestNames, Owner
    <2>11. FilesFollow'
      <3>1. ASSUME failures' = 0, Owner, request.thread # Free
            PROVE  \E v \in Workers : v = request.thread /\ Usable(v)'
        <4>1. PICK v \in Workers : v = request.thread
          BY <1>0, <3>1, RequestIs DEF Owner, RequestShape, Maybe
        <4>2. Usable(v)
          BY <1>0, <1>3, <3>1, <4>1 DEF FilesFollow
        <4> QED
          BY <2>3, <4>1, <4>2 DEF Usable, Exists
      <3> QED
        BY <1>0, <1>1, <1>3, <2>3, <3>1 DEF FilesFollow, Owner, Usable, Exists
    <2> QED
      BY <2>5, <2>8, <2>9, <2>10, <2>11 DEF HandoffKeeps
  <1> QED
    BY <1>1, <1>4, <1>5

LEMMA HandoffTracksKeeps ==
    ASSUME SourceInv, OneFault, failures \in Nat, HandoffTracks
    PROVE  HandoffKeeps
PROOF
  <1> DEFINE h == mine["handoff"]
  <1>0. PairShows /\ RequestNames /\ FilesFollow /\ LocalShape /\ HandoffRuns /\ HandoffShows
        /\ HandoffKnows
    BY DEF OneFault, SourceInv
  <1>1. PICK ok \in BOOLEAN :
           /\ at["handoff"] = "tracking" /\ Outcome(ok)
           /\ callback' = IF ok THEN callback \cup {h.next} ELSE callback
           /\ Go("handoff", IF ok THEN "attaching" ELSE "undoing")
           /\ UNCHANGED <<requests, pairs, queued, worker, reported, retired, mine>>
    BY DEF HandoffTracks
  <1>2. at["approve"] = "no" /\ at'["approve"] = "no" /\ Replacing
    <2>1. Replacing
      BY <1>1 DEF Replacing, WithNext
    <2> QED
      BY <2>1, HandoffQuiet DEF Handoff
  <1>3. /\ failures' = 0 => failures = 0 /\ ok
        /\ at'["handoff"] = IF ok THEN "attaching" ELSE "undoing"
    BY <1>1, OutcomeIs, HandoffGoes DEF Steps
  <1>4. /\ h.undo = {"untrack", "delete"} /\ at'["handoff"] \in {"attaching", "undoing"}
        /\ at["handoff"] \in WithNext \ {"undoing"} /\ at'["handoff"] \in WithNext
    BY <1>0, <1>1, <1>3 DEF HandoffRuns, WithNext, UndoAt
  <1>5. Replacing' /\ (HasRequest' <=> HasRequest) /\ \A x : ToUndo(x)' <=> ToUndo(x)
    BY <1>1, <1>2, <1>4 DEF Replacing, HasRequest, ToUndo
  <1>6. UNCHANGED <<request, requestFile, pair, pairFile, worker, retired, mine>> /\ callback \subseteq callback'
        /\ (at'["handoff"] = "attaching" => h.next \in callback')
    BY <1>1, <1>3 DEF requests, pairs
  <1>7. HandoffRuns'
    BY <1>0, <1>1, <1>2, <1>3, <1>4, <1>5, <1>6 DEF HandoffRuns, Published, Owner, UndoAt, Started
  <1>8. HandoffShows'
    BY <1>0, <1>2, <1>4, <1>5, <1>6 DEF HandoffShows, Usable, Exists, Started
  <1>9. PairShows' /\ RequestNames'
    BY <1>0, <1>2, <1>4, <1>5, <1>6 DEF PairShows, RequestNames, Open, Owner, Started
  <1>10. FilesFollow'
    BY <1>0, <1>1, <1>3, <1>6 DEF FilesFollow, Owner, Usable, Exists
  <1> QED
    BY <1>7, <1>8, <1>9, <1>10 DEF HandoffKeeps

LEMMA HandoffAttachesKeeps ==
    ASSUME SourceInv, OneFault, HandoffAttaches
    PROVE  HandoffKeeps
PROOF
  <1> DEFINE h == mine["handoff"]
             l == mine'["handoff"]
  <1>0. PairShows /\ RequestNames /\ FilesFollow /\ LocalShape /\ HandoffRuns /\ HandoffShows
        /\ HandoffKnows /\ PairShape
    BY DEF OneFault, SourceInv
  <1>1. /\ at["handoff"] = "attaching" /\ UNCHANGED <<requests, pairFile, workers, failures>>
        /\ \/ /\ pair # Free /\ pair.worker = h.thread
              /\ pair' = [worker |-> h.next, from |-> h.thread] /\ queued' = queued \cup {"pairs"}
              /\ mine' = [mine EXCEPT !["handoff"] =
                             [mine["handoff"] EXCEPT !.before = pair, !.undo = mine["handoff"].undo \cup {"detach"}]]
              /\ Go("handoff", IF h.owned THEN "transferring" ELSE "flushing")
           \/ /\ ~(pair # Free /\ pair.worker = h.thread)
              /\ Go("handoff", "undoing") /\ UNCHANGED <<pair, queued, mine>>
    BY DEF HandoffAttaches
  <1>2. at["approve"] = "no" /\ at'["approve"] = "no" /\ Replacing
    <2>1. Replacing
      BY <1>1 DEF Replacing, WithNext
    <2> QED
      BY <2>1, HandoffQuiet DEF Handoff
  <1>3. h.undo = {"untrack", "delete"} /\ at["handoff"] \in WithNext \ {"undoing"} /\ h.next \in Workers
        /\ h.thread \in Workers /\ h.next # h.thread /\ ~ToUndo("detach") /\ ~ToUndo("return")
    BY <1>0, <1>1 DEF HandoffRuns, WithNext, UndoAt, HandoffKnows, ToUndo
  <1>4. UNCHANGED <<request, requestFile, pairFile, worker, retired, callback>>
    BY <1>1 DEF requests, workers
  <1>5. RequestNames'
    <2>1. request # Free /\ request.status \in {"pending", "approved"} => pair = Free /\ pair' = Free
      BY <1>0, <1>1 DEF RequestNames
    <2> QED
      BY <1>0, <1>4, <2>1 DEF RequestNames, Owner, Started
  <1>6. CASE /\ pair # Free /\ pair.worker = h.thread
             /\ pair' = [worker |-> h.next, from |-> h.thread] /\ queued' = queued \cup {"pairs"}
             /\ mine' = [mine EXCEPT !["handoff"] =
                            [mine["handoff"] EXCEPT !.before = pair, !.undo = mine["handoff"].undo \cup {"detach"}]]
             /\ Go("handoff", IF h.owned THEN "transferring" ELSE "flushing")
    <2>1. /\ l.thread = h.thread /\ l.next = h.next /\ (l.owned <=> h.owned) /\ l.before = pair
          /\ l.undo = {"untrack", "delete", "detach"}
      BY <1>0, <1>3, <1>6 DEF LocalShape, LocalRecs, Operations
    <2>2. at'["handoff"] = IF h.owned THEN "transferring" ELSE "flushing"
      BY <1>6, HandoffGoes DEF Steps
    <2>3. /\ at'["handoff"] \in {"transferring", "flushing"} /\ at'["handoff"] \in WithNext \ {"undoing"}
          /\ (at'["handoff"] = "flushing" <=> ~h.owned)
      BY <2>2 DEF WithNext
    <2>4. Replacing' /\ (HasRequest' <=> HasRequest) /\ ToUndo("detach")' /\ ~ToUndo("return")'
      BY <1>2, <2>1, <2>3 DEF Replacing, HasRequest, ToUndo
    <2>5. l.undo = UndoAt(at'["handoff"], l.owned)
      BY <2>1, <2>3 DEF UndoAt
    <2>6. HandoffRuns'
      <3>1. ~l.owned => Published'
        BY <1>0, <1>1, <1>4, <2>1 DEF HandoffRuns, Published
      <3>2. HasRequest' => Owner' /\ request'.thread = l.thread
        BY <1>0, <1>3, <1>4, <2>1, <2>4 DEF HandoffRuns, Owner
      <3>3. l.thread \in Started' /\ l.next # l.thread /\ l.next \notin retired'
        BY <1>0, <1>2, <1>3, <1>4, <2>1 DEF HandoffRuns, Started
      <3>4. at'["handoff"] # "undoing"
        BY <2>3
      <3> QED
        BY <2>4, <2>5, <3>1, <3>2, <3>3, <3>4 DEF HandoffRuns
    <2>7. pair'.worker = h.next /\ pair'.from = h.thread /\ pair' # Free
      <3>1. [worker |-> h.next, from |-> h.thread] \in PairRecords
        BY <1>3 DEF PairRecords, Maybe
      <3> QED
        BY <1>6, <3>1, FreeIsNothing
    <2>8. HandoffShows'
      <3>1. pair.from \notin {h.thread, h.next} /\ pair.from \in Started'
        BY <1>0, <1>2, <1>3, <1>4, <1>6 DEF HandoffShows, PairShows, Started
      <3>2. /\ worker'[h.thread] \in {"idle", "running"} /\ h.thread \notin retired' /\ h.thread \in callback'
            /\ worker'[h.next] \in {"idle", "running"} /\ h.next \notin retired' /\ h.next \in callback'
        BY <1>0, <1>1, <1>3, <1>4, <1>6 DEF HandoffShows, ToUndo, Usable, Exists
      <3> QED
        BY <1>3, <1>6, <2>1, <2>3, <2>4, <2>7, <3>1, <3>2, FreeIsNothing DEF HandoffShows, Usable, Exists
    <2>9. PairShows'
      <3>1. h.thread \in Started' /\ Open' /\ request'.linked
        BY <1>0, <1>2, <1>4, <1>6 DEF HandoffRuns, PairShows, Started, Open
      <3>2. Owner' => HasRequest'
        <4>1. Owner => h.owned
          BY <1>0, <1>1, StatusFacts DEF HandoffRuns, Owner, Published
        <4> QED
          BY <1>2, <1>4, <2>4, <4>1 DEF HasRequest, Owner
      <3> QED
        BY <1>3, <2>3, <2>7, <3>1, <3>2 DEF PairShows
    <2>10. FilesFollow'
      <3>1. failures = 0 => pairFile = pair
        BY <1>0, <1>1 DEF FilesFollow
      <3>2. "pairs" \in queued'
        BY <1>6
      <3> QED
        BY <1>0, <1>1, <1>4, <2>1, <2>3, <2>7, <3>1, <3>2 DEF FilesFollow, Owner, Usable, Exists
    <2> QED
      BY <1>5, <2>6, <2>8, <2>9, <2>10 DEF HandoffKeeps
  <1>7. CASE /\ ~(pair # Free /\ pair.worker = h.thread)
             /\ Go("handoff", "undoing") /\ UNCHANGED <<pair, queued, mine>>
    <2>1. at'["handoff"] = "undoing" /\ at'["handoff"] \in WithNext
      BY <1>7, HandoffGoes DEF WithNext, Steps
    <2>2. pair' = Free
      BY <1>0, <1>2, <1>3, <1>7 DEF HandoffShows
    <2>3. Replacing' /\ (HasRequest' <=> HasRequest) /\ \A x : ToUndo(x)' <=> ToUndo(x)
      BY <1>2, <1>7, <2>1 DEF Replacing, HasRequest, ToUndo
    <2>4. HandoffRuns'
      BY <1>0, <1>1, <1>2, <1>3, <1>4, <1>7, <2>1, <2>2, <2>3 DEF HandoffRuns, Published, Owner, Started
    <2>5. HandoffShows'
      BY <2>1, <2>2 DEF HandoffShows
    <2>6. FilesFollow'
      BY <1>0, <1>1, <1>4, <1>7 DEF FilesFollow, Owner, Usable, Exists
    <2> QED
      BY <1>5, <2>2, <2>4, <2>5, <2>6, NoPair DEF HandoffKeeps
  <1> QED
    BY <1>1, <1>6, <1>7

LEMMA HandoffTransfersKeeps ==
    ASSUME SourceInv, OneFault, failures \in Nat, HandoffTransfers
    PROVE  HandoffKeeps
PROOF
  <1> DEFINE h == mine["handoff"]
             l == mine'["handoff"]
  <1>0. PairShows /\ RequestNames /\ FilesFollow /\ LocalShape /\ HandoffRuns /\ HandoffShows
        /\ HandoffKnows /\ RequestShape
    BY DEF OneFault, SourceInv
  <1>1. PICK ok \in BOOLEAN :
           /\ at["handoff"] = "transferring" /\ Outcome(ok)
           /\ request' = IF ok THEN With(request, "running", h.next, request.linked) ELSE request
           /\ requestFile' = request' /\ queued' = queued \ {"requests"}
           /\ mine' = IF ok THEN [mine EXCEPT !["handoff"] =
                                    [mine["handoff"] EXCEPT !.prior = request, !.undo = mine["handoff"].undo \cup {"return"}]]
                      ELSE mine
           /\ Go("handoff", IF ok THEN "flushing" ELSE "undoing")
           /\ UNCHANGED <<pairs, workers>>
    BY DEF HandoffTransfers
  <1>2. at["approve"] = "no" /\ at'["approve"] = "no" /\ Replacing /\ HasRequest /\ h.owned
    <2>1. Replacing /\ h.owned
      BY <1>0, <1>1 DEF Replacing, WithNext, HandoffKnows
    <2> QED
      BY <2>1, HandoffQuiet DEF Handoff, HasRequest
  <1>3. /\ h.undo = {"untrack", "delete", "detach"} /\ ToUndo("detach") /\ ~ToUndo("return")
        /\ at["handoff"] \in WithNext \ {"undoing"} /\ h.next \in Workers /\ h.thread \in Workers
        /\ h.next # h.thread /\ h.next \notin retired /\ h.thread \in Started
    BY <1>0, <1>1, <1>2 DEF HandoffRuns, WithNext, UndoAt, HandoffKnows, ToUndo
  <1>4. Owner /\ request.thread = h.thread /\ request # Free /\ request.status # "approved"
    BY <1>0, <1>2, <1>3, FreeIsNothing DEF HandoffRuns, RequestNames, Owner
  <1>5. UNCHANGED <<pair, pairFile, worker, retired, callback>> /\ Started' = Started
    BY <1>1 DEF pairs, workers, Started
  <1>6. Usable(h.next) /\ h.next \in callback
    BY <1>0, <1>1, <1>2, <1>3 DEF HandoffShows
  <1>7. CASE ok
    <2>1. /\ l.thread = h.thread /\ l.next = h.next /\ l.owned /\ l.before = h.before /\ l.prior = request
          /\ l.undo = {"untrack", "delete", "detach", "return"}
      BY <1>0, <1>1, <1>2, <1>3, <1>7 DEF LocalShape, LocalRecs, Operations
    <2>2. at'["handoff"] = "flushing" /\ (failures' = 0 => failures = 0) /\ at'["handoff"] \in WithNext \ {"undoing"}
      BY <1>1, <1>7, OutcomeIs, HandoffGoes DEF Steps, WithNext
    <2>3. /\ request' # Free /\ request'.status = "running" /\ request'.thread = h.next
          /\ request'.linked = request.linked /\ requestFile' = request'
      <3>1. h.next \in Maybe(Workers) /\ "running" \in Statuses /\ request \in Maybe(NamedRequests)
        BY <1>0, <1>3 DEF Maybe, Statuses, OpenStatuses, RequestShape
      <3>2. With(request, "running", h.next, request.linked) \in NamedRequests
        BY <1>4, <3>1, RequestIs
      <3>3. request' # Free
        BY <1>1, <1>7, <3>2, RequestsAreSomething
      <3>4. request' = With(request, "running", h.next, request.linked) /\ requestFile' = request'
        BY <1>1, <1>7
      <3> QED
        BY <3>3, <3>4 DEF With
    <2>4. Replacing' /\ HasRequest' /\ ToUndo("return")' /\ ToUndo("detach")' /\ ~ToUndo("unretire")'
          /\ ~ToUndo("resupervise")' /\ ~ToUndo("unretire") /\ ~ToUndo("resupervise")
      BY <1>3, <2>1, <2>2 DEF Replacing, HasRequest, ToUndo
    <2>5. Owner' /\ Open'
      BY <2>3, StatusFacts DEF Owner, Open
    <2>6. HandoffRuns'
      <3>1. l.undo = UndoAt(at'["handoff"], l.owned)
        BY <2>1, <2>2 DEF UndoAt
      <3>2. l.prior.thread = l.thread /\ l.prior.status \in OwnerStatuses \ {"approved"}
        BY <1>4, <2>1 DEF Owner
      <3>3. l.thread \in Started' /\ l.next # l.thread /\ l.next \notin retired'
        BY <1>3, <1>5, <2>1
      <3>4. Owner' /\ request'.thread = l.next
        BY <2>1, <2>3, <2>5
      <3> QED
        BY <2>1, <2>2, <2>4, <3>1, <3>2, <3>3, <3>4 DEF HandoffRuns
    <2>7. HandoffShows'
      BY <1>0, <1>1, <1>2, <1>3, <1>5, <1>6, <2>1, <2>2, <2>4 DEF HandoffShows, Usable, Exists
    <2>8. PairShows'
      BY <1>0, <1>2, <1>5, <2>2, <2>3, <2>4, <2>5 DEF PairShows
    <2>9. RequestNames'
      BY <1>0, <1>3, <1>5, <2>3 DEF RequestNames
    <2>10. FilesFollow'
      <3>1. pairFile' = pair' \/ (pair' # Free /\ pairFile' = l.before /\ "pairs" \in queued') \/ failures' # 0
        BY <1>0, <1>1, <1>5, <2>1, <2>2 DEF FilesFollow
      <3>2. PICK w \in Workers : w = h.next
        BY <1>3
      <3>3. Usable(w)'
        BY <1>5, <1>6, <3>2 DEF Usable, Exists
      <3> QED
        BY <2>2, <2>3, <3>1, <3>2, <3>3 DEF FilesFollow, Usable, Exists
    <2> QED
      BY <2>6, <2>7, <2>8, <2>9, <2>10 DEF HandoffKeeps
  <1>8. CASE ~ok
    <2>1. /\ at'["handoff"] = "undoing" /\ failures' # 0 /\ at'["handoff"] \in WithNext
          /\ mine' = mine /\ UNCHANGED request
      BY <1>1, <1>8, OutcomeIs, HandoffGoes DEF Steps, WithNext
    <2>2. Replacing' /\ HasRequest' /\ \A x : ToUndo(x)' <=> ToUndo(x)
      BY <1>2, <2>1 DEF Replacing, HasRequest, ToUndo
    <2>3. HandoffRuns'
      BY <1>0, <1>2, <1>3, <1>4, <1>5, <2>1, <2>2 DEF HandoffRuns, Owner
    <2>4. HandoffShows'
      BY <1>0, <1>2, <1>3, <1>5, <2>1, <2>2 DEF HandoffShows, Exists
    <2>5. PairShows' /\ RequestNames'
      BY <1>0, <1>2, <1>5, <2>1, <2>2 DEF PairShows, RequestNames, Open, Owner
    <2>6. FilesFollow'
      BY <2>1 DEF FilesFollow
    <2> QED
      BY <2>3, <2>4, <2>5, <2>6 DEF HandoffKeeps
  <1> QED
    BY <1>7, <1>8

LEMMA HandoffFlushesKeeps ==
    ASSUME SourceInv, OneFault, failures \in Nat, HandoffFlushes
    PROVE  HandoffKeeps
PROOF
  <1> DEFINE h == mine["handoff"]
  <1>0. PairShows /\ RequestNames /\ FilesFollow /\ LocalShape /\ HandoffRuns /\ HandoffShows
        /\ HandoffKnows
    BY DEF OneFault, SourceInv
  <1>1. PICK ok \in BOOLEAN :
           /\ at["handoff"] = "flushing"
           /\ IF "pairs" \in queued THEN WritePair(pair, ok) ELSE ok /\ UNCHANGED <<pairs, queued, failures>>
           /\ Go("handoff", IF ok THEN "retiring" ELSE "undoing")
           /\ UNCHANGED <<requests, workers, mine>>
    BY DEF HandoffFlushes
  <1>2. at["approve"] = "no" /\ at'["approve"] = "no" /\ Replacing
    <2>1. Replacing
      BY <1>1 DEF Replacing, WithNext
    <2> QED
      BY <2>1, HandoffQuiet DEF Handoff
  <1>3. /\ UNCHANGED <<request, requestFile, pair, worker, retired, callback>>
        /\ failures' = 0 => failures = 0 /\ ok /\ pairFile' = pair'
    <2>1. CASE "pairs" \in queued
      <3>1. UNCHANGED pair /\ Outcome(ok) /\ pairFile' = IF ok THEN pair ELSE pairFile
        BY <1>1, <2>1 DEF WritePair
      <3> QED
        BY <1>1, <3>1, OutcomeIs DEF requests, workers
    <2>2. CASE "pairs" \notin queued
      BY <1>0, <1>1, <2>2 DEF FilesFollow, requests, workers, pairs
    <2> QED
      BY <2>1, <2>2
  <1>4. at'["handoff"] = (IF ok THEN "retiring" ELSE "undoing") /\ at["handoff"] \in WithNext \ {"undoing"}
        /\ at'["handoff"] \in WithNext
    BY <1>1, HandoffGoes DEF Steps, WithNext
  <1>5. Replacing' /\ (HasRequest' <=> HasRequest) /\ \A x : ToUndo(x)' <=> ToUndo(x)
    BY <1>1, <1>2, <1>4 DEF Replacing, HasRequest, ToUndo
  <1>6. HandoffRuns'
    <2>1. h.undo = UndoAt("retiring", h.owned)
      BY <1>0, <1>1, <1>4 DEF HandoffRuns, UndoAt
    <2>2. at'["handoff"] = "retiring" \/ (at'["handoff"] = "undoing" /\ failures' # 0)
      BY <1>3, <1>4
    <2> QED
      BY <1>0, <1>1, <1>2, <1>3, <1>4, <1>5, <2>1, <2>2 DEF HandoffRuns, Published, Owner, Started
  <1>7. HandoffShows'
    BY <1>0, <1>1, <1>2, <1>3, <1>4, <1>5 DEF HandoffShows, Usable, Exists, Started
  <1>8. PairShows' /\ RequestNames'
    BY <1>0, <1>2, <1>3, <1>4, <1>5 DEF PairShows, RequestNames, Open, Owner, Started
  <1>9. FilesFollow'
    BY <1>0, <1>3 DEF FilesFollow, Owner, Usable, Exists
  <1> QED
    BY <1>6, <1>7, <1>8, <1>9 DEF HandoffKeeps

LEMMA HandoffRetiresKeeps ==
    ASSUME SourceInv, OneFault, failures \in Nat, HandoffRetires
    PROVE  HandoffKeeps
PROOF
  <1> DEFINE h == mine["handoff"]
             l == mine'["handoff"]
  <1>0. PairShows /\ RequestNames /\ FilesFollow /\ LocalShape /\ HandoffRuns /\ HandoffShows
        /\ HandoffKnows
    BY DEF OneFault, SourceInv
  <1>1. PICK ok \in BOOLEAN :
           /\ at["handoff"] = "retiring" /\ Outcome(ok)
           /\ retired' = retired \cup {h.thread}
           /\ mine' = [mine EXCEPT !["handoff"] = [mine["handoff"] EXCEPT !.undo = mine["handoff"].undo \cup {"unretire"}]]
           /\ Go("handoff", IF ok THEN "releasing" ELSE "undoing")
           /\ UNCHANGED <<requests, pairs, queued, worker, reported, callback>>
    BY DEF HandoffRetires
  <1>2. at["approve"] = "no" /\ at'["approve"] = "no" /\ Replacing
    <2>1. Replacing
      BY <1>1 DEF Replacing, WithNext
    <2> QED
      BY <2>1, HandoffQuiet DEF Handoff
  <1>3. /\ h.undo = UndoAt("retiring", h.owned) /\ ToUndo("detach") /\ (ToUndo("return") <=> h.owned)
        /\ at["handoff"] \in WithNext \ {"undoing"} /\ h.next \in Workers /\ h.thread \in Workers
        /\ h.next # h.thread /\ h.next \notin retired /\ h.thread \in Started
    BY <1>0, <1>1, <1>2 DEF HandoffRuns, WithNext, UndoAt, HandoffKnows, ToUndo
  <1>4. UNCHANGED <<request, requestFile, pair, pairFile, worker, callback>> /\ Started' = Started
    BY <1>1 DEF requests, pairs, Started
  <1>5. /\ l.thread = h.thread /\ l.next = h.next /\ (l.owned <=> h.owned) /\ l.before = h.before
        /\ l.prior = h.prior /\ l.undo = h.undo \cup {"unretire"}
    BY <1>0, <1>1 DEF LocalShape, LocalRecs, Operations
  <1>6. /\ at'["handoff"] = (IF ok THEN "releasing" ELSE "undoing") /\ at'["handoff"] \in WithNext
        /\ failures' = 0 => failures = 0 /\ ok
    BY <1>1, OutcomeIs, HandoffGoes DEF Steps, WithNext
  <1>7. /\ Replacing' /\ (HasRequest' <=> HasRequest) /\ (ToUndo("return")' <=> ToUndo("return"))
        /\ ToUndo("detach")' /\ ToUndo("unretire")' /\ (ToUndo("resupervise")' <=> ToUndo("resupervise"))
    BY <1>2, <1>3, <1>5, <1>6 DEF Replacing, HasRequest, ToUndo
  <1>8. HandoffRuns'
    <2>1. at'["handoff"] # "undoing" => l.undo = UndoAt(at'["handoff"], l.owned)
      BY <1>3, <1>5, <1>6 DEF UndoAt
    <2>2. at'["handoff"] # "undoing" \/ failures' # 0
      BY <1>6
    <2>3. h.next \notin retired'
      BY <1>1, <1>3
    <2>4. HasRequest => Owner' /\ request'.thread = IF ToUndo("return") THEN h.next ELSE h.thread
      BY <1>0, <1>4 DEF HandoffRuns, Owner
    <2>5. ~h.owned => Published'
      BY <1>0, <1>1, <1>4 DEF HandoffRuns, Published
    <2>6. ToUndo("return") => h.prior.thread = h.thread /\ h.prior.status \in OwnerStatuses \ {"approved"}
      BY <1>0, <1>2 DEF HandoffRuns
    <2> QED
      BY <1>3, <1>4, <1>5, <1>7, <2>1, <2>2, <2>3, <2>4, <2>5, <2>6 DEF HandoffRuns
  <1>9. HandoffShows'
    BY <1>0, <1>1, <1>2, <1>3, <1>4, <1>5, <1>6, <1>7 DEF HandoffShows, Usable, Exists
  <1>10. PairShows' /\ RequestNames'
    BY <1>0, <1>1, <1>2, <1>3, <1>4, <1>6, <1>7 DEF PairShows, RequestNames, Open, Owner
  <1>11. FilesFollow'
    <2>1. Owner => request.thread # h.thread
      <3>1. Owner => h.owned
        BY <1>0, <1>1, StatusFacts DEF HandoffRuns, Owner, Published
      <3> QED
        BY <1>0, <1>2, <1>3, <3>1 DEF HandoffRuns, HasRequest
    <2>2. failures = 0 => pairFile = pair
      BY <1>0, <1>1 DEF FilesFollow
    <2> QED
      BY <1>0, <1>1, <1>4, <1>6, <2>1, <2>2 DEF FilesFollow, Owner, Usable, Exists
  <1> QED
    BY <1>8, <1>9, <1>10, <1>11 DEF HandoffKeeps

LEMMA HandoffReleasesKeeps ==
    ASSUME SourceInv, OneFault, failures \in Nat, HandoffReleases
    PROVE  HandoffKeeps
PROOF
  <1> DEFINE h == mine["handoff"]
             l == mine'["handoff"]
  <1>0. PairShows /\ RequestNames /\ FilesFollow /\ LocalShape /\ HandoffRuns /\ HandoffShows
        /\ HandoffKnows
    BY DEF OneFault, SourceInv
  <1>1. /\ at["handoff"] = "releasing"
        /\ \/ End("handoff") /\ callback' = callback \ {h.thread} /\ UNCHANGED failures
           \/ Outcome(FALSE) /\ Go("handoff", "undoing") /\ UNCHANGED <<callback, mine>>
           \/ /\ Outcome(FALSE) /\ Go("handoff", "undoing") /\ callback' = callback \ {h.thread}
              /\ mine' = [mine EXCEPT !["handoff"] = [mine["handoff"] EXCEPT !.undo = mine["handoff"].undo \cup {"resupervise"}]]
        /\ UNCHANGED <<requests, pairs, queued, worker, reported, retired>>
    BY DEF HandoffReleases
  <1>2. at["approve"] = "no" /\ at'["approve"] = "no" /\ Replacing
    <2>1. Replacing
      BY <1>1 DEF Replacing, WithNext
    <2> QED
      BY <2>1, HandoffQuiet DEF Handoff
  <1>3. /\ ToUndo("detach") /\ (ToUndo("return") <=> h.owned)
        /\ at["handoff"] \in WithNext \ {"undoing"} /\ h.next \in Workers /\ h.thread \in Workers
        /\ h.next # h.thread /\ h.next \notin retired /\ h.thread \in Started
    BY <1>0, <1>1, <1>2 DEF HandoffRuns, WithNext, UndoAt, HandoffKnows, ToUndo
  <1>4. UNCHANGED <<request, requestFile, pair, pairFile, worker, retired>> /\ Started' = Started
    BY <1>1 DEF requests, pairs, Started
  <1>5. RequestNames'
    BY <1>0, <1>4 DEF RequestNames, Owner
  <1>6. Owner => h.owned
    BY <1>0, <1>1, StatusFacts DEF HandoffRuns, Owner, Published
  <1>7. CASE End("handoff") /\ callback' = callback \ {h.thread} /\ UNCHANGED failures
    <2>1. at'["handoff"] = "no" /\ at'["handoff"] \notin WithNext
      BY <1>7, HandoffGoes DEF WithNext
    <2>2. ~Replacing' /\ ~HasRequest' /\ HandoffShows' /\ HandoffRuns'
      <3>1. ~Replacing' /\ ~HasRequest' /\ HandoffShows'
        BY <2>1, HandoffWaits
      <3> QED
        BY <2>1, <3>1 DEF HandoffRuns
    <2>3. PairShows'
      <3>1. pair # Free => pair.worker = h.next /\ Usable(h.next) /\ h.next \in callback'
        BY <1>0, <1>1, <1>2, <1>3, <1>7 DEF HandoffShows
      <3>2. Owner => request.thread = h.next
        BY <1>0, <1>2, <1>3, <1>6 DEF HandoffRuns, HasRequest
      <3> QED
        BY <1>0, <1>2, <1>4, <3>1, <3>2 DEF PairShows, Open, Owner, Kept, Usable, Exists
    <2>4. FilesFollow'
      BY <1>0, <1>1, <1>4, <1>7 DEF FilesFollow, Owner, Usable, Exists
    <2> QED
      BY <1>5, <2>2, <2>3, <2>4 DEF HandoffKeeps
  <1>8. CASE /\ Outcome(FALSE) /\ Go("handoff", "undoing")
             /\ \/ UNCHANGED <<callback, mine>>
                \/ /\ callback' = callback \ {h.thread}
                   /\ mine' = [mine EXCEPT !["handoff"] =
                                  [mine["handoff"] EXCEPT !.undo = mine["handoff"].undo \cup {"resupervise"}]]
    <2>1. at'["handoff"] = "undoing" /\ failures' # 0 /\ at'["handoff"] \in WithNext
      BY <1>8, OutcomeIs, HandoffGoes DEF Steps, WithNext
    <2>2. /\ l.thread = h.thread /\ l.next = h.next /\ (l.owned <=> h.owned) /\ l.before = h.before
          /\ l.prior = h.prior /\ l.undo \in {h.undo, h.undo \cup {"resupervise"}}
      BY <1>0, <1>8 DEF LocalShape, LocalRecs, Operations
    <2>3. /\ Replacing' /\ (HasRequest' <=> HasRequest)
          /\ \A x : x # "resupervise" => (ToUndo(x)' <=> ToUndo(x))
      BY <1>2, <2>1, <2>2 DEF Replacing, HasRequest, ToUndo
    <2>4. h.thread \in callback \/ ToUndo("resupervise") => h.thread \in callback' \/ ToUndo("resupervise")'
      BY <1>0, <1>8 DEF ToUndo, LocalShape, LocalRecs, Operations
    <2>5. HandoffRuns'
      <3>1. HasRequest => Owner' /\ request'.thread = IF ToUndo("return") THEN h.next ELSE h.thread
        BY <1>0, <1>4 DEF HandoffRuns, Owner
      <3>2. ~h.owned => Published'
        BY <1>0, <1>1, <1>4 DEF HandoffRuns, Published
      <3>3. ToUndo("return") => h.prior.thread = h.thread /\ h.prior.status \in OwnerStatuses \ {"approved"}
        BY <1>0, <1>2 DEF HandoffRuns
      <3> QED
        BY <1>3, <1>4, <2>1, <2>2, <2>3, <3>1, <3>2, <3>3 DEF HandoffRuns
    <2>6. HandoffShows'
      BY <1>0, <1>2, <1>3, <1>4, <2>1, <2>2, <2>3, <2>4 DEF HandoffShows, Exists
    <2>7. PairShows'
      BY <1>0, <1>2, <1>4, <2>1, <2>3 DEF PairShows, Open, Owner
    <2>8. FilesFollow'
      BY <2>1 DEF FilesFollow
    <2> QED
      BY <1>5, <2>5, <2>6, <2>7, <2>8 DEF HandoffKeeps
  <1> QED
    BY <1>1, <1>7, <1>8

\* What a step that takes back u leaves: the request and the pair are as what is still
\* to be taken back says, and the replaced Worker as it was but for that.
Undone(u) == LET h    == mine["handoff"]
                 left == h.undo \ {u} IN
    /\ h.owned => Owner' /\ request'.thread = IF "return" \in left THEN h.next ELSE h.thread
    /\ request' # request => h.owned /\ request'.status # "approved" /\ request'.linked = request.linked
    /\ pair' # Free => pair # Free /\ (pair' = pair \/ "detach" \notin left)
    /\ pair' # Free /\ "detach" \notin left =>
           pair'.worker = h.thread /\ pair'.from \notin {h.thread, h.next} /\ pair'.from \in Started
    /\ pair' # Free => worker'[h.thread] \in {"idle", "running"}
    /\ pair' # Free => h.thread \notin retired' \/ "unretire" \in left
    /\ pair' # Free => h.thread \in callback' \/ "resupervise" \in left
    /\ retired' \subseteq retired /\ \A w \in Workers : worker[w] # "none" => worker'[w] # "none"
    /\ failures' = 0 => /\ failures = 0 /\ UNCHANGED <<requests, pairs, retired>>
                        /\ left \subseteq {"untrack", "delete"}
                        /\ \A w \in Workers \ {h.next} : worker'[w] = worker[w]

LEMMA UndoIs ==
    ASSUME SourceInv, OneFault, failures \in Nat, failures' <= 1, at["handoff"] = "undoing", NEW ok \in BOOLEAN,
           \/ UndoTransfer(mine["handoff"], ok) \/ UndoRetirement(mine["handoff"], ok)
           \/ UndoAttachment(mine["handoff"], ok) \/ UndoCallback(mine["handoff"], ok)
           \/ UndoStart(mine["handoff"], ok)
    PROVE  NextUndo \in mine["handoff"].undo /\ Undone(NextUndo)
PROOF
  <1> DEFINE h == mine["handoff"]
             u == NextUndo
             left == h.undo \ {u}
  <1>0. PairShows /\ RequestNames /\ FilesFollow /\ LocalShape /\ WorkShape /\ HandoffRuns /\ HandoffShows
        /\ HandoffKnows /\ RequestShape
    BY DEF OneFault, SourceInv
  <1>1. at["handoff"] \in WithNext /\ Replacing /\ h.next \in Workers /\ h.thread \in Workers /\ h.next # h.thread
        /\ (HasRequest <=> h.owned) /\ \A x : ToUndo(x) <=> x \in h.undo
    BY <1>0 DEF WithNext, Replacing, HandoffRuns, HandoffKnows, HasRequest, ToUndo
  <1>2. u \in h.undo
    <2>1. h.undo # {} /\ h.undo \subseteq Undos
      BY <1>0, <1>1 DEF HandoffKnows, LocalShape, LocalRecs, Operations
    <2> QED
      BY <2>1, NextUndoIs
  <1> HIDE DEF u
  <1>3. /\ h.owned => Owner /\ request.thread = IF "return" \in h.undo THEN h.next ELSE h.thread
        /\ pair # Free /\ "detach" \in h.undo =>
               /\ pair.worker = h.next /\ h.before # Free /\ h.before.worker = h.thread
               /\ h.before.from \notin {h.thread, h.next} /\ h.before.from \in Started
        /\ pair # Free => /\ worker[h.thread] \in {"idle", "running"}
                          /\ h.thread \notin retired \/ "unretire" \in h.undo
                          /\ h.thread \in callback \/ "resupervise" \in h.undo
    BY <1>0, <1>1 DEF HandoffRuns, HandoffShows, Exists
  <1>4. pair # Free /\ "detach" \notin h.undo =>
            pair.worker = h.thread /\ pair.from \notin {h.thread, h.next} /\ pair.from \in Started
    BY <1>0, <1>1 DEF HandoffShows, PairShows
  <1>5. failures = 0 => h.undo \subseteq {"untrack", "delete"}
    BY <1>0 DEF HandoffRuns
  <1>6. u \notin {"untrack", "delete"} => failures' # 0 /\ (Outcome(ok) => ok)
    <2>1. u \notin {"untrack", "delete"} => failures # 0
      BY <1>2, <1>5
    <2>2. Outcome(ok) \/ UNCHANGED failures
      BY DEF UndoTransfer, UndoRetirement, UndoAttachment, UndoCallback, UndoStart, Write, WritePair
    <2> QED
      BY <2>1, <2>2, OutcomeIs
  <1>7. CASE UndoTransfer(h, ok)
    <2>1. u = "return" /\ h.owned /\ request.thread = h.next /\ request # Free
      BY <1>0, <1>2, <1>3, <1>7 DEF UndoTransfer, HandoffKnows, Owner, u
    <2>2. Write([h.prior EXCEPT !.linked = request.linked], ok) /\ UNCHANGED <<pair, worker, retired, callback>>
      BY <1>7, <2>1 DEF UndoTransfer, pairs, u
    <2>3. /\ h.prior \in Maybe(NamedRequests) /\ h.prior # Free /\ h.prior.thread = h.thread
          /\ h.prior.status \in OwnerStatuses \ {"approved"} /\ request.linked \in BOOLEAN
      <3>1. h.prior \in Maybe(NamedRequests) /\ h.prior # Free
        BY <1>0, <1>2, <2>1 DEF LocalShape, LocalRecs, Operations, HandoffKnows
      <3>2. request \in Maybe(NamedRequests)
        BY <1>0 DEF RequestShape
      <3> QED
        BY <1>0, <1>1, <1>2, <2>1, <3>1, <3>2, RequestIs DEF HandoffRuns
    <2>4. /\ request' # Free /\ request'.thread = h.thread /\ request'.linked = request.linked
          /\ request'.status \in OwnerStatuses \ {"approved"}
      <3>1. h.prior \in NamedRequests
        BY <2>3 DEF Maybe
      <3>2. [h.prior EXCEPT !.linked = request.linked] \in NamedRequests
        BY <2>3, <3>1 DEF NamedRequests, RequestRecords
      <3>3. request' = [h.prior EXCEPT !.linked = request.linked]
        BY <2>2 DEF Write
      <3> QED
        BY <2>3, <3>1, <3>2, <3>3, RequestsAreSomething DEF NamedRequests, RequestRecords
    <2>5. Owner'
      BY <2>4 DEF Owner
    <2>6. failures' # 0 /\ "return" \notin left
      BY <1>6, <2>1
    <2> QED
      BY <1>2, <1>3, <1>4, <2>1, <2>2, <2>4, <2>5, <2>6 DEF Undone, u
  <1>8. CASE UndoRetirement(h, ok)
    <2>1. u = "unretire" /\ ok /\ failures' # 0 /\ retired' = retired \ {h.thread}
          /\ UNCHANGED <<request, pair, worker, callback>>
      BY <1>6, <1>8 DEF UndoRetirement, requests, pairs, u
    <2>2. h.owned => Owner'
      BY <1>3, <2>1 DEF Owner
    <2> QED
      BY <1>2, <1>3, <1>4, <2>1, <2>2 DEF Undone, u
  <1>9. CASE UndoAttachment(h, ok)
    <2>1. u = "detach" /\ failures' # 0 /\ UNCHANGED <<request, worker, retired, callback>>
      BY <1>6, <1>9 DEF UndoAttachment, requests, u
    <2>2. pair' = IF pair # Free THEN h.before ELSE Free
      BY <1>2, <1>3, <1>9, <2>1 DEF UndoAttachment, WritePair, pairs, u
    <2>3. h.owned => Owner'
      BY <1>3, <2>1 DEF Owner
    <2> QED
      BY <1>2, <1>3, <2>1, <2>2, <2>3 DEF Undone, u
  <1>10. CASE UndoCallback(h, ok)
    <2>1. /\ u \in {"untrack", "resupervise"} /\ Outcome(ok) /\ UNCHANGED <<requests, pairs, worker, retired>>
          /\ callback' = IF ~ok THEN callback
                         ELSE IF u = "untrack" THEN callback \ {h.next} ELSE callback \cup {h.thread}
      BY <1>10 DEF UndoCallback, u
    <2>2. h.owned => Owner'
      BY <1>3, <2>1 DEF Owner, requests
    <2>3. pair # Free => h.thread \in callback' \/ "resupervise" \in left
      BY <1>1, <1>3, <1>6, <2>1
    <2>4. failures' = 0 => failures = 0 /\ left \subseteq {"untrack", "delete"}
      BY <1>5, <2>1, OutcomeIs
    <2>5. UNCHANGED <<request, pair>> /\ \A x \in {"return", "detach", "unretire"} : x \in left <=> x \in h.undo
      BY <2>1 DEF requests, pairs
    <2> QED
      BY <1>2, <1>3, <1>4, <2>1, <2>2, <2>3, <2>4, <2>5 DEF Undone, u
  <1>11. CASE UndoStart(h, ok)
    <2>1. /\ u = "delete" /\ Outcome(ok) /\ UNCHANGED <<requests, pairs, retired, callback>>
          /\ worker' = IF ok THEN [worker EXCEPT ![h.next] = "gone"] ELSE worker
      BY <1>11 DEF UndoStart, u
    <2>2. h.owned => Owner'
      BY <1>3, <2>1 DEF Owner, requests
    <2>3. /\ \A w \in Workers \ {h.next} : worker'[w] = worker[w]
          /\ \A w \in Workers : worker[w] # "none" => worker'[w] # "none"
      BY <1>0, <1>1, <2>1 DEF WorkShape
    <2>4. failures' = 0 => failures = 0 /\ left \subseteq {"untrack", "delete"}
      BY <1>5, <2>1, OutcomeIs
    <2>5. UNCHANGED <<request, pair>>
          /\ \A x \in {"return", "detach", "unretire", "resupervise"} : x \in left <=> x \in h.undo
      BY <2>1 DEF requests, pairs
    <2> QED
      BY <1>1, <1>2, <1>3, <1>4, <2>1, <2>2, <2>3, <2>4, <2>5 DEF Undone, u
  <1> QED
    BY <1>2, <1>7, <1>8, <1>9, <1>10, <1>11 DEF u

LEMMA HandoffUndoesKeeps ==
    ASSUME SourceInv, OneFault, failures \in Nat, failures' <= 1, HandoffUndoes
    PROVE  HandoffKeeps
PROOF
  <1> DEFINE h == mine["handoff"]
             l == mine'["handoff"]
             u == NextUndo
             left == h.undo \ {u}
  <1>0. PairShows /\ RequestNames /\ FilesFollow /\ LocalShape /\ WorkShape /\ HandoffRuns /\ HandoffShows
        /\ HandoffKnows /\ RequestShape
    BY DEF OneFault, SourceInv
  <1>1. /\ at["handoff"] = "undoing"
        /\ IF h.undo = {u} THEN End("handoff")
           ELSE /\ mine' = [mine EXCEPT !["handoff"] = [mine["handoff"] EXCEPT !.undo = mine["handoff"].undo \ {u}]]
                /\ UNCHANGED at
    BY DEF HandoffUndoes
  <1>2. u \in h.undo /\ Undone(u)
    <2>1. PICK ok \in BOOLEAN :
             \/ UndoTransfer(h, ok) \/ UndoRetirement(h, ok) \/ UndoAttachment(h, ok)
             \/ UndoCallback(h, ok) \/ UndoStart(h, ok)
      BY DEF HandoffUndoes
    <2> QED
      BY <1>1, <2>1, UndoIs
  <1> HIDE DEF u
  <1>3. at["handoff"] \in WithNext /\ Replacing /\ h.next \in Workers /\ h.thread \in Workers /\ h.next # h.thread
        /\ h.next \notin retired /\ h.thread \in Started /\ (HasRequest <=> h.owned)
        /\ at["approve"] = "no" /\ at'["approve"] = "no" /\ \A x : ToUndo(x) <=> x \in h.undo
    <2>1. at["handoff"] \in WithNext /\ Replacing
      BY <1>1 DEF WithNext, Replacing
    <2> QED
      BY <1>0, <2>1, HandoffQuiet DEF Handoff, HandoffRuns, HandoffKnows, HasRequest, ToUndo
  <1>4. /\ h.owned => Owner' /\ request'.thread = IF "return" \in left THEN h.next ELSE h.thread
        /\ request' # request => h.owned /\ request'.status # "approved" /\ request'.linked = request.linked
        /\ pair' # Free => pair # Free /\ (pair' = pair \/ "detach" \notin left)
        /\ retired' \subseteq retired /\ Started \subseteq Started'
    BY <1>2 DEF Undone, Started
  <1>5. pair' # Free =>
            /\ "detach" \notin left =>
                   pair'.worker = h.thread /\ pair'.from \notin {h.thread, h.next} /\ pair'.from \in Started'
            /\ worker'[h.thread] \in {"idle", "running"}
            /\ h.thread \notin retired' \/ "unretire" \in left
            /\ h.thread \in callback' \/ "resupervise" \in left
    BY <1>2, <1>4 DEF Undone
  <1>6. ~h.owned => Published' /\ UNCHANGED request
    BY <1>0, <1>1, <1>4 DEF HandoffRuns, Published
  <1>7. pair' # Free => Open' /\ request'.linked
    <2>1. pair' # Free => Open'
      BY <1>0, <1>4, <1>6, StatusFacts DEF PairShows, Open, Owner
    <2>2. pair # Free => request.linked
      BY <1>0, <1>3 DEF PairShows
    <2>3. CASE request' = request
      BY <1>4, <2>1, <2>2, <2>3
    <2>4. CASE request' # request
      BY <1>4, <2>1, <2>2, <2>4
    <2> QED
      BY <2>3, <2>4
  <1>8. RequestNames'
    <2>1. CASE request' = request
      BY <1>0, <1>4, <2>1 DEF RequestNames, Owner
    <2>2. CASE request' # request
      <3>1. Owner' /\ request'.status # "approved" /\ request'.thread \in Workers
        BY <1>3, <1>4, <2>2
      <3> QED
        BY <1>0, <1>4, <3>1, StatusFacts DEF RequestNames, Owner
    <2> QED
      BY <2>1, <2>2
  <1>9. FilesFollow'
    <2>1. SUFFICES ASSUME failures' = 0 PROVE FilesFollow'
      BY DEF FilesFollow
    <2>2. /\ failures = 0 /\ UNCHANGED <<request, requestFile, pair, pairFile, retired>>
          /\ left \subseteq {"untrack", "delete"} /\ \A w \in Workers \ {h.next} : worker'[w] = worker[w]
      BY <1>2, <2>1 DEF Undone, requests, pairs
    <2>3. Owner => request.thread = h.thread
      BY <1>4, <1>6, <2>2, StatusFacts DEF Owner, Published
    <2>4. pairFile = pair
      BY <1>0, <1>1, <2>2 DEF FilesFollow
    <2> QED
      BY <1>0, <1>3, <2>2, <2>3, <2>4 DEF FilesFollow, Owner, Usable, Exists
  <1>10. CASE h.undo = {u}
    <2>1. left = {} /\ at'["handoff"] = "no"
      BY <1>1, <1>10, HandoffGoes
    <2>2. ~Replacing' /\ ~HasRequest' /\ HandoffShows' /\ HandoffRuns'
      <3>1. ~Replacing' /\ ~HasRequest' /\ HandoffShows' /\ at'["handoff"] \notin WithNext
        BY <2>1, HandoffWaits
      <3> QED
        BY <2>1, <3>1 DEF HandoffRuns
    <2>3. PairShows'
      <3>1. pair' # Free => /\ pair'.worker = h.thread /\ pair'.from # h.thread /\ pair'.from \in Started'
                            /\ worker'[h.thread] \in {"idle", "running"} /\ h.thread \notin retired' /\ h.thread \in callback'
        BY <1>5, <2>1
      <3>2. Owner' => request'.thread = h.thread
        BY <1>4, <1>6, <2>1, StatusFacts DEF Owner, Published
      <3> QED
        BY <1>3, <1>7, <3>1, <3>2, FreeIsNothing DEF PairShows, Kept, Usable, Exists
    <2> QED
      BY <1>8, <1>9, <2>2, <2>3 DEF HandoffKeeps
  <1>11. CASE h.undo # {u}
    <2>1. /\ l.thread = h.thread /\ l.next = h.next /\ (l.owned <=> h.owned) /\ l.before = h.before
          /\ l.prior = h.prior /\ l.undo = left
      BY <1>0, <1>1, <1>11 DEF LocalShape, LocalRecs, Operations
    <2>2. /\ at'["handoff"] = "undoing" /\ at'["handoff"] \in WithNext
          /\ Replacing' /\ (HasRequest' <=> HasRequest) /\ \A x : ToUndo(x)' <=> x \in left
      BY <1>1, <1>3, <1>11, <2>1 DEF Replacing, HasRequest, ToUndo
    <2>3. HandoffRuns'
      <3>1. failures' = 0 => left \subseteq {"untrack", "delete"}
        BY <1>2 DEF Undone
      <3>2. "return" \in left => h.prior.thread = h.thread /\ h.prior.status \in OwnerStatuses \ {"approved"}
        BY <1>0, <1>3 DEF HandoffRuns
      <3>3. pair' # Free /\ "detach" \notin left => pair'.worker = h.thread
        BY <1>5
      <3> QED
        BY <1>3, <1>4, <1>6, <2>1, <2>2, <3>1, <3>2, <3>3 DEF HandoffRuns
    <2>4. HandoffShows'
      <3>1. pair' # Free /\ "detach" \in left =>
               /\ pair' = pair /\ pair.worker = h.next /\ pair.from = h.thread
               /\ h.before # Free /\ h.before.worker = h.thread
               /\ h.before.from \notin {h.thread, h.next} /\ h.before.from \in Started
        BY <1>0, <1>3, <1>4 DEF HandoffShows
      <3> QED
        BY <1>3, <1>4, <1>5, <2>1, <2>2, <3>1, FreeIsNothing DEF HandoffShows, Exists
    <2>5. PairShows'
      <3>1. pair' # Free => pair'.worker \in Workers /\ pair'.from # pair'.worker /\ pair'.from \in Started'
        <4>1. pair' # Free /\ pair' = pair => pair'.worker \in Workers /\ pair'.from # pair'.worker /\ pair'.from \in Started'
          BY <1>0, <1>4 DEF PairShows
        <4> QED
          BY <1>3, <1>4, <1>5, <4>1
      <3>2. Owner' => HasRequest'
        BY <1>3, <1>6, <2>2, StatusFacts DEF Owner, Published
      <3> QED
        BY <1>7, <2>2, <3>1, <3>2 DEF PairShows
    <2> QED
      BY <1>8, <1>9, <2>3, <2>4, <2>5 DEF HandoffKeeps
  <1> QED
    BY <1>10, <1>11

LEMMA HandoffStep ==
    ASSUME SourceInv, OneFault, failures \in Nat, failures' <= 1, HandoffBegins \/ Handoff
    PROVE  OneFault'
PROOF
  <1>1. ApprovalRuns' /\ DiscardsEnd'
    BY HandoffApproval, HandoffQuiet
  <1>2. HandoffKeeps
    BY HandoffBeginsKeeps, HandoffLocksKeeps, HandoffEntersKeeps, HandoffStartsKeeps, HandoffTracksKeeps,
       HandoffAttachesKeeps, HandoffTransfersKeeps, HandoffFlushesKeeps, HandoffRetiresKeeps,
       HandoffReleasesKeeps, HandoffUndoesKeeps DEF Handoff
  <1> QED
    BY <1>1, <1>2 DEF HandoffKeeps, OneFault

\* A step of the others.
LEMMA MildKeeps ==
    ASSUME SourceInv, OneFault, failures \in Nat, failures' <= 1, Mild, Started \subseteq Started',
           \A o \in Discarding : Ended(o)'
    PROVE  OneFault'
PROOF
  <1>1. ApprovalRuns /\ HandoffRuns /\ HandoffShows /\ PairShows /\ RequestNames /\ FilesFollow
    BY DEF OneFault
  <1>2. ApprovalRuns' /\ HandoffRuns' /\ HandoffShows' /\ PairShows' /\ RequestNames' /\ FilesFollow'
    BY <1>1, MildApproval, MildHandoff, MildShows, MildNames, MildFiles
  <1> QED
    BY <1>2 DEF OneFault, DiscardsEnd, Ended

LEMMA OthersKeep ==
    ASSUME SourceInv, OneFault, failures \in Nat, failures' <= 1,
           \/ \E o \in Discarding : (o = "discard" /\ DiscardBegins) \/ Discard(o)
           \/ DeleteBegins \/ Delete \/ MessageBegins \/ Message
           \/ Publish \/ Dismiss \/ SavesRequests \/ SavesPairs \/ UNCHANGED sourceVars
           \/ \E w \in Workers : Report(w) \/ Rests(w)
    PROVE  OneFault'
PROOF
  <1>0. PairShows /\ DiscardsEnd /\ "delete" \in Discarding /\ Discarding \subseteq Operations
        /\ \A p \in Discarding : Ended(p)
    BY DEF OneFault, Discarding, Operations, DiscardsEnd, Ended
  <1>1. ASSUME NEW o \in Discarding, (o = "discard" /\ DiscardBegins) \/ Discard(o)
        PROVE  OneFault'
    <2>1. Mild /\ Ended(o)' /\ Started \subseteq Started'
      BY <1>0, <1>1, DiscardMild, DiscardOwn, StartedStays
    <2>2. Alone(o)
      BY <1>1, DiscardAlone DEF SourceInv
    <2>3. ASSUME NEW p \in Discarding, p # o PROVE Ended(p)'
      <3>1. at'[p] = at[p]
        BY <1>0, <2>2, <2>3 DEF Alone, LocalsAlone
      <3> QED
        BY <1>0, <2>1, <3>1, MildEnds
    <2> QED
      BY <2>1, <2>3, MildKeeps
  <1>2. CASE DeleteBegins \/ Delete
    <2>1. Mild /\ Ended("delete")' /\ Started \subseteq Started'
      BY <1>0, <1>2, DeleteMild, DeleteOwn, StartedStays
    <2>2. Alone("delete")
      BY <1>2, DeleteAlone DEF SourceInv
    <2>3. ASSUME NEW p \in Discarding, p # "delete" PROVE Ended(p)'
      <3>1. at'[p] = at[p]
        BY <1>0, <2>2, <2>3 DEF Alone, LocalsAlone
      <3> QED
        BY <1>0, <2>1, <3>1, MildEnds
    <2> QED
      BY <2>1, <2>3, MildKeeps
  <1>3. ASSUME Mild, \A p \in Discarding : at'[p] = at[p], Started \subseteq Started'
        PROVE  OneFault'
    <2>1. \A p \in Discarding : Ended(p)'
      BY <1>0, <1>3, MildEnds
    <2> QED
      BY <1>3, <2>1, MildKeeps
  <1>4. CASE MessageBegins \/ Message
    BY <1>3, <1>4, MessageMild, MessageOwn, StartedStays
  <1>5. CASE \/ Publish \/ Dismiss \/ SavesRequests \/ SavesPairs \/ UNCHANGED sourceVars
             \/ \E w \in Workers : Report(w) \/ Rests(w)
    <2>1. Mild /\ UNCHANGED at
      BY <1>5, OthersMild
    <2>2. Started \subseteq Started'
      BY <1>5, OthersOwn, StartedStays
    <2> QED
      BY <1>3, <2>1, <2>2
  <1> QED
    BY <1>1, <1>2, <1>4, <1>5

-----------------------------------------------------------------------------
(* A restart, when nothing failed before it.                               *)

\* The request's file is behind by a report at most.
LEMMA SavedFollows ==
    ASSUME SourceInv, FilesFollow, failures = 0
    PROVE  /\ requestFile = Free <=> request = Free
           /\ requestFile # Free => /\ requestFile \in NamedRequests /\ requestFile.thread = request.thread
                                    /\ requestFile.linked = request.linked
           /\ requestFile # request => /\ requestFile # Free /\ requestFile.status = "running"
                                       /\ request.status = "changes_ready"
PROOF
  <1>1. CASE requestFile = request
    BY <1>1, RequestIs DEF SourceInv, RequestShape
  <1>2. CASE requestFile # request
    <2>1. request # Free /\ request.status = "changes_ready" /\ requestFile = [request EXCEPT !.status = "running"]
      BY <1>2 DEF FilesFollow
    <2>2. request \in NamedRequests /\ "running" \in Statuses
      BY <2>1, RequestIs DEF SourceInv, RequestShape, Statuses, OpenStatuses
    <2>3. [request EXCEPT !.status = "running"] \in NamedRequests
      BY <2>2 DEF NamedRequests, RequestRecords
    <2> QED
      BY <1>2, <2>1, <2>2, <2>3, StatusAlone
  <1> QED
    BY <1>1, <1>2

\* The Worker that the pair's file shows can be worked with.
LEMMA FileShows ==
    ASSUME SourceInv, OneFault, failures = 0, pairFile # Free
    PROVE  /\ pair # Free /\ Open /\ at["approve"] # "unpairing"
           /\ pairFile.worker \in Workers /\ Usable(pairFile.worker)
           /\ pairFile.from # pairFile.worker /\ pairFile.from \in Started
PROOF
  <1> DEFINE h == mine["handoff"]
             s == at["handoff"]
  <1>0. PairShows /\ RequestNames /\ FilesFollow /\ ApprovalRuns /\ HandoffRuns /\ HandoffShows
        /\ HandoffKnows /\ LocalShape
    BY DEF OneFault, SourceInv
  <1>1. pair # Free /\ Open
    BY <1>0 DEF FilesFollow, PairShows
  <1>2. at["approve"] # "unpairing"
    BY <1>0 DEF ApprovalRuns
  <1>3. CASE pairFile # pair
    <2>1. pairFile = h.before /\ s \in {"transferring", "flushing"}
      BY <1>0, <1>3 DEF FilesFollow
    <2>2. s \in WithNext \ {"undoing"} /\ Replacing /\ ToUndo("detach") /\ ~ToUndo("unretire")
          /\ h.thread \in Workers
      BY <1>0, <2>1 DEF HandoffRuns, WithNext, Replacing, UndoAt, ToUndo, HandoffKnows
    <2>3. /\ h.before.worker = h.thread /\ h.before.from \notin {h.thread, h.next} /\ h.before.from \in Started
          /\ Exists(h.thread) /\ h.thread \notin retired
      BY <1>0, <1>1, <2>2 DEF HandoffShows
    <2> QED
      BY <1>1, <1>2, <2>1, <2>2, <2>3 DEF Usable
  <1>4. CASE pairFile = pair
    <2>1. pair.worker \in Workers /\ pair.from # pair.worker /\ pair.from \in Started
      BY <1>0, <1>1 DEF PairShows
    <2>2. Usable(pair.worker)
      <3>1. CASE at["approve"] = "supervising"
        <4>1. ~Replacing /\ Owner /\ request.thread = mine["approve"].thread /\ Usable(mine["approve"].thread)
          BY <1>0, <3>1, ApprovesOrReplaces DEF ApprovalRuns, WithPrompt
        <4> QED
          BY <1>0, <1>1, <4>1 DEF PairShows, HasRequest
      <3>2. CASE at["approve"] # "supervising" /\ s \notin WithNext
        BY <1>0, <1>1, <1>2, <3>2 DEF PairShows, Kept
      <3>3. CASE s \in WithNext /\ ToUndo("detach")
        <4>1. Replacing /\ s # "undoing"
          BY <1>0, <3>3 DEF Replacing, HandoffRuns, ToUndo
        <4> QED
          BY <1>0, <1>1, <3>3, <4>1 DEF HandoffShows
      <3>4. CASE s \in WithNext /\ ~ToUndo("detach")
        <4>1. Replacing /\ ~ToUndo("unretire")
          BY <1>0, <3>4 DEF Replacing, HandoffRuns, ToUndo, UndoAt, WithNext
        <4> QED
          BY <1>0, <1>1, <3>4, <4>1 DEF HandoffShows, Usable
      <3> QED
        BY <3>1, <3>2, <3>3, <3>4
    <2> QED
      BY <1>1, <1>2, <1>4, <2>1, <2>2
  <1> QED
    BY <1>3, <1>4

\* Only a handoff leaves the saved pair with another Worker than the request names,
\* and that one is linked with its pair.
LEMMA FilesDiffer ==
    ASSUME SourceInv, OneFault, failures = 0, Owner, pairFile # Free, pairFile.worker # request.thread
    PROVE  request.linked
PROOF
  <1> DEFINE h == mine["handoff"]
             s == at["handoff"]
  <1>0. PairShows /\ FilesFollow /\ ApprovalRuns /\ HandoffRuns /\ HandoffShows /\ HandoffKnows
    BY DEF OneFault, SourceInv
  <1>1. pair # Free
    BY <1>0 DEF FilesFollow
  <1>2. HasRequest
    <2>1. CASE pairFile = pair
      BY <1>0, <1>1, <2>1 DEF PairShows
    <2>2. CASE pairFile # pair
      <3>1. s \in {"transferring", "flushing"} /\ s # "no" /\ Replacing
        BY <1>0, <2>2 DEF FilesFollow, Replacing, WithNext
      <3>2. h.owned
        BY <1>0, <3>1, StatusFacts DEF HandoffRuns, Published, Owner
      <3> QED
        BY <3>1, <3>2 DEF HasRequest
    <2> QED
      BY <2>1, <2>2
  <1>3. at["approve"] = "no"
    BY <1>0, <1>2, ApprovesOrReplaces DEF HasRequest
  <1> QED
    BY <1>0, <1>1, <1>3 DEF PairShows

\* A request and a pair that name one Worker, once settled.
LEMMA SettledShown ==
    ASSUME NEW f \in NamedRequests, NEW v, v # Free, v.worker = f.thread, Exists(f.thread),
           f.status \in {"running", "changes_ready", "committed"}
    PROVE  LET m == Settled(f, v) IN
           m # Free /\ m.thread = f.thread /\ m.linked /\ m.status \in {"running", "changes_ready", "committed"}
PROOF
  <1> DEFINE m == Settled(f, v)
  <1>1. f.thread # Free /\ f.linked \in BOOLEAN /\ f.thread \in Maybe(Workers) /\ f.workers \subseteq Workers
        /\ f = [status |-> f.status, thread |-> f.thread, linked |-> f.linked, workers |-> f.workers]
    BY DEF Exists, NamedRequests, RequestRecords
  <1>2. \E x \in {"running", "changes_ready", "committed"} :
           m = [status |-> x, thread |-> f.thread, linked |-> TRUE, workers |-> f.workers]
    BY <1>1 DEF Settled
  <1>3. PICK x \in {"running", "changes_ready", "committed"} :
           m = [status |-> x, thread |-> f.thread, linked |-> TRUE, workers |-> f.workers]
    BY <1>2
  <1>4. m.thread = f.thread /\ m.linked /\ m.status \in {"running", "changes_ready", "committed"}
    BY <1>3
  <1>5. m \in RequestRecords
    BY <1>1, <1>3 DEF RequestRecords, Statuses, OpenStatuses
  <1> QED
    BY <1>4, <1>5, FreeIsNothing

\* The request that holds the checkout and its pair, as they are saved, come to one
\* Worker that can be worked with and is not one replaced.
LEMMA Restored ==
    ASSUME SourceInv, OneFault, failures = 0, Owner, request.thread # Free
    PROVE  LET f == Followed(requestFile, pairFile)
               v == Shown(f, pairFile)
           IN  /\ f \in NamedRequests /\ f.status \in {"running", "changes_ready", "committed"}
               /\ v # Free /\ v.worker = f.thread /\ v.from # f.thread /\ v.from \in Started
               /\ f.thread \in Workers /\ Usable(f.thread)
               /\ pairFile # Free => pairFile.from # f.thread
PROOF
  <1> DEFINE f == Followed(requestFile, pairFile)
             v == Shown(f, pairFile)
             h == mine["handoff"]
             s == at["handoff"]
             r == requestFile
  <1>0. PairShows /\ RequestNames /\ FilesFollow /\ HandoffRuns /\ HandoffShows /\ HandoffKnows /\ RequestShape /\ PairShape
    BY DEF OneFault, SourceInv
  <1>1. /\ r # Free /\ r \in NamedRequests /\ r.thread = request.thread /\ r.linked = request.linked
        /\ r.status \in {"running", "changes_ready", "committed"} /\ r.linked \in BOOLEAN
    <2>1. request # Free /\ request.status \in {"running", "changes_ready", "committed"}
      BY <1>0, StatusFacts DEF Owner, RequestNames
    <2>2. r # Free /\ r \in NamedRequests /\ r.thread = request.thread /\ r.linked = request.linked
      BY <1>0, <2>1, SavedFollows
    <2>3. r = request \/ r.status = "running"
      BY <1>0, SavedFollows
    <2> QED
      BY <2>1, <2>2, <2>3 DEF NamedRequests, RequestRecords
  <1>2. request.thread \in Workers /\ Usable(request.thread)
    <2>1. request.thread \in Maybe(Workers)
      BY <1>0, RequestIs DEF RequestShape, Owner
    <2> QED
      BY <1>0, <2>1 DEF FilesFollow, Maybe
  <1>3. \A w \in Workers, x \in Maybe(Workers) :
           [worker |-> w, from |-> x] # Free /\ [worker |-> w, from |-> x].worker = w /\ [worker |-> w, from |-> x].from = x
    BY FreeIsNothing DEF PairRecords, Maybe
  <1>4. CASE pairFile = Free
    <2>1. f = r
      BY <1>4 DEF Followed, PairIsAhead, ShowsAnother
    <2>2. v = [worker |-> request.thread, from |-> Free]
      BY <1>1, <1>2, <1>4, <2>1 DEF Shown, ShowsAnother, Usable
    <2>3. v # Free /\ v.worker = request.thread /\ v.from = Free
      BY <1>2, <1>3, <2>2 DEF Maybe
    <2> QED
      BY <1>1, <1>2, <1>4, <2>1, <2>3, FreeIsNothing DEF Started
  <1>5. CASE pairFile # Free /\ pairFile.worker = request.thread
    <2>1. pairFile.from # pairFile.worker /\ pairFile.from \in Started
      BY <1>5, FileShows
    <2>2. f = r /\ v = pairFile
      BY <1>1, <1>5 DEF Followed, PairIsAhead, Shown, ShowsAnother
    <2> QED
      BY <1>1, <1>2, <1>5, <2>1, <2>2
  <1>6. CASE pairFile # Free /\ pairFile.worker # request.thread
    <2>1. /\ request.linked /\ pair # Free /\ pairFile.worker \in Workers /\ Usable(pairFile.worker)
          /\ pairFile.from # pairFile.worker /\ pairFile.from \in Started
      BY <1>6, FileShows, FilesDiffer
    <2>2. ShowsAnother(r, pairFile)
      BY <1>1, <1>2, <1>6, <2>1, FreeIsNothing DEF ShowsAnother
    <2>3. CASE pairFile.from = request.thread
      <3>1. PairIsAhead(r, pairFile)
        BY <1>1, <2>1, <2>2, <2>3 DEF PairIsAhead, Usable
      <3>2. f = With(r, "running", pairFile.worker, r.linked)
        BY <3>1 DEF Followed
      <3>3. f \in NamedRequests /\ f.status = "running" /\ f.thread = pairFile.worker
        <4>1. "running" \in Statuses
          BY DEF Statuses, OpenStatuses
        <4>2. With(r, "running", pairFile.worker, r.linked) \in NamedRequests
          BY <1>1, <2>1, <4>1 DEF NamedRequests, RequestRecords, With, Maybe
        <4> QED
          BY <3>2, <4>2 DEF With
      <3>4. v = pairFile
        BY <1>6, <3>3 DEF Shown, ShowsAnother
      <3> QED
        BY <1>6, <2>1, <2>3, <3>3, <3>4
    <2>4. CASE pairFile.from # request.thread
      <3>1. f = r
        BY <1>1, <2>4 DEF Followed, PairIsAhead
      <3>2. \E x \in Maybe(Workers) :
               /\ v = [worker |-> request.thread, from |-> x] /\ x # request.thread /\ x \in Started
        <4>1. pairFile.worker \in Started
          BY <2>1 DEF Usable, Exists, Started
        <4>2. v \in {[worker |-> request.thread, from |-> pairFile.worker], [worker |-> request.thread, from |-> Free]}
          BY <1>1, <1>2, <1>6, <2>2, <3>1 DEF Shown, Usable
        <4> QED
          BY <1>2, <1>6, <2>1, <4>1, <4>2, FreeIsNothing DEF Maybe, Started
      <3>3. v # Free /\ v.worker = request.thread /\ v.from # request.thread /\ v.from \in Started
        BY <1>2, <1>3, <3>2
      <3> QED
        BY <1>1, <1>2, <2>4, <3>1, <3>3
    <2> QED
      BY <2>3, <2>4
  <1> QED
    BY <1>4, <1>5, <1>6

LEMMA RestartOneFault ==
    ASSUME SourceInv, OneFault, failures \in Nat, failures' <= 1, Restart
    PROVE  OneFault'
PROOF
  <1> DEFINE saved == requestFile
             owns == saved # Free /\ saved.status \in OwnerStatuses
             followed == IF owns THEN Followed(saved, pairFile) ELSE saved
             shown == IF owns THEN Shown(followed, pairFile) ELSE pairFile
             settled == IF owns THEN Settled(followed, shown) ELSE saved
             named == IF shown = Free THEN {} ELSE {shown.worker} \ {Free}
  <1>0. PairShows /\ RequestNames /\ FilesFollow /\ ApprovalRuns /\ HandoffRuns /\ RequestShape /\ PairShape /\ WorkShape
    BY DEF OneFault, SourceInv
  <1>1. /\ Outcome(FALSE)
        /\ request' = settled /\ requestFile' = settled
        /\ worker' = [w \in Workers |-> IF worker[w] = "running" THEN "idle" ELSE worker[w]]
        /\ pair' = IF \A w \in named : Exists(w) THEN shown ELSE [shown EXCEPT !.worker = Free]
        /\ retired' = retired \cup (IF pairFile = Free THEN {} ELSE {pairFile.from} \ {Free})
        /\ callback' = callback \cup {w \in named : Exists(w)}
        /\ at' = [o \in Operations |-> "no"] /\ mine' = [o \in Operations |-> NoLocals]
    BY DEF Restart
  <1>2. failures = 0 /\ failures' # 0
    BY <1>1, OutcomeIs
  <1>3. owns <=> Owner
    BY <1>0, <1>2, SavedFollows, StatusFacts DEF Owner
  <1>4. \A o \in Operations : at'[o] = "no"
    BY <1>1
  <1>5. {"approve", "handoff"} \subseteq Operations /\ Discarding \subseteq Operations
    BY DEF Operations, Discarding
  <1>6. at'["approve"] = "no" /\ at'["handoff"] = "no"
    BY <1>4, <1>5
  <1>7. ~Replacing' /\ ~HasRequest' /\ HandoffShows' /\ at'["handoff"] \notin WithNext
    BY <1>6, HandoffWaits
  <1>8. ApprovalRuns' /\ HandoffRuns' /\ DiscardsEnd' /\ FilesFollow'
    BY <1>2, <1>4, <1>5, <1>6, <1>7
    DEF ApprovalRuns, WithPrompt, HandoffRuns, DiscardsEnd, Purging, FilesFollow
  <1>9. Started' = Started
    BY <1>1, <1>0 DEF Started, WorkShape
  <1>10. retired' \subseteq Started
    <2>1. pairFile # Free => pairFile.from \in Started
      BY <1>2, FileShows
    <2> QED
      BY <1>0, <1>1, <2>1 DEF RequestNames
  <1>11. \A w \in Workers : worker[w] \in {"idle", "running"} => worker'[w] \in {"idle", "running"}
    BY <1>1
  <1>12. SUFFICES PairShows' /\ RequestNames'
    BY <1>7, <1>8 DEF OneFault
  <1>13. CASE ~Owner
    <2>1. shown = pairFile /\ request' = saved
      BY <1>1, <1>3, <1>13
    <2>2. saved = request
      BY <1>0, <1>2, <1>13, SavedFollows, StatusFacts DEF Owner
    <2>3. CASE pairFile = Free
      <3>1. pair' = Free
        BY <1>1, <2>1, <2>3
      <3> QED
        BY <1>0, <1>9, <1>10, <1>13, <2>1, <2>2, <3>1, NoPair DEF RequestNames, Owner
    <2>4. CASE pairFile # Free
      <3>1. /\ pair # Free /\ Open /\ pairFile.worker \in Workers /\ Usable(pairFile.worker)
            /\ pairFile.from # pairFile.worker /\ pairFile.from \in Started
        BY <1>2, <2>4, FileShows
      <3>2. PICK p \in Workers : p = pairFile.worker
        BY <3>1
      <3>3. named = {p} /\ Exists(p)
        BY <2>1, <2>4, <3>1, <3>2 DEF Usable, Exists
      <3> HIDE DEF named, shown, settled, followed, owns
      <3>4. pair' = pairFile /\ p \in callback' /\ p \notin retired'
        BY <1>1, <2>1, <2>4, <3>1, <3>2, <3>3 DEF Usable
      <3>5. request.linked
        <4>1. at["approve"] = "no"
          BY <1>0, <1>13 DEF ApprovalRuns
        <4> QED
          BY <1>0, <3>1, <4>1 DEF PairShows
      <3>6. Kept(p)'
        BY <1>11, <3>2, <3>3, <3>4 DEF Kept, Usable, Exists
      <3>7. PairShows'
        BY <1>9, <1>13, <2>1, <2>2, <3>1, <3>2, <3>4, <3>5, <3>6 DEF PairShows, Kept, Usable, Exists, Open, Owner
      <3>8. RequestNames'
        BY <1>0, <1>9, <1>10, <1>13, <2>1, <2>2, <3>1, <3>4 DEF RequestNames, Owner
      <3> QED
        BY <3>7, <3>8
    <2> QED
      BY <2>3, <2>4
  <1>14. CASE Owner /\ request.thread = Free
    <2>1. request.status = "approved" /\ pair = Free /\ request # Free
      BY <1>0, <1>14, FreeIsNothing DEF RequestNames, Owner
    <2>2. pairFile = Free /\ saved = request /\ saved \in NamedRequests
      BY <1>0, <1>2, <2>1, SavedFollows DEF FilesFollow
    <2>3. followed = saved /\ shown = Free
      BY <1>3, <1>14, <2>2 DEF Followed, PairIsAhead, ShowsAnother, Shown, Exists
    <2>4. settled = With(saved, "pending", Free, FALSE)
      <3>1. settled = Settled(saved, Free)
        BY <1>3, <1>14, <2>3
      <3>2. ~Exists(saved.thread) /\ saved.status = "approved"
        BY <1>14, <2>1, <2>2 DEF Exists
      <3> HIDE DEF settled
      <3> QED
        BY <3>1, <3>2 DEF Settled
    <2>5. request'.status = "pending" /\ request'.thread = Free
      BY <1>1, <2>4 DEF With
    <2>6. pair' = Free
      BY <1>1, <2>3
    <2>7. RequestNames'
      BY <1>9, <1>10, <2>5, <2>6, StatusFacts DEF RequestNames, Owner
    <2> QED
      BY <2>6, <2>7, NoPair
  <1>15. CASE Owner /\ request.thread # Free
    <2>1. followed = Followed(saved, pairFile) /\ shown = Shown(followed, pairFile) /\ settled = Settled(followed, shown)
      BY <1>3, <1>15
    <2>2. /\ followed \in NamedRequests /\ followed.status \in {"running", "changes_ready", "committed"}
          /\ shown # Free /\ shown.worker = followed.thread /\ shown.from # followed.thread /\ shown.from \in Started
          /\ followed.thread \in Workers /\ Usable(followed.thread)
          /\ pairFile # Free => pairFile.from # followed.thread
      BY <1>2, <1>15, <2>1, Restored
    <2>3. PICK n \in Workers : n = followed.thread
      BY <2>2
    <2>4. named = {n} /\ Exists(n)
      BY <2>2, <2>3 DEF Usable, Exists
    <2> HIDE DEF named, shown, settled, followed, owns
    <2>5. /\ request' # Free /\ request'.thread = n /\ request'.linked
          /\ request'.status \in {"running", "changes_ready", "committed"}
      BY <1>1, <2>1, <2>2, <2>3, <2>4, SettledShown
    <2>6. pair' = shown /\ n \in callback' /\ n \notin retired'
      BY <1>1, <2>2, <2>3, <2>4 DEF Usable
    <2>7. Kept(n)'
      BY <1>11, <2>3, <2>4, <2>6 DEF Kept, Usable, Exists
    <2>8. Open' /\ Owner'
      BY <2>5, StatusFacts DEF Open, Owner
    <2>9. PairShows'
      BY <1>9, <2>2, <2>3, <2>5, <2>6, <2>7, <2>8 DEF PairShows, Kept, Usable, Exists
    <2>10. RequestNames'
      BY <1>9, <1>10, <2>5 DEF RequestNames
    <2> QED
      BY <2>9, <2>10
  <1> QED
    BY <1>13, <1>14, <1>15

-----------------------------------------------------------------------------
(* Until the second fault.                                                 *)

LEMMA OneFaultInit == SourceInit => OneFaultInv
PROOF
  <1> SUFFICES ASSUME SourceInit PROVE OneFaultInv
    OBVIOUS
  <1>1. /\ request = [status |-> "pending", thread |-> Free, linked |-> FALSE, workers |-> {}]
        /\ requestFile = request /\ pair = Free /\ pairFile = Free /\ retired = {} /\ failures = 0
        /\ at = [o \in Operations |-> "no"] /\ mine = [o \in Operations |-> NoLocals]
    BY DEF SourceInit
  <1>2. at["approve"] = "no" /\ at["handoff"] = "no" /\ \A o \in Discarding : at[o] = "no"
    BY <1>1 DEF Operations, Discarding
  <1>3. request.status = "pending" /\ request.thread = Free /\ ~Owner
    BY <1>1, StatusFacts DEF Owner
  <1>4. ApprovalRuns /\ DiscardsEnd
    BY <1>2 DEF ApprovalRuns, WithPrompt, DiscardsEnd, Purging
  <1>5. HandoffRuns /\ HandoffShows
    BY <1>2 DEF HandoffRuns, HandoffShows, HasRequest, Replacing, WithNext
  <1>6. PairShows /\ RequestNames /\ FilesFollow
    BY <1>1, <1>3 DEF PairShows, RequestNames, FilesFollow
  <1> QED
    BY <1>1, <1>4, <1>5, <1>6 DEF OneFaultInv, OneFault

\* Faults are only added.
LEMMA FaultsAdd ==
    ASSUME failures \in Nat, [SourceNext]_sourceVars
    PROVE  failures' \in Nat /\ failures <= failures'
PROOF
  <1>1. SUFFICES failures' \in {failures, failures + 1}
    OBVIOUS
  <1>2. CASE ApproveBegins \/ Approve
    BY <1>2, OutcomeIs
    DEF ApproveBegins, Approve, ApproveStarts, ApproveRefused, ApprovePrompts, ApprovePairs, ApproveSupervises,
        ApproveLinks, ApproveUnpairs, ApproveDeletes, ApproveReverts, Write, WritePair
  <1>3. ASSUME NEW o \in Discarding, DiscardBegins \/ Discard(o)
        PROVE  failures' \in {failures, failures + 1}
    BY <1>3, OutcomeIs
    DEF DiscardBegins, Discard, DiscardLocks, DiscardEnters, DiscardQuiesces, DiscardStops, DiscardUnpairs,
        DiscardCloses, Write, WritePair
  <1>4. CASE DeleteBegins \/ Delete \/ MessageBegins \/ Message
    BY <1>4, OutcomeIs
    DEF DeleteBegins, Delete, DeleteEnters, DeleteWorker, DeleteUnsupervises, DeleteRemoves, Write,
        MessageBegins, Message, MessageLocks, MessageEnters, MessageArrives, MessageUnknown, MessageRejected
  <1>5. CASE HandoffBegins \/ Handoff
    BY <1>5, OutcomeIs
    DEF HandoffBegins, Handoff, HandoffLocks, HandoffEnters, HandoffStarts, HandoffTracks, HandoffAttaches,
        HandoffTransfers, HandoffFlushes, HandoffRetires, HandoffReleases, HandoffUndoes, UndoTransfer,
        UndoRetirement, UndoAttachment, UndoCallback, UndoStart, Write, WritePair
  <1>6. CASE \/ Publish \/ Dismiss \/ SavesRequests \/ SavesPairs \/ Restart \/ UNCHANGED sourceVars
             \/ \E w \in Workers : Report(w) \/ Rests(w)
    BY <1>6, OutcomeIs DEF Publish, Dismiss, SavesRequests, SavesPairs, Restart, Report, Rests, Write, WritePair, sourceVars
  <1>7. "discard" \in Discarding
    BY DEF Discarding
  <1> QED
    BY <1>2, <1>3, <1>4, <1>5, <1>6, <1>7 DEF SourceNext

LEMMA OneFaultStep ==
    ASSUME SourceInv, OneFaultInv, [SourceNext]_sourceVars
    PROVE  OneFaultInv'
PROOF
  <1>1. failures \in Nat /\ failures' \in Nat /\ failures <= failures'
    BY FaultsAdd DEF OneFaultInv
  <1>2. SUFFICES ASSUME failures' <= 1 PROVE OneFault'
    BY <1>1 DEF OneFaultInv
  <1>3. OneFault
    BY <1>1, <1>2 DEF OneFaultInv
  <1>4. CASE ApproveBegins \/ Approve
    BY <1>1, <1>2, <1>3, <1>4, ApproveBeginsKeeps, ApproveKeeps
  <1>5. CASE HandoffBegins \/ Handoff
    BY <1>1, <1>2, <1>3, <1>5, HandoffStep
  <1>6. CASE Restart
    BY <1>1, <1>2, <1>3, <1>6, RestartOneFault
  <1>7. CASE \/ \E o \in Discarding : (o = "discard" /\ DiscardBegins) \/ Discard(o)
             \/ DeleteBegins \/ Delete \/ MessageBegins \/ Message
             \/ Publish \/ Dismiss \/ SavesRequests \/ SavesPairs \/ UNCHANGED sourceVars
             \/ \E w \in Workers : Report(w) \/ Rests(w)
    BY <1>1, <1>2, <1>3, <1>7, OthersKeep
  <1>8. "discard" \in Discarding
    BY DEF Discarding
  <1> QED
    BY <1>4, <1>5, <1>6, <1>7, <1>8 DEF SourceNext

LEMMA OneFaultAlways == SourceSpec => []OneFaultInv
PROOF
  <1>1. SourceInit => OneFaultInv
    BY OneFaultInit
  <1>2. SourceInv /\ OneFaultInv /\ [SourceNext]_sourceVars => OneFaultInv'
    BY OneFaultStep
  <1> QED
    BY <1>1, <1>2, SourceAlways, PTL DEF SourceSpec

\* At rest, what is kept of the pair is what the two properties say.
LEMMA OneFaultImplies ==
    ASSUME OneFault
    PROVE  PairFollowsRequest /\ JobKeepsItsWorker
PROOF
  <1>1. SUFFICES ASSUME AtRest PROVE PairFollowsRequest /\ JobKeepsItsWorker
    BY DEF PairFollowsRequest, JobKeepsItsWorker
  <1>2. at["approve"] = "no" /\ at["handoff"] \notin WithNext /\ ~HasRequest
    BY <1>1 DEF AtRest, Operations, HasRequest, Replacing, WithNext
  <1>3. pair # Free => Kept(pair.worker) /\ (Owner => pair.worker = request.thread)
    BY <1>2 DEF OneFault, PairShows
  <1> QED
    BY <1>3 DEF PairFollowsRequest, JobKeepsItsWorker, Kept, Usable, Owner

\* While at most one step has failed, or Manor was restarted at most once, the pair of a
\* request that holds the checkout shows, between operations, the Worker the request
\* names, and that Worker can be worked with: a handoff that is taken back or cut off
\* between its two writes leaves the two naming one Worker again.
THEOREM PairFollowsAfterAFault == SourceSpec => [](failures <= 1 => PairFollowsRequest)
PROOF
  <1>1. OneFaultInv => (failures <= 1 => PairFollowsRequest)
    BY OneFaultImplies DEF OneFaultInv
  <1> QED
    BY <1>1, OneFaultAlways, PTL

\* Over the same steps a job is left with one Worker of the two that a handoff is about:
\* the one the pair shows exists, is not retired and is supervised.
THEOREM JobKeepsItsWorkerAfterAFault == SourceSpec => [](failures <= 1 => JobKeepsItsWorker)
PROOF
  <1>1. OneFaultInv => (failures <= 1 => JobKeepsItsWorker)
    BY OneFaultImplies DEF OneFaultInv
  <1> QED
    BY <1>1, OneFaultAlways, PTL

-----------------------------------------------------------------------------
(* Together with the job lock.                                             *)

\* The composition explores one of its two parts; each keeps its own steps.
LEMMA JobsParts ==
    /\ JobsInit => Init /\ SourceInit
    /\ [JobsNext]_jobsVars => [Next]_vars /\ [SourceNext]_sourceVars
PROOF
  <1>1. JobsInit => Init /\ SourceInit
    BY DEF JobsInit
  <1>2. ASSUME [JobsNext]_jobsVars PROVE [Next]_vars /\ [SourceNext]_sourceVars
    <2>1. CASE JobsNext
      BY <2>1 DEF JobsNext, Only
    <2>2. CASE UNCHANGED jobsVars
      BY <2>2 DEF jobsVars
    <2> QED
      BY <1>2, <2>1, <2>2
  <1> QED
    BY <1>1, <1>2

LEMMA JobsAlways == JobsSpec => [](IInv /\ SourceInv)
PROOF
  <1>1. JobsInit => IInv /\ SourceInv
    BY JobsParts, InitIInv, SourceInitInv
  <1>2. (IInv /\ SourceInv) /\ [JobsNext]_jobsVars => (IInv /\ SourceInv)'
    BY JobsParts, NextIInv, SourceStep
  <1> QED
    BY <1>1, <1>2, PTL DEF JobsSpec

\* The lock and the request's operations keep their state in its type, restarts
\* included, for every program of sections and any number of Workers.
THEOREM JobsTypeCorrect == JobsSpec => []JobsTypeOK
PROOF
  <1>1. IInv /\ SourceInv => JobsTypeOK
    BY SourceInvImplies DEF IInv, JobsTypeOK
  <1> QED
    BY <1>1, JobsAlways, PTL

\* Beside the job lock, too, a closed request stays closed.
COROLLARY ClosedStaysAmongJobs == JobsSpec => []ClosedStays
PROOF
  <1>1. IInv /\ SourceInv => ClosedStays
    BY SourceInvImplies
  <1> QED
    BY <1>1, JobsAlways, PTL

\* The sections of the explored program on one job belong to one owner.
COROLLARY OneOwnerAmongJobs == JobsSpec => []OneOwnerPerThread
PROOF
  <1>1. JobsInit => OInv
    BY JobsParts, InitOInv
  <1>2. OInv /\ [JobsNext]_jobsVars => OInv'
    BY JobsParts, NextOInv, ProgramsCoverTurns
  <1>3. OInv => OneOwnerPerThread
    BY OneOwnerFollows
  <1> QED
    BY <1>1, <1>2, <1>3, PTL DEF JobsSpec

\* Beside the job lock, too, the pair and the request name one Worker, which is kept.
COROLLARY PairFollowsAmongJobs ==
    JobsSpec => [](failures <= 1 => PairFollowsRequest /\ JobKeepsItsWorker)
PROOF
  <1>1. JobsInit => OneFaultInv
    BY JobsParts, OneFaultInit
  <1>2. (IInv /\ SourceInv) /\ OneFaultInv /\ [JobsNext]_jobsVars => OneFaultInv'
    BY JobsParts, OneFaultStep
  <1>3. OneFaultInv => (failures <= 1 => PairFollowsRequest /\ JobKeepsItsWorker)
    BY OneFaultImplies DEF OneFaultInv
  <1> QED
    BY <1>1, <1>2, <1>3, JobsAlways, PTL DEF JobsSpec

=============================================================================
