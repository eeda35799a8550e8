# Manor: specifications of its control programs

Manor runs coding agents ("Workers") in containers on behalf of an operator. *Butler*, the
server in `src/butler`, delegates jobs to them, watches them, reviews what they report and
answers the operator. Beside it run the *host controller*, which restarts the appliance, and the
*runtime broker*, which gives jobs their previews. This directory holds TLA+ specifications of
the parts where interleavings, crashes and timeouts decide whether what the operator was
promised happens, TLC configurations that check them on small instances, and proofs for TLAPS.

Paths below are relative to `src/butler/src/server/` unless they start with `src/`.

## Reading and running

| Module | What it is |
| --- | --- |
| `CallbackReview` | the operator closeout obligation of one job: reviews, posting, follow-ups, restarts |
| `MCCallbackReview`, `CallbackReview_*.cfg` | its runs |
| `CallbackReviewProofs` | type correctness of `CallbackReview` |
| `CallbackLedgerProofs` | of `CallbackReview`: the closeout ledger (two state files, messages); a review attempt, its timeouts and its own post |
| `MutationLock` | the per-job mutation lock, for any program that uses it |
| `FifoLock` | what that lock promises: one first-come-first-served lock for each job |
| `MCMutationLock`, `MutationLock_handoff.cfg` | two programs that use it as the server does |
| `MutationLockProofs` | for every program: exclusion, earned re-entrance, that `MutationLock` implements `FifoLock`; one owner on each job |
| `SelfImprovement`, `SelfImprovement_closing.cfg` | a self-improvement request, its pair, its Workers, the handoff of a job |
| `MCJobs`, `Jobs.cfg` | the lock and the request's operations |
| `SelfImprovementProofs` | of `SelfImprovement`: closed requests, request and pair after a fault, types; of its composition with the lock |
| `WorkerSessions` | one Worker job of the Pi client: sends, stops, loads, deletions, a dying process |
| `HostRestart` | the host controller, its activation helper, the shell and their lifecycle lock |
| `MCProcesses`, `Processes.cfg` | these two, whose processes die and are replaced |
| `HostRestartProofs`, `ProcessesProofs` | safety and types of `HostRestart`; of `WorkerSessions` and of the composition |
| `WorkerCompaction`, `WorkerCompaction_revived.cfg` | supervision of a Worker's context compaction |
| `PreviewLeases` | one preview lease of the runtime broker |
| `MemoryUpdates` | what becomes project memory: synthesis, reviews of reports, promotion |
| `MCServices`, `Services.cfg` | these three services |
| `ServicesProofs` | safety and types of the three, and of their composition |
| `ButlerPrompts` | Butler's chat: the operator's messages and the queue into the model session |
| `Automations` | the scheduled automation of a session |
| `MCSessions`, `Sessions.cfg` | these two, which drive a session |
| `SessionsProofs` | safety and types of the two, and of their composition |

    tlc -workers 2 -config Services.cfg MCServices
    tlapm HostRestartProofs.tla

`PROJECT.json` maps every definition to the lines it stands for, and lists runs, seeded faults
("mutants"), hazards, findings and theorems. Operators whose comment begins with "Fault" are
faulty variants of the definition that follows them; each property is shown to notice one.

`MCJobs`, `MCProcesses`, `MCServices` and `MCSessions` put components that share no state into one run: the
initial state picks one of them, only that one steps, and each keeps its own fairness. The states
of such a run are the sum of its parts', and a counterexample is one of a single part. Their
`...TypeOK` is the conjunction of the parts' type invariants.

## Inventory

### Modelled

| Part | State | Operations | Hard | Correct when |
| --- | --- | --- | --- | --- |
| Operator closeout obligation: `butler-callback-state.ts`, `butler-callback-review-runner.ts`, `butler-operator-closeout.ts`, `butler-closeout-gate.ts`, callers in `butler-agent.ts`, `butler-agent-codex-tools.ts` | one callback per job, failure counts, messages, delivered ids, two files, attempts in flight | arm, reserve, bind, dispatch, roll back; reconcile; begin, run, settle, recover; post; stop, retry, quiesce, remove; load | five awaits in a post; attempts that outlive their callback; a lock wait given up while its work stays queued; two files | an answered request is closed or visibly blocked; nothing completed is shown unreviewed; one closeout is one message; what was shown survives a crash |
| Job mutation lock: `butler-job-mutation-guard.ts` | chains of tail promises, owners and the threads they hold | call, wait, enter, leave, ordered acquisition | re-entrance by a context that outlives its owner | sections exclude each other; everyone is served in order |
| Self-improvement requests and handoff: `self-improvement-actions.ts`, `self-improvement-routes.ts`, `self-improvement-request-state.ts`, `worker-handoff.ts`, parts of `pair-session-manager.ts` | request and pair, two files, Workers, supervision | approve, discard, delete, dismiss, publish, message, hand off, report, reconcile | two kinds of locks in several orders; rollback after each step | request, pair and Worker agree again; a closed request stays closed; closing ends |
| Worker sessions: `pi-rpc-worker-client.ts`, `worker-client-router.ts` | thread row, turns, live session, generations, the job's lock | send, stop, load, delete, watch, repair | answers and events of a replaced session; a send that timed out goes on | an accepted message is listened to; a stopped turn stays stopped; a deleted job has no session |
| Worker compaction: `worker-compaction-supervisor.ts`, one registration of `activity-watchdog.ts` | one operation per thread, checks in flight | start, dispatch, event, check | replies, events and probe answers in any order | every operation is settled |
| Host controller, shell: `src/docker/host-controller/*.mjs`, the lock of `src/manor.sh` | latest run in memory and file, lifecycle lock, helper, containers, exported sources | admit, lock, prepare, restart, fall back, activate, roll back, reconcile | takeover of a stale lock; the controller replaces its own container | work is done under the lock; a run ends; the lock is freed |
| Preview leases: `src/docker/runtime-broker/broker.mjs`, `broker-core.mjs`, `broker-runtime.mjs` | lease, container, egress policy, monitor | create, cancel, monitor, reconcile, delete | a deletion at any await of a creation; swallowed errors | no creation brings back what a deletion removed; transitions end |
| Butler's chat: `butler-agent-session.ts`, `prepareOperatorTurn` and `refreshModelSettings` in `butler-agent.ts` | the prompt queue, the sequence of stops, entries shown as pending, the job guard, the session | send, ground, queue, prompt, steer, stop, reload, replace the session | stops and replacements between the awaits of several messages | a message turned away stays out; every message settles |
| Session automations: `session-automation-scheduler.ts`, `session-automation.ts`, `pair-store.ts` | automation in memory and file, a claimed run | configure, pause, undo, tick, claim, dispatch, settle | crash between claim and dispatch; an edit undone after its run ended; a moved time zone | an occurrence runs once; a due run is not lost |
| Memory updates: `memory-update-scheduler.ts`, `memory-review.ts`, `memory-promotion.ts`, `state-store-memory*.ts` | queue, notes, candidates, project memory | synthesize, retry, review, propose, rule, delete | a report rewritten under review; two who rule; full queues | queued work ends; a ruling stands; project memory is what was ruled, less what was deleted or pushed out |

### Not modelled, or in part

| Part | Why, and what should hold |
| --- | --- |
| Manor restart requests: `manor-restart-state.ts`, `manor-restart-authorization.ts` | Butler's side of a restart is sequential; its crashes are listed under Known weaknesses. One authorization should start at most one restart |
| Rest of Butler's chat | the saved chat record and its repair, activity views, forks, clearing the chat, compose settings. What was sent should be what is saved |
| Rest of `pair-session-manager.ts`, `extension-ui-broker.ts` | a pair's conversation and extension dialogs (answer, timeout, dismissal). One answer per dialog |
| Rest of the Worker client and router | starting a job, authentication refresh, restart for a new model context, abort signals, forks, two stops at once, the watchdog's treatment of an unreachable Worker |
| State store | its contents as the modelled parts read them; its own writes are a temporary file and a rename |
| `reference-mutation-queue.ts`, `butler-delegation-watchdog.ts`, `worker-execution-window.ts` | small helpers; the queue's users in this tree await what they start, so its re-entrance is sound as used |
| Rest of the runtime broker | images, volumes, stacks, browsers, desktops: mostly sequences of container commands. Worth modelling next: promotion of a volume (`broker-storage.mjs`, 295-368), the shared image preparation |
| Rest of the shell | installation and updates are sequences of commands |
| Provider events and skills | translation of events, reviews of content by a model |
| Worker container; browser and desktop drivers; egress proxies and gateway; web interface | the environment of these models; no protocol state of their own |

## Plan

Done: the modules above, the lock's refinement, the proofs listed with each module. Left, in order:

1. An abstract `CloseoutPromise` (a request is owed, then answered, declined or visibly blocked)
   that `CallbackReview` implements but for the steps of the findings.
2. Volumes and images of the broker; a pair's conversation; restart requests beside `HostRestart`.

## CallbackReview

One job, from the moment its first turn runs with a registered obligation.

| Variables | Code |
| --- | --- |
| `cb` | the job's `PendingChatCallback`; `wait` stands for a review delay, `tries` for the stored attempt number |
| `fails` | `callbackReviewFailureCount`; it saturates at `ReviewMaxAttempts` |
| `msgs`, `delivered` | `operatorMessages` (this job's closeouts), `deliveredCloseoutIds` |
| `disk` | the callback state file (`cb`, `delivered`) and the message file (`msgs`) |
| `op` | the section that holds the job's lock, when it awaits something: a post, a follow-up, a probe |
| `rv` | the attempt in flight: where it is, and whether the callback is still the object it began on |
| `pend` | the attempt's settlement or terminalization waiting for the lock |
| `scope`, `ok`, `verdict` | current work slice, checklist complete, review record of each report |
| `turn`, `active`, `starting`, `ended`, `reply`, `report`, `marks` | the Worker's thread as the store shows it |
| `now` | a logical clock: requests, reports and ends of turns never share a time |

Actions follow the handlers. *The attempt*: `Begin`, `BeginFails`, `RecordVerdict`,
`SkipVerdict`, `AttemptFails`, `Settle`, `SettleTimesOut`, `Terminalize`,
`TerminalizeTimesOut`, `RecoverOrphan`. *The post* (`postOperatorJobReply`, shared by five
callers): `PostStart` up to its first await, then `PostAlready` or `PostWrite`, `PostCommit`,
`PostSave`, with `PostFails` for its errors. *Follow-ups*: `SteerReserve`, `SteerBind`, and
`SteerAccepted`, `SteerAmbiguous` or `SteerRejected`; `HoldContext`. *Observation*: `Reconcile`
with `ProbeLeaves` and `ProbeRecovers`, `ProcessPending`, `SaveCallbacks`. *Operator*: `Retry`,
`AuthReset`, `Cancel`, `Quiesce`, `StopJob`, `Remove`. *Restart*: `CrashRestart` at any step:
memory is lost, the files are read and normalised (`Normalized`, `Resumed`), and the Worker
goes on.

What stands for what:
- A section that only awaits its own final save is one action, which includes the save. A
  store event in the code reconciles and processes; here `Reconcile` and `ProcessPending` are
  two sections, as they are in the code, and a save of another job may fall between any steps.
- The model decides when timers fire. Two timeouts need their precondition: the lock or the
  post is still in use when the five seconds pass.
- A message carries the request's time (the code uses at most one millisecond more) and the
  report it was built from; its text is left out.
- The adversarial review and its supervisor are reduced to what they may do: record a verdict,
  call a completion tool, end, fail.
- The rollback of a post whose callback was superseded rewrites the message file from memory;
  it is one step with the failure.

Left out: saves of the callback file that fail, other than the begin's and the one that records a post's
delivery; the gate on visual proof (`butler-closeout-gate.ts`, 37-50), which only blocks more; the load of
a thread that reconciliation awaits (`butler-agent.ts`, 413-414);
re-tracking of jobs delegated elsewhere (`ensureExternalWorkerDelegation`); an error while a
closing session cancels its reviews; two message saves of different jobs at once.

### Runs

`Steers` lists the follow-ups (by whom, keeping or replacing the work slice, asking for a review
or for a direct reply), `Scenario` the optional parts of `Next`.

| Run | Instance | Shows |
| --- | --- | --- |
| `wide` | clock 3, 2 attempts, every handler, restarts anywhere, two follow-ups that differ in side, scope and answer (`MixedSteers`); 2.5 million states | `TypeOK`, `CompletedCloseoutsWereAccepted`, `CountedFailureDoesNotPost`, `ShownIsDurable`, `DeliveredHasMessage`, `OneMessagePerCloseout` |
| `live` | clock 3, context held for the review renews the obligation; `HealthySpec` | `RunningReviewEnds`, `AnsweredIsSettled` |
| `posted`, `stopped`, `budget` | | expectations the code does not meet, see Findings |

Bounds. The clock starts at 1 and every request, report and end of turn takes one tick. Three leave
room for a report, a follow-up after it, or the end of the turn between them, and so for a second
closeout of the job, with a restart anywhere; the theorems cover longer histories, every set of
follow-ups and both report statuses (`live` has both too). Two attempts tell a first failure (delay)
from the last (pause); the code's three adds one more delay. One job suffices because jobs share
only the files, whose saves by others are `SaveCallbacks`, and the lock (see below).

Fairness (`Fairness`, `PostsRecover`). An attempt ends, because it has an inactivity watchdog and
an absolute deadline; orphans are looked for on every tick; store events and the periodic
reconciliation come back. Steps that wait for the job's lock get strong fairness: the lock is
first in, first out and re-entrance does not overtake (`WaitersEnter` in `MutationLock`).
`PostsRecover` assumes that a post tried again and again goes through in the end; the run
`budget` shows why it is needed. None of `SteerReserve`, `MainReply`, operator controls, reports
or the Worker's turns is fair: nobody owes them.

### What is proved

For every clock bound, attempt limit, set of follow-ups and scenario, assuming only that the
bounds are positive and the inputs of the right kind (`BoundsAssumption`, `InputsAssumption`).

- `TypeCorrect`. `TypeOK` alone is not inductive: `turn + 1` must stay within `Times`, so the
  invariant `TInv` adds that the Worker has had no more turns than the clock allows, counting
  the message that is on its way.
- `ShownSurvives`, `DeliveryIsShown`, `ClosedOnce`, `ReviewedBeforeShown` from `LInv`. None of
  the four is inductive alone, since a post decides early and writes late. `PostJustified` carries
  the decision over its awaits: a post that is writing has a fresh id and an accepted report,
  and one about to commit has its message on disk. `DeliveredShown` and `RecordLags`
  relate memory to the files, which a crash exchanges. Every step that does not post is shown to be
  `LedgerQuiet`, so the five steps of a post and the restart are what the argument is about.

- `TimedOutPostIsDropped` (`CountedFailureDoesNotPost`) from `AInv`. A terminalization that times
  out counts its failure without the lock, with its post still under way. The count must have
  made the callback no longer current, which takes three facts besides: a mutation waits only
  for an attempt that is over and speaks of the same callback object (`PendingEndsAttempt`);
  while a review posts, no other mutation waits (`ReviewPostIsOwn`), or a second
  count could come from a superseded attempt; and a posted callback is never under
  review, in memory or in what a rollback would restore (`PostedIsOver`). `PostedInMemory`
  covers the restart, which reads the callback back from its file.

Model-checked only: the liveness properties, which are out of the prover's reach.

## MutationLock

A *program* (the constants) is a set of sections with their threads, parents and order; a
section called from another's body inherits its owner unless it is called through
`runOutsideJobMutationContext`. `Call` runs the synchronous part of `withMutationLock`, `Enter`
is the resolution of the previous tail, `Exit` the `finally`. `held` and `Active` are the
owner's two fields; `tails[t]` is the chain of promises as the sequence of those who hold or
await a turn. Because the inherited owner may end during the wait, `Enter` looks again.

`MCMutationLock` gives two programs. The one of run `jobs` composes a follow-up with its nested
replacement and message, the store change it causes (outside the context), continuations that
kept the context, a closing session and the ordered acquisition of both jobs. Two jobs suffice
for a circular wait, and the sections are nested as the handlers nest them. `handoff` is the
acquisition of a handoff that rolls back, and shows a deadlock. Fairness is that of promises: a
resolved tail continues, a body ends.

`FifoLock` is the promise without owners, contexts or chains: a caller asks, is granted its turn
in the order of asking, gives it back. `ImplementsFifo` instantiates it with the section that has
the turn of each thread and those behind it in the chain; a re-entrant section is a stutter, which
is what "goes on under the turn its owner has" means.

Proved for every program: `MutualExclusion` and `EarnedReentrance`, from `IInv`: a section in its
body by ticket is the head of its thread's chain (`TurnIsHead`), an owner was entered before it
holds anything (`HoldersEntered`), and a held thread is held through the section whose turn it
is (`HoldMeansTurn`).

`OneOwner` proves `OneOwnerPerThread` for every program that keeps `TurnsCover`, and not for others: a
re-entrant section that nobody awaits may outlast the turn it entered under, and then the next owner of
that job runs beside it (with the nested `post` of the run detached, TLC shows it). On the owner's own job this cannot
be, since the owner ends with its turn. So `TurnsCover` is about a second job taken within a mutation: its sections
there run within each other or after each other. What is reached by calls, awaits and orders is defined as a
least set, which needs no recursion to be proved about. The server's two programs keep it
(`ProgramsCoverTurns`, evaluated by both runs). The invariant `OInv`: an active owner holds every job its
bodies are on (`Occupied`); an owner is a section that took its own turn, among the callers (`OwnersAreRoots`); what
is awaited runs within, what comes before has ended (`RunWithin`, `EndedBefore`); and within a body of
an owner its sections on that job re-enter (`Reentering`).

`LockIsFifo` proves `ImplementsFifo` for every program. It needs more than `IInv`: a granted turn must
be given back by the section that has it and by no other, so `RInv` adds `Chained`: whoever stands
in a chain asked for that thread by ticket and has not left, and stands there once. The step lemmas follow
the four actions: a call asks or is unseen, an entrance by ticket grants, an exit gives back.

## SelfImprovement

One request, one pair, Workers that all work in Manor's own checkout. Each operation (approve,
discard, delete, hand off, message) is a process: `at` is the step it has reached, `mine` its local
variables; publishing and dismissing take one step. `requestLock` is `runSerializedSelfImprovementAction`
(and the owner check the handoff does beneath it), `jobLock` the jobs' mutation locks. A step that awaits
may fail (then the code's rollback runs, step by step) or be cut off by `Restart`, which reads both
files, reconciles and re-tracks. The requests' and pairs' files lag behind memory: `SavesRequests`,
`SavesPairs`.

What stands for what: an update of a request and the flush after it are one step of memory and
file; the file of the Workers' threads is current; the reconciliation at start is one step with
saves that succeed, since the server does not listen before it ends; another Worker may be at work in
the checkout at first. Left out: creating a request, two requests at once, what git does.

In run `jobs`: three Workers, three calls (publishing and dismissing are not counted), one failing
step or restart. Three Workers are a Worker, its replacement and one that was in the checkout
before; three calls bring a handoff between an approval and a discard. Four calls, 446,000 states,
were explored too. `PairFollowsRequest`, `JobKeepsItsWorker` and `ClosedStays` relate request, pair, Workers and
supervision once no operation is under way. Deadlock is not checked in `Jobs.cfg`: operations that take
the two kinds of locks in opposite orders really stop each other, which run `closing` shows
(`ClosingEnds`); that nobody waits for ever for the job lock itself is `WaitersEnter`.

Proved, for any number of Workers, calls, failing steps and restarts (the value that stands for nothing is told
from Workers, operations, requests and pairs): `ClosedRequestStays` and `JobsTypeCorrect`. A closed request could
be opened again by whoever read it before and writes it afterwards, so `SourceInv` says who may write:
- `RequestTurns`: an operation that may change the request's Worker or its state has the request's turn, and
  nobody takes the request away from it meanwhile. A handoff has it only if the request names the Worker it replaces.
- `JobTurns`: a message and a discard that are past their wait have their Worker's job, and the discard's is the one the
  request names; `NamedWereStarted`: every Worker that somebody knows of was started, so none of them is started anew.
- `ClosedIsOver`: a closed request is so in memory and in its file, its Worker rests, and only its deletion has its turn.

Each operation's step is shown to leave the others their parts (`ApproveAlone` to `HandoffAlone`, `StepKeeps`) and
to keep its own (`ApproveOwn` to `HandoffOwn`); a restart ends them all.

`PairFollowsAfterAFault` and `JobKeepsItsWorkerAfterAFault` prove `PairFollowsRequest` and `JobKeepsItsWorker` until
a second step fails or restart comes, for any number of Workers and calls. They are claims about one fault at a time: after
two, a rollback that fails as well leaves the pair or the job behind, as TLC shows with a bound of two. While a handoff is
under way request and pair really disagree, so the invariant, `OneFaultInv`, says by how much, on top of `SourceInv`:
- `HandoffRuns`, `HandoffShows`: the handoff's list of what it has to take back tells the state it has made. The request
  names the new Worker exactly when it has to be returned, the pair shows it exactly when it has to be detached, and the
  Worker replaced is retired or unsupervised only while the list holds the remedy (`UndoIs`, `HandoffStep`).
- `ApprovalRuns`, `DiscardsEnd`: an approval makes a pair only with a Worker that can be worked with, and takes it
  away before the Worker; a discard closes, and a deletion purges, what no pair shows any more.
- `PairShows`, `RequestNames`: but for such an operation under way, pair and request name one Worker, which is kept.
- `FilesFollow`: before the first fault the request's file lags by a report at most and the pair's by an attachment
  whose handoff is at that step, so what the one restart reads (`Restored`, `RestartOneFault`) is a state before or after it.

What an operation does to the others' parts is `Mild`, and `MildKeeps` is shown once for all of them; each operation
then keeps its own. `OneFaultInv` was explored before it was proved, with up to four Workers and five calls; the two
properties were, for four Workers and five calls, too (3,770,000 states).

## WorkerSessions

One job of the Pi client. `ses` holds the session's version counter, the accepted generation and the
one its event stream carries; `wire` is what Pi has said, `draining` the moment after a chunk in which the awaits that it
resolved go on. A send waits for its load, resolves the session, prompts and ends accepted, refused,
stale, uncertain or failed; after its five minutes (`SendTimesOut`) the lock is free and the call goes
on. Stops, deletions, the watchdog's probe and the repair of an idle Worker are processes with their
awaits. A deletion that is asked for holds the job's lock; one that undoes a start which failed half-way
(`butler-agent-stack-preview-tools.ts`, 1355 and 1452) takes none, so `DeleteBegins` may do either. Pi reads, opens turns, ends
them, settles, dies.

Bounds of run `processes`: two messages, two Pi processes, one turn, one fault of any kind (a stop, a
deletion, a refusal, a timeout, a death). Two messages and two processes are what it takes for something
old to be mistaken for something new. Fairness: the event loop turns, Pi answers and ends its runs, and the
watchdog comes back and gets the lock in the end (strong: sends may hold it meanwhile). `AcceptedIsHeard`
is the property of the generations: events of an accepted message's run count.

`pending` is the set of `pendingPromptGenerations`: the array only ever grows at its end by a number
larger than any before, and is filtered, so it is that set in order and its `shift` takes the `Oldest`.

Proved, for any number of messages, Pi processes, turns and faults (at least one turn; a message is
not one of the client's own requests): `DeletedHasNoSession`, `StoppedStaysStopped`,
`AcceptedRunIsHeard`, `WorkerKeepsTypes`.
- `GoneHasNoSession` needs `Removal`: from its second half on, a deletion allows no load, and the
  session it has removed the job from is deaf and about to be stopped.
- `StoppedStays` is about what Pi may still say. A stop takes a new generation (`StopOwns`): as long as
  it is the newest, every message in flight and every generation still waited for is older. Its abort is
  asked and answered once (`AbortAskedOnce`), no message follows it, and after its answer Pi runs nothing
  and says nothing more of a turn (`NothingAfterAbort`). So a turn that is marked stopped is over for Pi
  too (`StoppedIsOver`), which is what keeps a late line from taking it up.
- `AcceptedIsHeard` is not inductive by far: a late start or the settling of the run before may take the stream, or
  forget it, while the prompt is out. `HearInv` says why the last one put right is the right one. Every message has a
  generation of its own (`Generations`); Pi answers in the order it was sent to, so that the answers on the wire, then
  the messages it has yet to read, stand in the order of their generations, and whatever is out is on one or the other
  (`WireInOrder`, `InboxInOrder`, `TakenFirst`); an answer's continuation runs before the next line is read
  (`ConfirmedFirst`: this is where the microtasks matter). Pi says that a run is over before it says that the
  next has started, and says that next to the answer to the prompt that began it (`RunOnWire`). So while Pi is in a
  run, a message that was accepted and is still the newest owns the session, and the stream is its own or nobody's
  (`RunIsHeard`), also if the stop that took its generation fails and gives it back.

## HostRestart

`runMem` and `runFile` are the latest run in the controller's memory and in `restart-status.json`, which
the helper writes too. `exec` is the run being admitted or carried out, `ending` the `finally` blocks still
due, `act` the activation queue, `helper` where each run's activation helper stands, `lifecycle` the label
of the lock's network, `box` and `bad` the controller's container, `sources` the exported source
directories and `gateway` the one the gateway's container mounts. A run locks, prepares, restarts
from the tree or, when that fails, from the clean head; a new controller is confirmed by its helper or
rolled back. `ControllerDies`, `HelperDies` and `CommandDies` may come at any step.

Bounds: two runs, so that the second meets the leavings of the first; one shell command; one death.
Fairness: promises settle, Docker restarts the controller, the reconciler's interval fires, the helper's
calls have time limits, a command ends. `RunSettles` and `RunReleasesLock` make an exception of an
installation where no controller ever becomes healthy (`NoController`). `GatewaySourceKept` names one
exception, which is a weakness: see below.

Proved, for any number of runs, commands and faults (a run is told from a command and from nobody):
`WorkIsCovered`, `GatewayKeepsItsSource`, `HostKeepsTypes`. `LockCoversWork` speaks of the saved run, but the
controller acts on what it remembers, and the two differ: `HostInv` states for both that a run whose helper
lives is pending and has the lock until it rolls back (`Covered`), that a helper about to recreate the controller
was not told to roll back (`NotRollingYet`), and that the file does not deny a rollback the controller knows of
(`RollbackSaved`). Around it: ids are given out once and only past runs have helpers (`RunsOfThePast`), the run at
work is the controller's current one and nobody decides it in the file (`CurrentRun`), an activation that releases
the lock has no live helper (`ActivationRun`).

## PreviewLeases

`creating` and `deleting` are where the POST and the DELETE stand, one value for each await; `monitor`
is the bootstrap monitor; `listed` a reconcile pass between its list and its adoption. The world is the
container and the egress policy. The proxy creates the policy (`CreatePolicy`) before the POST learns its name
(`NamePolicy`), and any step may fail after it was carried out (`CreateStepFails`, `CarriedOut`). Every removal, of the
container or the policy, by the DELETE or a cancelled POST, may fail, and the broker goes on as if it had not
(`ContainerDropped`, `PolicyDropped`). `kept` is a history variable: what such an error left behind, until a later
removal takes it. One lease suffices: ids are fresh and leases share no state. Bounds: two deletions, two faults (a
broker's restart, a failed removal). Fairness: requests to Docker and the proxy end, the monitor's deadline is
reached, the reconcile pass is on an interval.

A deleted lease need not be gone. `DeletedIsGone` says what the handlers guarantee: once the deletion was answered
and the creation it cancelled has ended, no step of that creation has brought back what was removed. What is
still there is there because its last removal failed, or because the answer to the policy's creation was lost.

Proved (`LeasesAreGone`), for any number of deletions and faults, from `LeaseInv`: a creation that goes on beside
or after a deletion is cancelled, and each of its checks will see that (`CreationIsCancelled`); a container or policy
it has not come to yet is not there (`CreationInOrder`); what was removed stays away, and what is left over is in
`kept` (`RemovedStaysAway`).

## ButlerPrompts

The operator's messages, from `prepareOperatorTurn` through `queueButlerPrompt` into the one model
session. `stage` is how far a message has come, `promptQueue` the chain of promises, whose head
stands at `step`; `stopSeq` is `stopRequestSequence`, `seen` what `acceptedStopRequestSequence`
holds, `shown` the entries of `pendingOperatorMessages` still marked pending, `guard` the one
`activeOperatorThreadGuard`. `replacing` says who replaces the session: `refreshModelSettings`, the status
refresh (a timer, or the end of a prompt) or a prompt that finds new credentials.

| Actions | Code |
| --- | --- |
| `Send`, `SaveFails`, `Saved`, `Aborted` | `prepareOperatorTurn` up to its first prompt; a steer aborts what streams first |
| `Queue` | `queueButlerPrompt` up to the chain, for a grounding and then for the turn |
| `StartPrompt`, `Prepared`, `Prompted` | `execute` up to the check on stops, then the load of the images, then the session's `prompt` and the event that reports it |
| `Answered`, `CallFails`, `PromptEnds`, `StatusFails` | how the call ends, and the `finally` with its status refresh |
| `Stop` | `stopPrompt` |
| `RefreshSettings`, `CredentialsChanged`, `TearDown`, `Rebuilt`, `RebuildFails` | the session is aborted, disposed of and made anew; it may not come back |
| `QueueReload`, `Reloaded` | skills changed |

A message is its mode and whether it refers to jobs; the entry that a prompt's event removes is the one
with its text, or else the oldest. One replacement of the session is under way at a time.
A failing read of the credentials or of the callbacks before a call (`butler-agent-session.ts`, 1030-1044) ends the
message as a failing call does and has no action of its own.
`turnedAway` records the turns that a stop or a steer found in the queue before their check.
`TurnedAwayStaysOut` says they never reach the session; `MessagesSettle`, that every message ends and is
not left on the screen. In run `sessions`: two messages, so that one can wait behind, steer or outlive the
other, and two troubles (a stop, a replacement, a reload or a failure); three troubles, 1.1 million states,
were explored too. Fairness: saves, aborts, status reads and rebuilds end, and so does every call on the
session, by the provider's limits or the operator's stop.

Proved (`TurnedAwayIsKeptOut`), for any number of messages and troubles, from `PromptInv`: a message that was turned
away was accepted before the last stop, so the check finds it, and has no grounding left that could be prompted
and accept it anew (`TurnedAwayIsSeen`); a message stands in the chain at most once, and only while its sender
waits (`QueueInOrder`).

## Automations

Time passes in ticks; a calendar schedule has one occurrence (slot) each day, and a zone is how far its
wall clock lags. `auto` holds the next run, the claimed run, the last slot and, as history, the slots dispatched since it
was switched on (`fired`); `autoFile` is its saved copy. `Claim` and `Dispatch` are apart: between them the claim is
saved (`SaveClaimFails`) and the session waited for. `RestartButler` may fall anywhere.

An edit (`Configure`, `Pause`, `Resume`, `DeleteAutomation`) changes the automation at once and is then saved
(`persistAutomationMutation`). While it is, `undo` holds what its failure would restore: `Dispatch` is the end of the
save for whoever waited, claims and edits alike, and `EditUndone` its failure, which writes the old automation back
(`restoreAutomation`), whatever was claimed or settled since; of two edits in one save the last rollback counts.
`revived` records that a rollback brought back a run that is settled: nobody settles it a
second time, so it shows as running until Butler restarts or the automation is deleted. `DueRunEnds` makes an exception of exactly that; without it TLC refutes it
in eight states (a pause while a run is in flight, its end, the failed save).

Run `sessions` explores weekly, window and interval schedules with two occurrences, days of two ticks, zones up to two
ticks apart, six ticks, four edits and one fault: enough for a zone to move past the occurrence that ran and past the
next one, and for any edit to be undone. A window is weekly but for its end, right after its last slot. The module also
has one-off and daily schedules, which no run explores: `SlotFiresOnce` does not hold for them (see below).
`SlotFiresOnce` was explored with three faults as well.
Fairness: the tick is on a timer, a session does not stay busy for ever, a dispatch ends within its six hours.

Proved (`SlotsFireOnce`), for weekly, window and interval schedules and any bounds: an occurrence is not repeated because
what the automation remembers, in memory, in its file or in what a rollback would restore, covers all that fired
(`KnowsWhatFired`), the claim being saved has not fired yet for any of them (`ClaimIsNew`), and the one run
under way is known to the automation it was claimed for (`OneRunUnderWay`). The schedule is then what counts: the
next occurrence of a kind whose slots name their day (`Dated`) is searched from the last one, and an
interval's times know no zone (`IntervalIsTimes`).
The proof needs that a run settles only the automation it was claimed for: after a deletion and a new configuration
the old run must not end the new one's: the comparison of ids in `finishAutomationRun` (a run carries its id here).

## MemoryUpdates

One job with one turn, whose report is written up to two times. `synth` is the queue of syntheses with
attempts, `reviewing` and `queuedReport` the report under review and the one that waits, the note sets
and `failedReviews` what the store remembers of them, `candidates`, `batch` and `project` promotion. What a
model answers is a set of facts, chosen freely. `SwitchMemory` turns the setting off and on, `RestartMemory`
reads the store again.

`candidates` keeps every candidate ever submitted, by a review, a synthesis or the Worker (`WorkerPromotes`); a job's
`promotionCandidates` are those still `listed`. Above the cap a submission takes the oldest off the list, ruled on or not
(`Capped`); deleting a job's memory entry takes its candidate along (`DeleteJobEntry`); what is off the list can no
longer be ruled on. Project memory loses entries to the operator (`DeleteProjectEntry`) and to its own cap
(`Promoted`, which leaves open which entries are the oldest); `forgotten` records the accepted facts that went this
way and were not accepted again. A note of a review may be deleted or pushed out too (`NoteGoes`).

`ProjectMemoryIsVerdicts` has two parts. No step overturns a verdict (`VerdictsStand`): a model that rules on a batch read
before its run meets candidates that were ruled on, deleted or pushed out meanwhile, and a "reject" does not become an
"accept". And project memory is the accepted facts less `forgotten` (`HoldsVerdicts`).

In run `services` memory is explored in two parts (`MCServices`): the queue with the reviews, where at most one candidate
is proposed and none is ruled on, and the promotion of what a Worker proposes, where no report is written and the second
candidate has no entry. They meet only in the list of candidates, and who proposed one does not matter
to a ruling; the proofs are of the undivided module as well. Bounds: one event besides the reports, two facts, three candidates of which two stay listed, one entry of
project memory and batches of two, so that every cap cuts; a queue that is full with one finished entry
(`MaxQueued` = 1, so that making room happens at once); two attempts and two faults, so that an entry is given up and a
second restart or failure meets the first one's leavings. Fairness: timers fire, runs of a model end, the retry delay passes.

Proved, for any number of reports, facts, candidates, attempts and faults and any caps: `MemoryIsWhatWasAccepted`, both
parts, and `OnlyNewestReviewSpeaks`. The first is inductive but for the order of the queue (`QueueInOrder`: what a pass is
about to take is still pending, what it works on is running); the second needs that nothing is reviewed that was not
reported.

## WorkerCompaction

One thread with `MaxOps` operations in a row. Butler's side: the operation's fields, where each
`start` waits (`pc`), the check in flight, awaits that were resolved but have not continued
(`answer`). The Worker's side, external: requests in order (`inbox`), lines in order (`pipe`), a
compaction in progress. `Read` delivers a chunk, `Line` handles its lines one after the other,
and only then do the awaits go on: this is the order of a line reader and its promises in Node.
A Worker that is busy with something else answers the probe as one that compacts only in its
effect on `start`, which gives up either way; such an answer is folded into the error. A request
times out in seconds, the deadline in minutes, so `Deadline` comes after the dispatch is over.

In run `services` (two operations, three probe failures as in the code) an operation under the
watchdog is settled in spite of timeouts, deaths of the Worker and late lines (`WatchedSettles`);
two operations let the lines of one reach the next. `revived` refutes that an active operation is
always watched. The system may stop once the operations are used up. Fairness: awaits and lines go on, the Worker answers and ends what it began, and the
timers return however often chunks come between (strong fairness of `Tick`, `Read` and `Deadline`).

Proved (`AnswersFindTheirAwait`), for any number of operations and probe failures: the answer of the Worker resolves
an await that is there. Types alone do not give it: `OneQuestion` says that each of those who may ask for
the Worker's state has at most one question or answer on its way, only while it waits and was not answered.

## Findings

Each is a run with `expect: violation`; `PROJECT.json` quotes the line it contradicts.

- `posted`: a follow-up that keeps the work slice can be closed as posted without a message, because
  the lookup of the slice's own closeout id ignores when the request was made.
- `stopped`: a recovery review that the operator stopped is queued again by the next store event.
- `budget`: the count of failures is cleared before the post, so a post that keeps failing is retried
  for ever instead of being blocked for the operator to see.
- `handoff`: the rollback of a handoff and a store change take two jobs' locks in opposite orders.
- `closing`: a discard begun while an approval is supervising its new job takes the job's lock and
  waits for the request's, which the approval holds while it waits for the job's.
- `revived`: a compaction that ended is made running again, unwatched, by the probe answer read just
  before its end; the thread then refuses every later compaction.

## Known weaknesses without a run

Mostly no line of the code promises otherwise; where a comment does, it is quoted. No property is stated against these
steps, which the models have unless it says otherwise.

- *Host controller*: a helper whose run was superseded may roll the controller back beside a new
  run, without the lock. `completePendingActivation` checks the file, removes a directory and then
  saves "completed", while a helper may have marked a rollback in between; the save at start may
  overwrite the helper's. The lock of a superseded run whose helper died at its release stays until the
  controller starts again. A failed fallback to the clean head removes the directory the recreated
  gateway mounts its configuration from (`controller.mjs`, 1016-1034). A suspended `manor.sh` is not
  fenced off when its lock is taken over (not modelled).
- *Restart requests* (not modelled): the file is written in place, and a torn one makes Butler's
  start fail (`manor-restart-state.ts`, 72 and 185); a request that was authorized at a crash can never be started.
- *Preview leases*: a reconcile pass beside a deletion brings a bootstrap state back as a retained
  "failed" entry, until the next deletion; one during a creation does the same. Failing removals are swallowed:
  DELETE answers ok, its handler saying "already gone" (`broker.mjs`, 1392) of whatever went wrong, and a container that
  is still running is then adopted again by a reconcile pass. A POST whose request for a policy failed after the proxy
  made it never drops that policy (`broker.mjs`, 1049); a later DELETE does.
- *Automations*: after the zone moved west a one-off runs a second time
  (`nextCalendarRunAfterLastRun` returns early), and a daily schedule may repeat an occurrence, though the comment
  on `nextDailyRunAfterLastRun`, which nothing calls, says "a timezone change cannot replay earlier slots"
  (`session-automation.ts`, 279-280): the slots skipped are those of the day that the last run's time falls on in the
  new zone, which need not be the day it was scheduled for. A dispatch that waits for an
  idle session does not look again whether the automation was paused or
  deleted. The rollback of an edit overwrites a run claimed or settled meanwhile: a settled one shows as running, and the
  automation refuses every new schedule, until a restart or its deletion.
- *Butler's chat*: one guard serves all queued messages, so a later message's guard rules an earlier turn
  and the end of one turn clears the next one's. A grounding is for whichever turn comes next in the queue, which
  need not be its own message's, and one that is stopped withdraws its message. A stop while a message is saved,
  grounded or has its images loaded is not heard, nor one during a steer's abort. The end of any turn marks
  Butler idle, so new settings may replace the session under the next one; the status timer's change of
  credentials aborts a running turn. A status read that fails leaves Butler looking busy and removes the record
  of a delivered message.
- *Memory*: an entry that was running at a crash stays so; a second, opposite verdict is recorded as
  an observation though the first stands; a report recorded just before a crash is not observed; one that
  arrives while memory is off is never reviewed. The caps count what was ruled on as well: a burst of candidates pushes
  out pending ones unseen, and a deleted note makes a review that a crash cut off forgotten.
- *Worker sessions*: `reconcileAuthoritativeIdleWorkerThread` does not look again after it waited for the
  lock; a refused follow-up invalidates the run that goes on; a late start or settling of the previous run
  takes the next prompt's generation, so a thread may be shown idle early; `resumeThread` may interrupt
  the turn of a prompt sent while it asked. Not modelled: two failing stops at once orphan the run; a restart for a new
  model context bypasses the record of loads; `updateTurn` on a missing thread makes its row again.
- *Self-improvement*: an approval whose first flush fails leaves the request approved, in memory,
  without a thread; after a handoff of a published request, closing stops only the Worker the
  request names; a replacement that reports before the transfer leaves the request running; a crash between
  a replacement's start and its attachment orphans it. Quiescing gives up after ten seconds, so a discard
  that waits there fails instead of hanging.

## The proofs of the compositions

`MCJobs`, `MCProcesses`, `MCServices` and `MCSessions` step one of their parts and leave the others alone, so the conjunction of
the parts' invariants is inductive for them. `ProcessesCoverWork`, `ProcessesKeepGateway`, `ProcessesForgetTheGone`,
`ProcessesKeepStopped`, `ProcessesHearAccepted`, `ProcessesKeepTypes`, `ServicesDelete`, `ServicesRemember`, `ServicesKeepTypes`, `SessionsKeepOut`,
`SessionsFireOnce`, `SessionsKeepTypes`, `JobsTypeCorrect`, `ClosedStaysAmongJobs`, `PairFollowsAmongJobs` (until a second fault)
and `OneOwnerAmongJobs` are the properties of the runs, of the very specifications TLC explores, for every value of the constants.

The invariants were run with TLC before they were proved, and three of the attempts changed a model. A run
of an automation knew its occurrence but not the automation it was claimed for, which no invariant could make up
for. The queue of prompts removed a message where it first stands, by an operator about which nothing can be proved
here, and now uses one of the library. The pending generations of a Worker's session were a sequence whose order each
step had to keep, and are a set; the same proof showed that a bound of no turns leaves the initial state out.

## What is checked by model checking alone

- Liveness and every use of `ENABLED`: the prover has neither.
- `PairFollowsRequest` and `JobKeepsItsWorker` do not hold after a second fault; until then they are proved.
- `SlotFiresOnce` does not hold of one-off and daily schedules, see Known weaknesses; its theorem assumes the other kinds.
- `jobs`, `processes`, `services`, `sessions`, `handoff`, `closing` and `revived` do not check deadlock: their programs end, their
  counters run out, or, in `jobs`, `handoff` and `closing`, operations really stop each other, which is what the liveness
  properties say. The runs of `CallbackReview` do check it.

No theorem needs induction over data; the modules with theorems use no recursive operators.
