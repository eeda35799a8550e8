---------------------------- MODULE MutationLock ----------------------------
(***************************************************************************)
(* The per-job mutation lock of Butler's server                            *)
(* (butler-job-mutation-guard.ts).  Every call of withMutationLock is a    *)
(* section.  A section called from the body of another inherits that       *)
(* body's owner, kept in asynchronous context; while the owner is active   *)
(* and holds the job's thread the section runs at once, otherwise it       *)
(* chains itself to the thread's tail promise and waits its turn.          *)
(*                                                                         *)
(* The constants describe a program that uses the lock: which sections     *)
(* there are, on which threads, from whose body and after which other      *)
(* section each is called.  The module says nothing about how callers      *)
(* order their acquisitions: programs that do it badly can wait for ever.  *)
(***************************************************************************)
EXTENDS Naturals, Sequences

CONSTANTS
    Sections,    \* the calls of withMutationLock
    Threads,     \* the jobs' thread ids
    None,        \* no section
    Thread,      \* the thread each section locks
    Parent,      \* the section from whose body it is called, or None
    After,       \* a section its caller awaits first, or None
    Awaited,     \* the sections their parent awaits; others are detached
    Escaped,     \* the sections called through runOutsideJobMutationContext
    Optional     \* the sections that the program may not reach

ASSUME ProgramAssumption ==
    /\ None \notin Sections
    /\ Thread \in [Sections -> Threads]
    /\ Parent \in [Sections -> Sections \cup {None}]
    /\ After \in [Sections -> Sections \cup {None}]
    /\ Awaited \subseteq Sections /\ Escaped \subseteq Sections /\ Optional \subseteq Sections

VARIABLES
    state,       \* of each section: "idle", "queued", "in" its body or "done"
    kind,        \* "ticket" or "reentrant", once called
    inherited,   \* the owner a section found in its context, or None
    owner,       \* the owner its body runs under; a root section is its own
    held,        \* owner.heldThreads
    tails        \* the chain of tail promises: the sections that hold or await a turn

vars == <<state, kind, inherited, owner, held, tails>>

-----------------------------------------------------------------------------
\* owner.active: from the creation of the owner to the end of its root section.
Active(o) == o # None /\ state[o] = "in"

\* Fault: any section inside a mutation counts as holding every thread.
ReentersAnywhere(o, t) == Active(o)

Reenters(o, t) == Active(o) /\ t \in held[o]

\* The asynchronous context of a body outlives it in what it left detached.
Context(s) == IF Parent[s] = None \/ s \in Escaped THEN None ELSE owner[Parent[s]]

\* The caller of a section runs: a body, or what it left detached.
Calling(s) ==
    Parent[s] # None => \/ state[Parent[s]] = "in"
                        \/ state[Parent[s]] = "done" /\ s \notin Awaited

Reached(s) ==
    /\ state[s] = "idle"
    /\ Calling(s)
    /\ After[s] # None => state[After[s]] = "done"

Call(s) ==
    /\ Reached(s)
    /\ inherited' = [inherited EXCEPT ![s] = Context(s)]
    /\ IF Reenters(Context(s), Thread[s])
       THEN /\ state' = [state EXCEPT ![s] = "in"]
            /\ kind' = [kind EXCEPT ![s] = "reentrant"]
            /\ owner' = [owner EXCEPT ![s] = Context(s)]
            /\ UNCHANGED tails
       ELSE /\ state' = [state EXCEPT ![s] = "queued"]
            /\ kind' = [kind EXCEPT ![s] = "ticket"]
            /\ tails' = [tails EXCEPT ![Thread[s]] = Append(@, s)]
            /\ UNCHANGED owner
    /\ UNCHANGED held

Skip(s) ==
    /\ s \in Optional /\ Reached(s)
    /\ state' = [state EXCEPT ![s] = "done"]
    /\ UNCHANGED <<kind, inherited, owner, held, tails>>

HasTurn(s) == tails[Thread[s]] # <<>> /\ Head(tails[Thread[s]]) = s

\* Fault: the inherited owner is not looked up again after the wait.
EnterUnderEndedOwner(s) ==
    /\ state[s] = "queued"
    /\ HasTurn(s)
    /\ state' = [state EXCEPT ![s] = "in"]
    /\ LET o == IF inherited[s] # None THEN inherited[s] ELSE s
       IN  /\ owner' = [owner EXCEPT ![s] = o]
           /\ held' = [held EXCEPT ![o] = @ \cup {Thread[s]}]
    /\ UNCHANGED <<kind, inherited, tails>>

\* Fault: the absence of an inherited owner is not noticed.
EnterWithoutOwner(s) ==
    /\ state[s] = "queued"
    /\ HasTurn(s)
    /\ state' = [state EXCEPT ![s] = "in"]
    /\ owner' = [owner EXCEPT ![s] = inherited[s]]
    /\ UNCHANGED <<kind, inherited, held, tails>>

\* Fault: the previous tail is not awaited.
EnterOutOfTurn(s) ==
    /\ state[s] = "queued"
    /\ state' = [state EXCEPT ![s] = "in"]
    /\ owner' = [owner EXCEPT ![s] = s]
    /\ held' = [held EXCEPT ![s] = {Thread[s]}]
    /\ UNCHANGED <<kind, inherited, tails>>

\* The previous tail resolved.  Whether the inherited owner is still active is
\* looked up again: if it ended meanwhile, the section becomes a root.
Enter(s) ==
    /\ state[s] = "queued"
    /\ HasTurn(s)
    /\ state' = [state EXCEPT ![s] = "in"]
    /\ IF Active(inherited[s])
       THEN /\ owner' = [owner EXCEPT ![s] = inherited[s]]
            /\ held' = [held EXCEPT ![inherited[s]] = @ \cup {Thread[s]}]
       ELSE /\ owner' = [owner EXCEPT ![s] = s]
            /\ held' = [held EXCEPT ![s] = {Thread[s]}]
    /\ UNCHANGED <<kind, inherited, tails>>

\* Fault: the owner goes on holding a thread whose turn it passed on.
ExitStillHolding(s) ==
    /\ state[s] = "in"
    /\ \A u \in Awaited : Parent[u] = s => state[u] = "done"
    /\ state' = [state EXCEPT ![s] = "done"]
    /\ tails' = IF kind[s] = "ticket" THEN [tails EXCEPT ![Thread[s]] = Tail(@)] ELSE tails
    /\ UNCHANGED <<kind, inherited, owner, held>>

\* Fault: a nested body gives its owner's turn back.
ExitGivesBack(s) ==
    /\ state[s] = "in"
    /\ \A u \in Awaited : Parent[u] = s => state[u] = "done"
    /\ state' = [state EXCEPT ![s] = "done"]
    /\ held' = IF kind[s] = "ticket" THEN [held EXCEPT ![owner[s]] = @ \ {Thread[s]}] ELSE held
    /\ tails' = [tails EXCEPT ![Thread[s]] = IF @ = <<>> THEN @ ELSE Tail(@)]
    /\ UNCHANGED <<kind, inherited, owner>>

\* The body ended, normally or by an error: everything it awaits has ended.
Exit(s) ==
    /\ state[s] = "in"
    /\ \A u \in Awaited : Parent[u] = s => state[u] = "done"
    /\ state' = [state EXCEPT ![s] = "done"]
    /\ IF kind[s] = "ticket"
       THEN /\ held' = [held EXCEPT ![owner[s]] = @ \ {Thread[s]}]
            /\ tails' = [tails EXCEPT ![Thread[s]] = Tail(@)]
       ELSE UNCHANGED <<held, tails>>
    /\ UNCHANGED <<kind, inherited, owner>>

Init ==
    /\ state = [s \in Sections |-> "idle"]
    /\ kind = [s \in Sections |-> "none"]
    /\ inherited = [s \in Sections |-> None]
    /\ owner = [s \in Sections |-> None]
    /\ held = [s \in Sections |-> {}]
    /\ tails = [t \in Threads |-> <<>>]

\* Every section has ended, or waits for a body that will never call it.
Finished ==
    /\ \A s \in Sections : state[s] \in {"idle", "done"}
    /\ \A s \in Sections : ~Reached(s)
    /\ UNCHANGED vars

Next == (\E s \in Sections : Call(s) \/ Skip(s) \/ Enter(s) \/ Exit(s)) \/ Finished

Spec == Init /\ [][Next]_vars

\* Promises that resolved are continued, and the work in a body ends by itself.
Fairness == \A s \in Sections : WF_vars(Enter(s)) /\ WF_vars(Exit(s)) /\ WF_vars(Call(s) \/ Skip(s))

LiveSpec == Spec /\ Fairness

-----------------------------------------------------------------------------
(* Properties *)

\* Every variable holds a value of its kind, only sections wait in the chains, and
\* every body runs under an owner.
TypeOK ==
    /\ state \in [Sections -> {"idle", "queued", "in", "done"}]
    /\ kind \in [Sections -> {"none", "ticket", "reentrant"}]
    /\ inherited \in [Sections -> Sections \cup {None}]
    /\ owner \in [Sections -> Sections \cup {None}]
    /\ held \in [Sections -> SUBSET Threads]
    /\ tails \in [Threads -> Seq(Sections)]
    /\ \A s \in Sections : state[s] = "in" => owner[s] # None

\* Sections that took a turn exclude each other, whatever the program: no two of
\* them are in their bodies on the same thread, detached, nested or not.
TurnsExclude ==
    \A s, u \in Sections :
        /\ state[s] = "in" /\ state[u] = "in"
        /\ kind[s] = "ticket" /\ kind[u] = "ticket"
        /\ Thread[s] = Thread[u]
        => s = u

\* Re-entrance is earned: while an owner is active, a thread recorded as held is
\* the one whose turn a section of that owner has, so no two active owners hold
\* the same thread and a re-entrant call never slips past somebody else's section.
HeldHasTurn ==
    \A o \in Sections, t \in Threads :
        Active(o) /\ t \in held[o] =>
            /\ tails[t] # <<>>
            /\ state[Head(tails[t])] = "in"
            /\ owner[Head(tails[t])] = o

\* What is reached from each section in one or more steps.
FromStep(step) == [s \in Sections |->
    {u \in Sections : \A S \in SUBSET Sections : (\A x \in S \cup {s} : step[x] \subseteq S) => u \in S}]

CalledFrom == [s \in Sections |-> IF s \in Escaped THEN {} ELSE {Parent[s]} \ {None}]
Awaits     == [s \in Sections |-> {u \in Awaited : Parent[u] = s}]
Follows    == [s \in Sections |-> {After[s]} \ {None}]

Owners == FromStep(CalledFrom)   \* whose context a section may run in, through its callers
Within == FromStep(Awaits)       \* what runs while a section is in its body
Before == FromStep(Follows)      \* what has ended before a section is called

\* One of x and y has ended before the other is called.
Apart(x, y) == \E a, b \in Sections :
    /\ x \in {a} \cup Within[a] /\ y \in {b} \cup Within[b]
    /\ a \in Before[b] \/ b \in Before[a]

\* A program that takes a second thread within a mutation lets nobody outlast that
\* turn: its sections on that thread await each other or follow each other.
TurnsCover ==
    \A s, u \in Sections :
        /\ s # u /\ Thread[s] = Thread[u]
        /\ \E o \in ({s} \cup Owners[s]) \cap ({u} \cup Owners[u]) : Thread[o] # Thread[s]
        => u \in Within[s] \/ s \in Within[u] \/ Apart(s, u)

\* Bodies on one thread belong to one owner, except what a finished owner left
\* behind detached.
OneOwnerPerThread ==
    \A s, u \in Sections :
        /\ state[s] = "in" /\ state[u] = "in" /\ Thread[s] = Thread[u]
        /\ Active(owner[s]) /\ Active(owner[u])
        => owner[s] = owner[u]

\* The turn of a thread is the head of its chain once that is in its body; the
\* rest of the chain waits.
TurnTaken(t) == tails[t] # <<>> /\ state[Head(tails[t])] = "in"

TurnOf  == [t \in Threads |-> IF TurnTaken(t) THEN Head(tails[t]) ELSE None]
WaitFor == [t \in Threads |-> IF TurnTaken(t) THEN Tail(tails[t]) ELSE tails[t]]

Fifo == INSTANCE FifoLock WITH
            Callers <- Sections, Jobs <- Threads, Nobody <- None,
            turn <- TurnOf, waiting <- WaitFor

\* withMutationLock implements one first-come-first-served lock for each job: a
\* nested call, a detached continuation or a failing body never gives the turn
\* to two, out of order, or back twice.
ImplementsFifo == Fifo!FifoSpec

\* Whoever waits for a job's lock gets it.
WaitersEnter == \A s \in Sections : state[s] = "queued" ~> state[s] = "in"

=============================================================================
