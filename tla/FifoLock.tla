------------------------------ MODULE FifoLock ------------------------------
(***************************************************************************)
(* What the job mutation lock promises, without owners, contexts or        *)
(* promises: one turn for each job, given in the order it was asked for.   *)
(* A call that goes on under a turn its owner already has is not seen.     *)
(***************************************************************************)
EXTENDS Naturals, Sequences

CONSTANTS
    Callers,     \* who asks for a turn
    Jobs,        \* the jobs
    Nobody

VARIABLES
    turn,        \* of each job: who has the turn, or Nobody
    waiting      \* of each job: who waits for it, in order

lockVars == <<turn, waiting>>

FifoInit ==
    /\ turn = [j \in Jobs |-> Nobody]
    /\ waiting = [j \in Jobs |-> <<>>]

Waits(c, j) == \E i \in 1..Len(waiting[j]) : waiting[j][i] = c

Ask(c, j) ==
    /\ turn[j] # c /\ ~Waits(c, j)
    /\ waiting' = [waiting EXCEPT ![j] = Append(@, c)]
    /\ UNCHANGED turn

Grant(j) ==
    /\ turn[j] = Nobody /\ waiting[j] # <<>>
    /\ turn' = [turn EXCEPT ![j] = Head(waiting[j])]
    /\ waiting' = [waiting EXCEPT ![j] = Tail(@)]

GiveBack(j) ==
    /\ turn[j] # Nobody
    /\ turn' = [turn EXCEPT ![j] = Nobody]
    /\ UNCHANGED waiting

FifoNext == \E j \in Jobs : Grant(j) \/ GiveBack(j) \/ \E c \in Callers : Ask(c, j)

FifoSpec == FifoInit /\ [][FifoNext]_lockVars
=============================================================================
