------------------------- MODULE MutationLockProofs -------------------------
(***************************************************************************)
(* Mutual exclusion of the job lock, for every program that uses it, that  *)
(* it implements FifoLock, and that bodies on one thread have one owner if *)
(* the program keeps TurnsCover.                                           *)
(*                                                                         *)
(* TurnsExclude and HeldHasTurn are not inductive: that a section in its   *)
(* body is at the head of its thread's chain (TurnIsHead), and that a      *)
(* section which never entered holds nothing (HoldersEntered), are.  The   *)
(* mapping to FifoLock reads a turn off the head of a chain, so what a     *)
(* chain holds has to be known beyond its head (Chained): sections that    *)
(* queue on this thread, each once, of which only the first can be in its  *)
(* body.  One owner needs to know that an active owner holds every thread  *)
(* its bodies are on (Occupied), which the end of a turn could break for   *)
(* those that re-entered under it; so it needs who is called by whom       *)
(* (OwnersAreRoots), within whose body (RunWithin) and after whom          *)
(* (EndedBefore).                                                          *)
(***************************************************************************)
EXTENDS MutationLock, SequenceTheorems, TLAPS

\* Who waits took a ticket, and a section that has its turn heads its chain.
TurnIsHead ==
    \A s \in Sections :
        /\ state[s] = "queued" => kind[s] = "ticket"
        /\ state[s] = "in" /\ kind[s] = "ticket" =>
               /\ tails[Thread[s]] # <<>>
               /\ Head(tails[Thread[s]]) = s

\* A section that has not entered holds nothing.
HoldersEntered ==
    \A s \in Sections : state[s] \in {"idle", "queued"} => held[s] = {}

\* What a recorded hold means: the head of the chain is on that thread, took a
\* turn, and is still in its body under that owner.
HoldMeansTurn ==
    \A o \in Sections, t \in Threads :
        state[o] = "in" /\ t \in held[o] =>
            /\ tails[t] # <<>>
            /\ Thread[Head(tails[t])] = t
            /\ kind[Head(tails[t])] = "ticket"
            /\ state[Head(tails[t])] = "in"
            /\ owner[Head(tails[t])] = o

IInv == TypeOK /\ TurnIsHead /\ HoldersEntered /\ HoldMeansTurn

-----------------------------------------------------------------------------
\* Joining a non-empty chain leaves its head.
LEMMA AppendKeepsHead ==
    ASSUME NEW S, NEW q \in Seq(S), NEW e \in S
    PROVE  /\ Append(q, e) \in Seq(S)
           /\ Append(q, e) # <<>>
           /\ q # <<>> => Head(Append(q, e)) = Head(q)
PROOF
  <1>1. Append(q, e) \in Seq(S) /\ Append(q, e) # <<>>
    BY AppendProperties
  <1>2. ASSUME q # <<>> PROVE Append(q, e)[1] = q[1]
    <2>1. 1 \in 1..Len(q)
      BY <1>2, EmptySeq
    <2> QED
      BY <2>1, AppendProperties
  <1> QED
    BY <1>1, <1>2

\* The head of a chain is one of its members.
LEMMA HeadInSet ==
    ASSUME NEW S, NEW q \in Seq(S), q # <<>>
    PROVE  Head(q) \in S /\ Tail(q) \in Seq(S)
  OBVIOUS

\* Nobody has called initially.
LEMMA InitIInv == Init => IInv
  BY ProgramAssumption
     DEF Init, IInv, TypeOK, TurnIsHead, HoldersEntered, HoldMeansTurn

\* A call preserves the invariant.
LEMMA CallIInv ==
    ASSUME IInv, NEW s \in Sections, Call(s)
    PROVE  IInv'
PROOF
  <1> DEFINE t == Thread[s]
             c == Context(s)
  <1>1. t \in Threads /\ c \in Sections \cup {None} /\ None \notin Sections
    BY ProgramAssumption DEF Context, IInv, TypeOK
  <1>2. state[s] = "idle"
    BY DEF Call, Reached
  <1>3. CASE Reenters(c, t)
    <2>1. /\ state' = [state EXCEPT ![s] = "in"]
          /\ kind' = [kind EXCEPT ![s] = "reentrant"]
          /\ owner' = [owner EXCEPT ![s] = c]
          /\ inherited' = [inherited EXCEPT ![s] = c]
          /\ UNCHANGED <<tails, held>>
      BY <1>3 DEF Call
    <2>2. c \in Sections /\ held[s] = {}
      BY <1>1, <1>2, <1>3 DEF Reenters, Active, IInv, HoldersEntered
    <2>3. TypeOK'
      BY <1>1, <2>1, <2>2 DEF IInv, TypeOK
    <2>4. TurnIsHead'
      BY <2>1 DEF IInv, TypeOK, TurnIsHead
    <2>5. HoldersEntered'
      BY <2>1, <2>2 DEF IInv, TypeOK, HoldersEntered
    <2>6. HoldMeansTurn'
      <3> SUFFICES ASSUME NEW o \in Sections, NEW k \in Threads,
                          state'[o] = "in", k \in held[o]
                   PROVE  /\ tails[k] # <<>>
                          /\ Thread[Head(tails[k])] = k
                          /\ kind'[Head(tails[k])] = "ticket"
                          /\ state'[Head(tails[k])] = "in"
                          /\ owner'[Head(tails[k])] = o
        BY <2>1 DEF HoldMeansTurn
      <3>1. o # s /\ state[o] = "in"
        BY <2>1, <2>2 DEF IInv, TypeOK
      <3>2. /\ tails[k] # <<>> /\ Head(tails[k]) # s
            /\ Head(tails[k]) \in Sections
        BY <1>2, <3>1, HeadInSet DEF IInv, TypeOK, HoldMeansTurn
      <3> QED
        BY <2>1, <3>1, <3>2 DEF IInv, TypeOK, HoldMeansTurn
    <2> QED
      BY <2>3, <2>4, <2>5, <2>6 DEF IInv
  <1>4. CASE ~Reenters(c, t)
    <2>1. /\ state' = [state EXCEPT ![s] = "queued"]
          /\ kind' = [kind EXCEPT ![s] = "ticket"]
          /\ tails' = [tails EXCEPT ![t] = Append(@, s)]
          /\ inherited' = [inherited EXCEPT ![s] = c]
          /\ UNCHANGED <<owner, held>>
      BY <1>4 DEF Call
    <2>2. \A k \in Threads : /\ tails'[k] \in Seq(Sections)
                             /\ tails[k] # <<>> => /\ tails'[k] # <<>>
                                                   /\ Head(tails'[k]) = Head(tails[k])
      BY <1>1, <2>1, AppendKeepsHead DEF IInv, TypeOK
    <2>3. TypeOK'
      BY <1>1, <2>1, <2>2 DEF IInv, TypeOK
    <2>4. TurnIsHead'
      BY <2>1, <2>2, ProgramAssumption DEF IInv, TypeOK, TurnIsHead
    <2>5. HoldersEntered'
      BY <1>2, <2>1 DEF IInv, TypeOK, HoldersEntered
    <2>6. HoldMeansTurn'
      <3> SUFFICES ASSUME NEW o \in Sections, NEW k \in Threads,
                          state'[o] = "in", k \in held[o]
                   PROVE  /\ tails'[k] # <<>>
                          /\ Thread[Head(tails'[k])] = k
                          /\ kind'[Head(tails'[k])] = "ticket"
                          /\ state'[Head(tails'[k])] = "in"
                          /\ owner[Head(tails'[k])] = o
        BY <2>1 DEF HoldMeansTurn
      <3>1. o # s /\ state[o] = "in"
        BY <1>2, <2>1 DEF IInv, TypeOK
      <3>2. /\ tails[k] # <<>> /\ Head(tails[k]) # s
            /\ Head(tails[k]) \in Sections
        BY <1>2, <3>1, HeadInSet DEF IInv, TypeOK, HoldMeansTurn
      <3> QED
        BY <2>1, <2>2, <3>1, <3>2 DEF IInv, TypeOK, HoldMeansTurn
    <2> QED
      BY <2>3, <2>4, <2>5, <2>6 DEF IInv
  <1> QED
    BY <1>3, <1>4

\* A section that is skipped preserves the invariant.
LEMMA SkipIInv ==
    ASSUME IInv, NEW s \in Sections, Skip(s)
    PROVE  IInv'
PROOF
  <1>1. /\ state[s] = "idle"
        /\ state' = [state EXCEPT ![s] = "done"]
        /\ UNCHANGED <<kind, inherited, owner, held, tails>>
    BY DEF Skip, Reached
  <1>2. TypeOK'
    BY <1>1 DEF IInv, TypeOK
  <1>3. TurnIsHead'
    BY <1>1 DEF IInv, TypeOK, TurnIsHead
  <1>4. HoldersEntered'
    BY <1>1 DEF IInv, TypeOK, HoldersEntered
  <1>5. HoldMeansTurn'
    <2> SUFFICES ASSUME NEW o \in Sections, NEW k \in Threads,
                        state'[o] = "in", k \in held[o]
                 PROVE  /\ tails[k] # <<>>
                        /\ Thread[Head(tails[k])] = k
                        /\ kind[Head(tails[k])] = "ticket"
                        /\ state'[Head(tails[k])] = "in"
                        /\ owner[Head(tails[k])] = o
      BY <1>1 DEF HoldMeansTurn
    <2>1. state[o] = "in"
      BY <1>1 DEF IInv, TypeOK
    <2>2. /\ tails[k] # <<>> /\ Head(tails[k]) # s
          /\ Head(tails[k]) \in Sections
      BY <1>1, <2>1, HeadInSet DEF IInv, TypeOK, HoldMeansTurn
    <2> QED
      BY <1>1, <2>1, <2>2 DEF IInv, TypeOK, HoldMeansTurn
  <1> QED
    BY <1>2, <1>3, <1>4, <1>5 DEF IInv

\* The section that enters heads its chain, so by HoldMeansTurn nobody held its
\* thread: no other section of the thread is both at the head and in its body.
LEMMA EnterIInv ==
    ASSUME IInv, NEW s \in Sections, Enter(s)
    PROVE  IInv'
PROOF
  <1> DEFINE t == Thread[s]
             o1 == IF Active(inherited[s]) THEN inherited[s] ELSE s
  <1>1. t \in Threads /\ None \notin Sections
    BY ProgramAssumption
  <1>2. /\ state[s] = "queued" /\ held[s] = {}
        /\ tails[t] # <<>> /\ Head(tails[t]) = s
    BY DEF Enter, HasTurn, IInv, HoldersEntered
  <1>3. /\ o1 \in Sections
        /\ o1 # s => state[o1] = "in"
    BY <1>1 DEF Active, IInv, TypeOK
  <1>4. /\ state' = [state EXCEPT ![s] = "in"]
        /\ owner' = [owner EXCEPT ![s] = o1]
        /\ held' = [held EXCEPT ![o1] = @ \cup {t}]
        /\ UNCHANGED <<kind, inherited, tails>>
    <2>1. CASE Active(inherited[s])
      BY <2>1 DEF Enter
    <2>2. CASE ~Active(inherited[s])
      BY <1>2, <2>2 DEF Enter, IInv, TypeOK
    <2> QED
      BY <2>1, <2>2
  <1>5. \A o \in Sections : state[o] = "in" => t \notin held[o]
    BY <1>1, <1>2 DEF IInv, HoldMeansTurn
  <1>6. TypeOK'
    BY <1>1, <1>3, <1>4 DEF IInv, TypeOK
  <1>7. TurnIsHead'
    BY <1>2, <1>4 DEF IInv, TypeOK, TurnIsHead
  <1>8. HoldersEntered'
    <2> SUFFICES ASSUME NEW u \in Sections
                 PROVE  state'[u] \in {"idle", "queued"} => held'[u] = {}
      BY DEF HoldersEntered
    <2>1. state'[u] \in {"idle", "queued"} => u # s /\ u # o1 /\ held[u] = {}
      BY <1>3, <1>4 DEF IInv, TypeOK, HoldersEntered
    <2> QED
      BY <1>3, <1>4, <2>1 DEF IInv, TypeOK
  <1>9. HoldMeansTurn'
    <2> SUFFICES ASSUME NEW o \in Sections, NEW k \in Threads,
                        state'[o] = "in", k \in held'[o]
                 PROVE  /\ tails[k] # <<>>
                        /\ Thread[Head(tails[k])] = k
                        /\ kind[Head(tails[k])] = "ticket"
                        /\ state'[Head(tails[k])] = "in"
                        /\ owner'[Head(tails[k])] = o
      BY <1>4 DEF HoldMeansTurn
    <2>1. CASE k \in held[o]
      <3>1. state[o] = "in" /\ o # s
        BY <1>2, <1>4, <2>1 DEF IInv, TypeOK
      <3>2. /\ tails[k] # <<>> /\ Head(tails[k]) # s
            /\ Head(tails[k]) \in Sections
        BY <1>2, <3>1, <2>1, HeadInSet DEF IInv, TypeOK, HoldMeansTurn
      <3> QED
        BY <1>4, <2>1, <3>1, <3>2 DEF IInv, TypeOK, HoldMeansTurn
    <2>2. CASE k \notin held[o]
      <3>1. o = o1 /\ k = t
        BY <1>3, <1>4, <2>2 DEF IInv, TypeOK
      <3>2. kind[s] = "ticket"
        BY <1>2 DEF IInv, TurnIsHead
      <3> QED
        BY <1>2, <1>4, <3>1, <3>2 DEF IInv, TypeOK
    <2> QED
      BY <2>1, <2>2
  <1> QED
    BY <1>6, <1>7, <1>8, <1>9 DEF IInv

\* Only the head of a chain leaves it, and the owner forgets the thread with it.
LEMMA ExitIInv ==
    ASSUME IInv, NEW s \in Sections, Exit(s)
    PROVE  IInv'
PROOF
  <1> DEFINE t == Thread[s]
             o1 == owner[s]
  <1>1. t \in Threads /\ state[s] = "in" /\ o1 \in Sections
    BY ProgramAssumption DEF Exit, IInv, TypeOK
  <1>2. /\ state' = [state EXCEPT ![s] = "done"]
        /\ UNCHANGED <<kind, inherited, owner>>
    BY DEF Exit
  <1>3. CASE kind[s] = "ticket"
    <2>1. /\ held' = [held EXCEPT ![o1] = @ \ {t}]
          /\ tails' = [tails EXCEPT ![t] = Tail(@)]
          /\ tails[t] # <<>> /\ Head(tails[t]) = s
      BY <1>1, <1>3 DEF Exit, IInv, TurnIsHead
    <2>2. TypeOK'
      <3>1. Tail(tails[t]) \in Seq(Sections)
        BY <1>1, <2>1, HeadInSet DEF IInv, TypeOK
      <3> QED
        BY <1>1, <1>2, <2>1, <3>1 DEF IInv, TypeOK
    <2>3. TurnIsHead'
      <3> SUFFICES ASSUME NEW u \in Sections
                   PROVE  /\ state'[u] = "queued" => kind[u] = "ticket"
                          /\ state'[u] = "in" /\ kind[u] = "ticket" =>
                                 /\ tails'[Thread[u]] # <<>>
                                 /\ Head(tails'[Thread[u]]) = u
        BY <1>2 DEF TurnIsHead
      <3>1. state'[u] = "queued" => kind[u] = "ticket"
        BY <1>2 DEF IInv, TypeOK, TurnIsHead
      <3>2. ASSUME state'[u] = "in", kind[u] = "ticket"
            PROVE  /\ tails'[Thread[u]] # <<>>
                   /\ Head(tails'[Thread[u]]) = u
        <4>1. u # s /\ state[u] = "in" /\ Thread[u] \in Threads
          BY <1>2, <3>2, ProgramAssumption DEF IInv, TypeOK
        <4>2. Thread[u] # t
          BY <2>1, <3>2, <4>1 DEF IInv, TurnIsHead
        <4> QED
          BY <2>1, <3>2, <4>1, <4>2 DEF IInv, TypeOK, TurnIsHead
      <3> QED
        BY <3>1, <3>2
    <2>4. HoldersEntered'
      BY <1>1, <1>2, <2>1 DEF IInv, TypeOK, HoldersEntered
    <2>5. HoldMeansTurn'
      <3> SUFFICES ASSUME NEW o \in Sections, NEW k \in Threads,
                          state'[o] = "in", k \in held'[o]
                   PROVE  /\ tails'[k] # <<>>
                          /\ Thread[Head(tails'[k])] = k
                          /\ kind[Head(tails'[k])] = "ticket"
                          /\ state'[Head(tails'[k])] = "in"
                          /\ owner[Head(tails'[k])] = o
        BY <1>2 DEF HoldMeansTurn
      <3>1. state[o] = "in" /\ k \in held[o]
        BY <1>1, <1>2, <2>1 DEF IInv, TypeOK
      <3>2. k # t
        BY <1>1, <2>1, <3>1 DEF IInv, TypeOK, HoldMeansTurn
      <3>3. tails'[k] = tails[k]
        BY <2>1, <3>2 DEF IInv, TypeOK
      <3>4. /\ tails[k] # <<>> /\ Head(tails[k]) # s
            /\ Head(tails[k]) \in Sections
        BY <3>1, <3>2, HeadInSet DEF IInv, TypeOK, HoldMeansTurn
      <3> QED
        BY <1>2, <3>1, <3>3, <3>4 DEF IInv, TypeOK, HoldMeansTurn
    <2> QED
      BY <2>2, <2>3, <2>4, <2>5 DEF IInv
  <1>4. CASE kind[s] # "ticket"
    <2>1. UNCHANGED <<held, tails>>
      BY <1>4 DEF Exit
    <2>2. TypeOK'
      BY <1>2, <2>1 DEF IInv, TypeOK
    <2>3. TurnIsHead'
      BY <1>2, <2>1 DEF IInv, TypeOK, TurnIsHead
    <2>4. HoldersEntered'
      BY <1>1, <1>2, <2>1 DEF IInv, TypeOK, HoldersEntered
    <2>5. HoldMeansTurn'
      <3> SUFFICES ASSUME NEW o \in Sections, NEW k \in Threads,
                          state'[o] = "in", k \in held[o]
                   PROVE  /\ tails[k] # <<>>
                          /\ Thread[Head(tails[k])] = k
                          /\ kind[Head(tails[k])] = "ticket"
                          /\ state'[Head(tails[k])] = "in"
                          /\ owner[Head(tails[k])] = o
        BY <1>2, <2>1 DEF HoldMeansTurn
      <3>1. state[o] = "in"
        BY <1>2 DEF IInv, TypeOK
      <3>2. /\ tails[k] # <<>> /\ Head(tails[k]) # s
            /\ Head(tails[k]) \in Sections
        BY <1>4, <3>1, HeadInSet DEF IInv, TypeOK, HoldMeansTurn
      <3> QED
        BY <1>2, <3>1, <3>2 DEF IInv, TypeOK, HoldMeansTurn
    <2> QED
      BY <2>2, <2>3, <2>4, <2>5 DEF IInv
  <1> QED
    BY <1>3, <1>4

\* Every step preserves the invariant.
LEMMA NextIInv == IInv /\ [Next]_vars => IInv'
PROOF
  <1> SUFFICES ASSUME IInv, [Next]_vars PROVE IInv'
    OBVIOUS
  <1>1. CASE UNCHANGED vars
    BY <1>1 DEF vars, IInv, TypeOK, TurnIsHead, HoldersEntered, HoldMeansTurn
  <1>2. CASE \E s \in Sections : Call(s) \/ Skip(s) \/ Enter(s) \/ Exit(s)
    BY <1>2, CallIInv, SkipIInv, EnterIInv, ExitIInv
  <1> QED
    BY <1>1, <1>2 DEF Next, Finished

\* The inductive invariant holds for every program that uses the lock.
THEOREM Invariance == Spec => []IInv
  BY InitIInv, NextIInv, PTL DEF Spec

-----------------------------------------------------------------------------
\* Every variable of the lock stays within its type, for every program.
THEOREM TypeCorrect == Spec => []TypeOK
PROOF
  <1>1. IInv => TypeOK
    BY DEF IInv
  <1> QED
    BY <1>1, Invariance, PTL

\* Mutual exclusion of withMutationLock: whatever the callers do, two sections
\* that took a turn are never in their bodies on one thread, since both would
\* head its chain.
THEOREM MutualExclusion == Spec => []TurnsExclude
PROOF
  <1>1. IInv => TurnsExclude
    <2> SUFFICES ASSUME IInv, NEW s \in Sections, NEW u \in Sections,
                        state[s] = "in", state[u] = "in",
                        kind[s] = "ticket", kind[u] = "ticket",
                        Thread[s] = Thread[u]
                 PROVE  s = u
      BY DEF TurnsExclude
    <2> QED
      BY DEF IInv, TurnIsHead
  <1> QED
    BY <1>1, Invariance, PTL

\* Re-entrance is safe: a call skips the queue only while a section of its own
\* active owner has the thread's turn.
THEOREM EarnedReentrance == Spec => []HeldHasTurn
PROOF
  <1>1. IInv => HeldHasTurn
    BY DEF IInv, HoldMeansTurn, HeldHasTurn, Active
  <1> QED
    BY <1>1, Invariance, PTL

-----------------------------------------------------------------------------
(* The lock implements FifoLock.                                           *)

ChainMember(t, i) ==
    /\ kind[tails[t][i]] = "ticket"
    /\ Thread[tails[t][i]] = t
    /\ state[tails[t][i]] \in {"queued", "in"}
    /\ state[tails[t][i]] = "in" => i = 1

Chained ==
    \A t \in Threads : \A i \in 1..Len(tails[t]) :
        /\ ChainMember(t, i)
        /\ \A j \in 1..Len(tails[t]) : tails[t][j] = tails[t][i] => j = i

RInv == IInv /\ Chained

-----------------------------------------------------------------------------
\* The members of a chain, of a chain that was joined and of one that was left.
LEMMA ChainFacts ==
    ASSUME NEW S, NEW q \in Seq(S)
    PROVE  /\ Len(q) \in Nat
           /\ \A i \in 1..Len(q) : q[i] \in S
           /\ q # <<>> <=> 1 \in 1..Len(q)
           /\ q # <<>> => Head(q) = q[1]
PROOF
  <1>1. Len(q) \in Nat /\ (\A i \in 1..Len(q) : q[i] \in S)
    OBVIOUS
  <1>2. q = <<>> <=> Len(q) = 0
    BY EmptySeq
  <1> QED
    BY <1>1, <1>2

LEMMA JoinedChain ==
    ASSUME NEW S, NEW q \in Seq(S), NEW e \in S
    PROVE  /\ Append(q, e) \in Seq(S)
           /\ Len(Append(q, e)) = Len(q) + 1
           /\ \A i \in 1..Len(q) : Append(q, e)[i] = q[i]
           /\ Append(q, e)[Len(q) + 1] = e
           /\ q # <<>> => Tail(Append(q, e)) = Append(Tail(q), e)
  BY AppendProperties

LEMMA LeftChain ==
    ASSUME NEW S, NEW q \in Seq(S), q # <<>>
    PROVE  /\ Tail(q) \in Seq(S)
           /\ Len(Tail(q)) = Len(q) - 1
           /\ \A i \in 1..(Len(q) - 1) : Tail(q)[i] = q[i + 1]
  BY HeadTailProperties

\* Who joins an empty chain is its head.
LEMMA AloneInChain ==
    ASSUME NEW S, NEW e \in S
    PROVE  Head(Append(<<>>, e)) = e
  OBVIOUS

-----------------------------------------------------------------------------
\* A section that has not been called, is done or has no ticket is in no chain.
LEMMA Outside ==
    ASSUME Chained, NEW t \in Threads, NEW i \in 1..Len(tails[t]), NEW s \in Sections,
           state[s] \notin {"queued", "in"} \/ kind[s] # "ticket" \/ Thread[s] # t
    PROVE  tails[t][i] # s
  BY DEF Chained, ChainMember

LEMMA InitChained == Init => Chained
PROOF
  <1> SUFFICES ASSUME Init PROVE Chained
    OBVIOUS
  <1>1. \A t \in Threads : Len(tails[t]) = 0
    BY DEF Init
  <1> QED
    BY <1>1 DEF Chained

LEMMA CallChained ==
    ASSUME IInv, Chained, NEW s \in Sections, Call(s)
    PROVE  Chained'
PROOF
  <1> DEFINE k == Thread[s]
             c == Context(s)
  <1>1. k \in Threads /\ state[s] = "idle"
    BY ProgramAssumption DEF Call, Reached
  <1>2. \A t \in Threads : \A i \in 1..Len(tails[t]) : tails[t][i] # s
    BY <1>1, Outside
  <1>3. /\ state \in [Sections -> {"idle", "queued", "in", "done"}]
        /\ kind \in [Sections -> {"none", "ticket", "reentrant"}]
        /\ tails \in [Threads -> Seq(Sections)]
    BY DEF IInv, TypeOK
  <1>4. CASE Reenters(c, k)
    <2>1. /\ state' = [state EXCEPT ![s] = "in"]
          /\ kind' = [kind EXCEPT ![s] = "reentrant"]
          /\ tails' = tails
      BY <1>4 DEF Call
    <2> QED
      BY <1>2, <1>3, <2>1, ChainFacts DEF Chained, ChainMember
  <1>5. CASE ~Reenters(c, k)
    <2>1. /\ state' = [state EXCEPT ![s] = "queued"]
          /\ kind' = [kind EXCEPT ![s] = "ticket"]
          /\ tails' = [tails EXCEPT ![k] = Append(@, s)]
      BY <1>5 DEF Call
    <2> SUFFICES ASSUME NEW t \in Threads, NEW i \in 1..Len(tails'[t])
                 PROVE  /\ ChainMember(t, i)'
                        /\ \A j \in 1..Len(tails'[t]) : tails'[t][j] = tails'[t][i] => j = i
      BY DEF Chained
    <2>2. CASE t # k
      <3>1. tails'[t] = tails[t]
        BY <1>3, <2>1, <2>2
      <3>2. tails[t][i] # s /\ tails[t][i] \in Sections
        BY <1>2, <1>3, <3>1, ChainFacts
      <3>3. ChainMember(t, i) /\ (\A j \in 1..Len(tails[t]) : tails[t][j] = tails[t][i] => j = i)
        BY <3>1 DEF Chained
      <3>4. ChainMember(t, i)'
        BY <1>3, <2>1, <3>1, <3>2, <3>3 DEF ChainMember
      <3> QED
        BY <3>1, <3>3, <3>4
    <2>3. CASE t = k
      <3>1. /\ tails[k] \in Seq(Sections)
            /\ tails'[k] = Append(tails[k], s)
        BY <1>1, <1>3, <2>1
      <3>2. /\ Len(tails[k]) \in Nat
            /\ Len(tails'[k]) = Len(tails[k]) + 1
            /\ \A j \in 1..Len(tails[k]) : tails'[k][j] = tails[k][j] /\ tails[k][j] \in Sections
            /\ tails'[k][Len(tails[k]) + 1] = s
        BY <3>1, JoinedChain, ChainFacts
      <3>3. CASE i \in 1..Len(tails[k])
        <4>1. /\ tails'[k][i] = tails[k][i]
              /\ tails[k][i] # s /\ tails[k][i] \in Sections
              /\ ChainMember(k, i)
          BY <1>1, <1>2, <3>2, <3>3 DEF Chained
        <4>2. ChainMember(t, i)'
          BY <1>3, <2>1, <2>3, <4>1 DEF ChainMember
        <4>3. \A j \in 1..Len(tails'[t]) : tails'[t][j] = tails'[t][i] => j = i
          <5>1. \A j \in 1..Len(tails[k]) : tails[k][j] = tails[k][i] => j = i
            BY <1>1, <3>3 DEF Chained
          <5> QED
            BY <2>3, <3>2, <4>1, <5>1
        <4> QED
          BY <4>2, <4>3
      <3>4. CASE i = Len(tails[k]) + 1
        <4>1. ChainMember(t, i)'
          BY <1>3, <2>1, <2>3, <3>2, <3>4 DEF ChainMember
        <4>2. \A j \in 1..Len(tails'[t]) : tails'[t][j] = tails'[t][i] => j = i
          BY <1>1, <1>2, <2>3, <3>2, <3>4
        <4> QED
          BY <4>1, <4>2
      <3> QED
        BY <2>3, <3>2, <3>3, <3>4
    <2> QED
      BY <2>2, <2>3
  <1> QED
    BY <1>4, <1>5

\* The section that enters is in one chain only, at its head.
LEMMA EnterChained ==
    ASSUME IInv, Chained, NEW s \in Sections, Enter(s)
    PROVE  Chained'
PROOF
  <1>1. /\ state' = [state EXCEPT ![s] = "in"]
        /\ UNCHANGED <<kind, tails>>
    BY DEF Enter
  <1>2. /\ Thread[s] \in Threads
        /\ 1 \in 1..Len(tails[Thread[s]])
        /\ tails[Thread[s]][1] = s
    BY ProgramAssumption, ChainFacts DEF Enter, HasTurn, IInv, TypeOK
  <1>3. \A t \in Threads : \A i \in 1..Len(tails[t]) : tails[t][i] = s => i = 1
    BY <1>2 DEF Chained, ChainMember
  <1> QED
    BY <1>1, <1>3 DEF Chained, ChainMember, IInv, TypeOK

\* The section that leaves was the head; the others were not in their bodies.
LEMMA ExitChained ==
    ASSUME IInv, Chained, NEW s \in Sections, Exit(s)
    PROVE  Chained'
PROOF
  <1> DEFINE k == Thread[s]
  <1>1. /\ state' = [state EXCEPT ![s] = "done"]
        /\ kind' = kind
        /\ state[s] = "in"
    BY DEF Exit
  <1>2. /\ state \in [Sections -> {"idle", "queued", "in", "done"}]
        /\ tails \in [Threads -> Seq(Sections)]
    BY DEF IInv, TypeOK
  <1>3. CASE kind[s] # "ticket"
    <2>1. tails' = tails
      BY <1>3 DEF Exit
    <2> QED
      BY <1>1, <1>2, <1>3, <2>1 DEF Chained, ChainMember
  <1>4. CASE kind[s] = "ticket"
    <2>1. /\ tails' = [tails EXCEPT ![k] = Tail(@)]
          /\ tails[k] # <<>> /\ Head(tails[k]) = s /\ k \in Threads
      BY <1>1, <1>4, ProgramAssumption DEF Exit, IInv, TurnIsHead
    <2> SUFFICES ASSUME NEW t \in Threads, NEW i \in 1..Len(tails'[t])
                 PROVE  /\ ChainMember(t, i)'
                        /\ \A j \in 1..Len(tails'[t]) : tails'[t][j] = tails'[t][i] => j = i
      BY DEF Chained
    <2>2. CASE t # k
      <3>1. tails'[t] = tails[t]
        BY <1>2, <2>1, <2>2
      <3>2. \A j \in 1..Len(tails[t]) : tails[t][j] # s
        BY <2>2, Outside
      <3> QED
        BY <1>1, <1>2, <3>1, <3>2 DEF Chained, ChainMember
    <2>3. CASE t = k
      <3>1. /\ tails'[k] = Tail(tails[k])
            /\ tails[k] \in Seq(Sections)
        BY <1>2, <2>1
      <3>2. /\ Len(tails[k]) \in Nat
            /\ Len(tails'[k]) = Len(tails[k]) - 1
            /\ \A j \in 1..(Len(tails[k]) - 1) : tails'[k][j] = tails[k][j + 1]
            /\ 1 \in 1..Len(tails[k]) /\ tails[k][1] = s
        <4>1. Len(tails[k]) \in Nat /\ 1 \in 1..Len(tails[k]) /\ Head(tails[k]) = tails[k][1]
          BY <2>1, <3>1, ChainFacts
        <4>2. /\ Len(tails'[k]) = Len(tails[k]) - 1
              /\ \A j \in 1..(Len(tails[k]) - 1) : tails'[k][j] = tails[k][j + 1]
          BY <2>1, <3>1, LeftChain
        <4> QED
          BY <2>1, <4>1, <4>2
      <3>3. \A j \in 1..(Len(tails[k]) - 1) :
                 /\ j + 1 \in 1..Len(tails[k]) /\ j + 1 # 1
                 /\ tails[k][j + 1] # s
        BY <2>1, <3>2 DEF Chained
      <3>4. i \in 1..(Len(tails[k]) - 1)
        BY <2>3, <3>2
      <3>5. ChainMember(t, i)'
        BY <1>1, <1>2, <2>3, <3>2, <3>3, <3>4 DEF Chained, ChainMember
      <3>6. \A j \in 1..Len(tails'[t]) : tails'[t][j] = tails'[t][i] => j = i
        BY <2>3, <3>2, <3>3, <3>4 DEF Chained
      <3> QED
        BY <3>5, <3>6
    <2> QED
      BY <2>2, <2>3
  <1> QED
    BY <1>3, <1>4

LEMMA SkipChained ==
    ASSUME IInv, Chained, NEW s \in Sections, Skip(s)
    PROVE  Chained'
PROOF
  <1>1. /\ state[s] = "idle"
        /\ state' = [state EXCEPT ![s] = "done"]
        /\ UNCHANGED <<kind, tails>>
    BY DEF Skip, Reached
  <1> QED
    BY <1>1 DEF Chained, ChainMember, IInv, TypeOK
LEMMA InitRInv == Init => RInv
  BY InitIInv, InitChained DEF RInv

\* Every step preserves the invariant of the refinement.
LEMMA NextRInv == RInv /\ [Next]_vars => RInv'
PROOF
  <1> SUFFICES ASSUME RInv, [Next]_vars PROVE RInv'
    OBVIOUS
  <1>1. IInv'
    BY NextIInv DEF RInv
  <1>2. Chained'
    <2>1. CASE UNCHANGED vars
      BY <2>1 DEF vars, RInv, Chained, ChainMember
    <2>2. CASE \E s \in Sections : Call(s) \/ Skip(s) \/ Enter(s) \/ Exit(s)
      BY <2>2, CallChained, SkipChained, EnterChained, ExitChained DEF RInv
    <2> QED
      BY <2>1, <2>2 DEF Next, Finished
  <1> QED
    BY <1>1, <1>2 DEF RInv

-----------------------------------------------------------------------------
\* A call that is not re-entrant asks for a turn; any other call is not seen.
LEMMA CallAsks ==
    ASSUME RInv, NEW s \in Sections, Call(s)
    PROVE  Fifo!Ask(s, Thread[s]) \/ UNCHANGED <<TurnOf, WaitFor>>
PROOF
  <1> DEFINE k == Thread[s]
             c == Context(s)
  <1>1. k \in Threads /\ state[s] = "idle"
    BY ProgramAssumption DEF Call, Reached
  <1>2. /\ state \in [Sections -> {"idle", "queued", "in", "done"}]
        /\ tails \in [Threads -> Seq(Sections)]
    BY DEF RInv, IInv, TypeOK
  <1>3. \A t \in Threads : \A i \in 1..Len(tails[t]) : tails[t][i] # s
    BY <1>1, Outside DEF RInv
  <1>4. \A t \in Threads : tails[t] # <<>> => Head(tails[t]) \in Sections /\ Head(tails[t]) # s
    BY <1>2, <1>3, ChainFacts
  <1>5. CASE Reenters(c, k)
    <2>1. state' = [state EXCEPT ![s] = "in"] /\ tails' = tails
      BY <1>5 DEF Call
    <2>2. \A t \in Threads : TurnTaken(t)' <=> TurnTaken(t)
      BY <1>2, <1>4, <2>1 DEF TurnTaken
    <2> QED
      BY <2>1, <2>2 DEF TurnOf, WaitFor
  <1>6. CASE ~Reenters(c, k)
    <2>1. /\ state' = [state EXCEPT ![s] = "queued"]
          /\ tails' = [tails EXCEPT ![k] = Append(@, s)]
      BY <1>6 DEF Call
    <2>2. \A t \in Threads \ {k} : tails'[t] = tails[t] /\ (TurnTaken(t)' <=> TurnTaken(t))
      BY <1>2, <1>4, <2>1 DEF TurnTaken
    <2>3. tails[k] \in Seq(Sections) /\ tails'[k] = Append(tails[k], s)
      BY <1>1, <1>2, <2>1
    <2>4. /\ tails[k] # <<>> => /\ Head(tails'[k]) = Head(tails[k])
                                 /\ Tail(tails'[k]) = Append(Tail(tails[k]), s)
          /\ tails[k] = <<>> => Head(tails'[k]) = s
          /\ tails'[k] # <<>>
      BY <2>3, JoinedChain, AppendKeepsHead, AloneInChain
    <2>5. TurnTaken(k)' <=> TurnTaken(k)
      BY <1>1, <1>2, <1>4, <2>1, <2>4 DEF TurnTaken
    <2>6. TurnOf' = TurnOf
      BY <1>1, <2>2, <2>4, <2>5 DEF TurnOf, TurnTaken
    <2>7. WaitFor' = [WaitFor EXCEPT ![k] = Append(@, s)]
      <3>1. WaitFor'[k] = Append(WaitFor[k], s)
        BY <1>1, <2>3, <2>4, <2>5 DEF WaitFor, TurnTaken
      <3>2. \A t \in Threads \ {k} : WaitFor'[t] = WaitFor[t]
        BY <2>2 DEF WaitFor
      <3>3. WaitFor = [t \in Threads |-> WaitFor[t]] /\ WaitFor' = [t \in Threads |-> WaitFor'[t]]
        BY DEF WaitFor
      <3> QED
        BY <3>1, <3>2, <3>3
    <2>8. TurnOf[k] # s
      BY <1>1, <1>4, ProgramAssumption DEF TurnOf, TurnTaken
    <2>9. ~ \E i \in 1..Len(WaitFor[k]) : WaitFor[k][i] = s
      <3>1. CASE TurnTaken(k)
        <4>1. WaitFor[k] = Tail(tails[k]) /\ tails[k] # <<>>
          BY <1>1, <3>1 DEF WaitFor, TurnTaken
        <4>2. /\ Len(tails[k]) \in Nat
              /\ Len(WaitFor[k]) = Len(tails[k]) - 1
              /\ \A i \in 1..(Len(tails[k]) - 1) : WaitFor[k][i] = tails[k][i + 1]
          BY <2>3, <4>1, LeftChain, ChainFacts
        <4> QED
          BY <1>1, <1>3, <4>2
      <3>2. CASE ~TurnTaken(k)
        BY <1>1, <1>3, <3>2 DEF WaitFor
      <3> QED
        BY <3>1, <3>2
    <2> QED
      BY <2>6, <2>7, <2>8, <2>9 DEF Fifo!Ask, Fifo!Waits
  <1> QED
    BY <1>5, <1>6

\* The head of a chain takes the turn that nobody has.
LEMMA EnterGrants ==
    ASSUME RInv, NEW s \in Sections, Enter(s)
    PROVE  Fifo!Grant(Thread[s])
PROOF
  <1> DEFINE k == Thread[s]
  <1>1. /\ k \in Threads /\ None \notin Sections
        /\ state[s] = "queued" /\ state' = [state EXCEPT ![s] = "in"] /\ tails' = tails
        /\ tails[k] # <<>> /\ Head(tails[k]) = s
    BY ProgramAssumption DEF Enter, HasTurn
  <1>2. /\ state \in [Sections -> {"idle", "queued", "in", "done"}]
        /\ tails \in [Threads -> Seq(Sections)]
    BY DEF RInv, IInv, TypeOK
  <1>3. \A t \in Threads \ {k} : tails[t] # <<>> => Head(tails[t]) \in Sections /\ Head(tails[t]) # s
    BY <1>2, ChainFacts, Outside DEF RInv
  <1>4. ~TurnTaken(k) /\ TurnTaken(k)'
    BY <1>1, <1>2 DEF TurnTaken
  <1>5. \A t \in Threads \ {k} : TurnTaken(t)' <=> TurnTaken(t)
    BY <1>1, <1>2, <1>3 DEF TurnTaken
  <1>6. TurnOf[k] = None /\ WaitFor[k] = tails[k]
    BY <1>1, <1>4 DEF TurnOf, WaitFor
  <1>7. TurnOf' = [TurnOf EXCEPT ![k] = Head(WaitFor[k])]
    BY <1>1, <1>4, <1>5, <1>6 DEF TurnOf
  <1>8. WaitFor' = [WaitFor EXCEPT ![k] = Tail(@)]
    BY <1>1, <1>4, <1>5, <1>6 DEF WaitFor
  <1> QED
    BY <1>1, <1>6, <1>7, <1>8 DEF Fifo!Grant

\* A section that took the turn gives it back; a re-entrant one is not seen.
LEMMA ExitGives ==
    ASSUME RInv, NEW s \in Sections, Exit(s)
    PROVE  Fifo!GiveBack(Thread[s]) \/ UNCHANGED <<TurnOf, WaitFor>>
PROOF
  <1> DEFINE k == Thread[s]
  <1>1. /\ k \in Threads /\ None \notin Sections
        /\ state[s] = "in" /\ state' = [state EXCEPT ![s] = "done"]
    BY ProgramAssumption DEF Exit
  <1>2. /\ state \in [Sections -> {"idle", "queued", "in", "done"}]
        /\ tails \in [Threads -> Seq(Sections)]
    BY DEF RInv, IInv, TypeOK
  <1>3. \A t \in Threads : tails[t] # <<>> /\ (t # k \/ kind[s] # "ticket")
            => Head(tails[t]) \in Sections /\ Head(tails[t]) # s
    BY <1>2, ChainFacts, Outside DEF RInv
  <1>4. CASE kind[s] # "ticket"
    <2>1. tails' = tails
      BY <1>4 DEF Exit
    <2>2. \A t \in Threads : TurnTaken(t)' <=> TurnTaken(t)
      BY <1>1, <1>2, <1>3, <1>4, <2>1 DEF TurnTaken
    <2> QED
      BY <2>1, <2>2 DEF TurnOf, WaitFor
  <1>5. CASE kind[s] = "ticket"
    <2>1. /\ tails' = [tails EXCEPT ![k] = Tail(@)]
          /\ tails[k] # <<>> /\ Head(tails[k]) = s
      BY <1>1, <1>5 DEF Exit, RInv, IInv, TurnIsHead
    <2>2. TurnTaken(k)
      BY <1>1, <2>1 DEF TurnTaken
    <2>3. tails'[k] = Tail(tails[k]) /\ tails'[k] \in Seq(Sections)
      BY <1>1, <1>2, <2>1, LeftChain
    <2>4. ~TurnTaken(k)'
      <3>1. tails'[k] # <<>> => /\ Head(tails'[k]) = tails[k][2]
                                /\ 2 \in 1..Len(tails[k])
        <4> SUFFICES ASSUME tails'[k] # <<>>
                     PROVE  Head(tails'[k]) = tails[k][2] /\ 2 \in 1..Len(tails[k])
          OBVIOUS
        <4>1. /\ Len(tails[k]) \in Nat /\ 1 \in 1..Len(tails'[k])
              /\ Head(tails'[k]) = tails'[k][1]
          BY <1>1, <1>2, <2>3, ChainFacts
        <4>2. /\ Len(tails'[k]) = Len(tails[k]) - 1
              /\ \A i \in 1..(Len(tails[k]) - 1) : tails'[k][i] = tails[k][i + 1]
          BY <1>1, <1>2, <2>1, <2>3, LeftChain
        <4> QED
          BY <4>1, <4>2
      <3>2. 2 \in 1..Len(tails[k]) => tails[k][2] \in Sections /\ state[tails[k][2]] # "in"
        BY <1>1, <1>2, ChainFacts DEF RInv, Chained, ChainMember
      <3> QED
        BY <1>1, <1>2, <3>1, <3>2 DEF TurnTaken
    <2>5. \A t \in Threads \ {k} : tails'[t] = tails[t] /\ (TurnTaken(t)' <=> TurnTaken(t))
      BY <1>1, <1>2, <1>3, <2>1 DEF TurnTaken
    <2>6. TurnOf[k] # None
      BY <1>1, <2>1, <2>2 DEF TurnOf
    <2>7. TurnOf' = [TurnOf EXCEPT ![k] = None]
      BY <1>1, <2>4, <2>5 DEF TurnOf
    <2>8. WaitFor' = WaitFor
      BY <1>1, <2>2, <2>3, <2>4, <2>5 DEF WaitFor
    <2> QED
      BY <2>6, <2>7, <2>8 DEF Fifo!GiveBack
  <1> QED
    BY <1>4, <1>5

LEMMA SkipUnseen ==
    ASSUME RInv, NEW s \in Sections, Skip(s)
    PROVE  UNCHANGED <<TurnOf, WaitFor>>
PROOF
  <1>1. /\ state[s] = "idle"
        /\ state' = [state EXCEPT ![s] = "done"] /\ tails' = tails
    BY DEF Skip, Reached
  <1>2. ASSUME NEW t \in Threads, tails[t] # <<>>
        PROVE  Head(tails[t]) \in Sections /\ Head(tails[t]) # s
    <2>1. tails[t] \in Seq(Sections)
      BY DEF RInv, IInv, TypeOK
    <2>2. 1 \in 1..Len(tails[t]) /\ Head(tails[t]) = tails[t][1] /\ tails[t][1] \in Sections
      BY <1>2, <2>1, ChainFacts
    <2>3. tails[t][1] # s
      BY <1>1, <2>2, Outside DEF RInv
    <2> QED
      BY <2>2, <2>3
  <1>3. \A t \in Threads : TurnTaken(t)' <=> TurnTaken(t)
    BY <1>1, <1>2 DEF TurnTaken, RInv, IInv, TypeOK
  <1> QED
    BY <1>1, <1>3 DEF TurnOf, WaitFor

\* Nobody has or awaits a turn initially.
LEMMA InitImplements == Init => Fifo!FifoInit
  BY DEF Init, Fifo!FifoInit, TurnOf, WaitFor, TurnTaken

\* Every step of the lock is a step of the abstract one, or is not seen there.
LEMMA StepImplements == RInv /\ [Next]_vars => [Fifo!FifoNext]_<<TurnOf, WaitFor>>
PROOF
  <1> SUFFICES ASSUME RInv, [Next]_vars
               PROVE  Fifo!FifoNext \/ UNCHANGED <<TurnOf, WaitFor>>
    OBVIOUS
  <1>1. \A s \in Sections : Thread[s] \in Threads
    BY ProgramAssumption
  <1>2. CASE UNCHANGED vars
    BY <1>2 DEF vars, TurnOf, WaitFor, TurnTaken
  <1>3. CASE \E s \in Sections : Call(s) \/ Skip(s) \/ Enter(s) \/ Exit(s)
    BY <1>1, <1>3, CallAsks, SkipUnseen, EnterGrants, ExitGives DEF Fifo!FifoNext
  <1> QED
    BY <1>2, <1>3 DEF Next, Finished

\* withMutationLock implements one first-come-first-served lock for each job,
\* whatever the program that uses it: its turns are asked for, granted in that
\* order and given back once, and nested or detached sections do not disturb that.
THEOREM LockIsFifo == Spec => ImplementsFifo
PROOF
  <1>1. [Fifo!FifoNext]_<<TurnOf, WaitFor>> => [Fifo!FifoNext]_(Fifo!lockVars)
    BY DEF Fifo!lockVars
  <1> QED
    BY InitRInv, NextRInv, InitImplements, StepImplements, <1>1, PTL
       DEF Spec, ImplementsFifo, Fifo!FifoSpec

-----------------------------------------------------------------------------
(* One owner on each thread.                                               *)

\* An active owner holds the threads its bodies are on.
Occupied == \A s \in Sections : state[s] = "in" /\ Active(owner[s]) => Thread[s] \in held[owner[s]]

\* An owner is a section that took a turn for itself, and one from whose body, or
\* a body below it, the section was called.
RootOf(s, o) ==
    o # None => /\ o \in {s} \cup Owners[s]
                /\ owner[o] = o /\ kind[o] = "ticket" /\ state[o] \in {"in", "done"}
OwnersAreRoots ==
    \A s \in Sections :
        /\ RootOf(s, owner[s]) /\ RootOf(s, inherited[s])
        /\ state[s] \in {"idle", "queued"} => owner[s] = None
        /\ state[s] = "idle" => inherited[s] = None
        /\ kind[s] = "ticket" => owner[s] \in {None, s, inherited[s]}

\* What a body awaits runs within it, what it follows has ended.
Alive(s) == state[s] \in {"queued", "in"}
RunWithin   == \A s \in Sections : \A u \in Within[s] : Alive(u) => state[s] = "in"
EndedBefore == \A s \in Sections : \A u \in Before[s] : state[s] # "idle" => state[u] = "done"

\* Within a body, its owner's sections on its thread re-enter.
Reentering ==
    \A s \in Sections : \A u \in Within[s] :
        /\ Thread[u] = Thread[s] /\ Alive(u) /\ kind[u] = "ticket" /\ Active(owner[s])
        => inherited[u] # owner[s]

OInv == IInv /\ Occupied /\ OwnersAreRoots /\ RunWithin /\ EndedBefore /\ Reentering

\* What FromStep reaches: the first steps, every step from there, and nothing else,
\* whether one looks at the first step or at the last.
LEMMA FromStepIs ==
    ASSUME NEW step \in [Sections -> SUBSET Sections], NEW s \in Sections
    PROVE  /\ FromStep(step)[s] \subseteq Sections
           /\ step[s] \subseteq FromStep(step)[s]
           /\ \A u \in FromStep(step)[s] : step[u] \subseteq FromStep(step)[s]
           /\ \A u \in FromStep(step)[s] : \E p \in {s} \cup FromStep(step)[s] : u \in step[p]
           /\ \A u \in FromStep(step)[s] :
                  u \in step[s] \/ \E c \in step[s] : u \in FromStep(step)[c]
PROOF
  <1> DEFINE F == FromStep(step)
             Closed(S, x) == \A y \in S \cup {x} : step[y] \subseteq S
  <1>1. \A x \in Sections : F[x] = {u \in Sections : \A S \in SUBSET Sections : Closed(S, x) => u \in S}
    BY DEF FromStep
  <1>2. \A x \in Sections : step[x] \subseteq Sections
    OBVIOUS
  <1> HIDE DEF F
  <1>3. \A x \in Sections : F[x] \subseteq Sections /\ Closed(F[x], x)
    <2> SUFFICES ASSUME NEW x \in Sections PROVE F[x] \subseteq Sections /\ Closed(F[x], x)
      OBVIOUS
    <2>1. F[x] \subseteq Sections
      BY <1>1
    <2>2. ASSUME NEW y \in F[x] \cup {x}, NEW z \in step[y] PROVE z \in F[x]
      <3>1. z \in Sections
        BY <1>2, <2>1, <2>2
      <3>2. ASSUME NEW S \in SUBSET Sections, Closed(S, x) PROVE z \in S
        <4>1. y \in S \cup {x}
          BY <1>1, <2>2, <3>2
        <4> QED
          BY <2>2, <3>2, <4>1
      <3> QED
        BY <1>1, <3>1, <3>2
    <2> QED
      BY <2>1, <2>2
  <1>4. ASSUME NEW u \in F[s] PROVE \E p \in {s} \cup F[s] : u \in step[p]
    <2> DEFINE S == {v \in Sections : \E p \in {s} \cup F[s] : v \in step[p]}
    <2>1. S \subseteq F[s]
      BY <1>3
    <2>2. S \in SUBSET Sections /\ Closed(S, s)
      BY <1>2, <1>3, <2>1
    <2>3. u \in S
      <3> HIDE DEF S, Closed
      <3> QED
        BY <1>1, <1>4, <2>2
    <2> QED
      BY <2>3
  <1>5. ASSUME NEW u \in F[s] PROVE u \in step[s] \/ \E c \in step[s] : u \in F[c]
    <2> DEFINE S == {v \in Sections : v \in step[s] \/ \E c \in step[s] : v \in F[c]}
    <2>1. ASSUME NEW y \in S, NEW z \in step[y] PROVE z \in S
      <3>1. z \in Sections
        BY <1>2, <2>1
      <3>2. CASE y \in step[s]
        BY <1>2, <1>3, <2>1, <3>1, <3>2
      <3>3. CASE \E c \in step[s] : y \in F[c]
        <4>1. PICK c \in step[s] : y \in F[c]
          BY <3>3
        <4>2. c \in Sections /\ z \in F[c]
          BY <1>2, <1>3, <2>1, <4>1
        <4> QED
          BY <3>1, <4>2
      <3> QED
        BY <2>1, <3>2, <3>3
    <2>2. S \in SUBSET Sections /\ Closed(S, s)
      BY <1>2, <2>1
    <2>3. u \in S
      <3> HIDE DEF S, Closed
      <3> QED
        BY <1>1, <1>5, <2>2
    <2> QED
      BY <2>3
  <1> QED
    BY <1>3, <1>4, <1>5 DEF F

LEMMA ProgramSteps ==
    /\ CalledFrom \in [Sections -> SUBSET Sections]
    /\ Awaits \in [Sections -> SUBSET Sections]
    /\ Follows \in [Sections -> SUBSET Sections]
PROOF
  BY ProgramAssumption DEF CalledFrom, Awaits, Follows

\* A section takes over its caller's owners.
LEMMA OwnersPassOn ==
    ASSUME NEW s \in Sections, Parent[s] # None, s \notin Escaped
    PROVE  {Parent[s]} \cup Owners[Parent[s]] \subseteq Owners[s]
PROOF
  <1>1. Parent[s] \in CalledFrom[s] /\ Parent[s] \in Sections
    BY ProgramAssumption DEF CalledFrom
  <1>2. Parent[s] \in Owners[s]
    BY <1>1, ProgramSteps, FromStepIs DEF Owners
  <1>3. ASSUME NEW o \in Owners[Parent[s]] PROVE o \in Owners[s]
    <2> DEFINE C(S, x) == \A y \in S \cup {x} : CalledFrom[y] \subseteq S
    <2>1. o \in Sections
      BY <1>1, <1>3, ProgramSteps, FromStepIs DEF Owners
    <2>2. ASSUME NEW S \in SUBSET Sections, C(S, s) PROVE o \in S
      <3>1. Parent[s] \in S
        BY <1>1, <2>2
      <3>2. C(S, Parent[s])
        BY <2>2, <3>1
      <3>3. Owners[Parent[s]] = {u \in Sections : \A R \in SUBSET Sections : C(R, Parent[s]) => u \in R}
        BY <1>1 DEF Owners, FromStep
      <3> HIDE DEF C
      <3> QED
        BY <1>3, <3>2, <3>3
    <2>3. Owners[s] = {u \in Sections : \A R \in SUBSET Sections : C(R, s) => u \in R}
      BY DEF Owners, FromStep
    <2> HIDE DEF C
    <2> QED
      BY <2>1, <2>2, <2>3
  <1> QED
    BY <1>2, <1>3

\* What runs within a body was called from it, or from what runs within it; what
\* was awaited before a call, or before that, has come before it.
LEMMA WithinIs ==
    ASSUME NEW s \in Sections, NEW u \in Within[s]
    PROVE  /\ u \in Sections /\ u \in Awaited
           /\ Parent[u] = s \/ Parent[u] \in Within[s]
           /\ Parent[u] = s \/ \E c \in Awaited : Parent[c] = s /\ u \in Within[c]
PROOF
  <1>1. \A x \in Sections : Awaits[x] = {v \in Awaited : Parent[v] = x}
    BY DEF Awaits
  <1>2. u \in Sections
    BY ProgramSteps, FromStepIs DEF Within
  <1>3. PICK p \in {s} \cup Within[s] : u \in Awaits[p]
    BY ProgramSteps, FromStepIs DEF Within
  <1>4. p \in Sections
    BY <1>3, ProgramSteps, FromStepIs DEF Within
  <1>5. u \in Awaits[s] \/ \E c \in Awaits[s] : u \in Within[c]
    BY ProgramSteps, FromStepIs DEF Within
  <1> QED
    BY <1>1, <1>2, <1>3, <1>4, <1>5

LEMMA BeforeIs ==
    ASSUME NEW s \in Sections, NEW u \in Before[s]
    PROVE  /\ u \in Sections /\ After[s] \in Sections
           /\ u = After[s] \/ u \in Before[After[s]]
PROOF
  <1>1. Follows[s] = {After[s]} \ {None}
    BY DEF Follows
  <1>2. u \in Follows[s] \/ \E c \in Follows[s] : u \in Before[c]
    BY ProgramSteps, FromStepIs DEF Before
  <1>3. After[s] # None /\ (u = After[s] \/ u \in Before[After[s]])
    BY <1>1, <1>2
  <1> QED
    BY <1>3, ProgramAssumption, ProgramSteps, FromStepIs DEF Before

LEMMA InitOInv == Init => OInv
PROOF
  <1> SUFFICES ASSUME Init PROVE OInv
    OBVIOUS
  <1>1. IInv
    BY InitIInv
  <1>2. /\ state = [s \in Sections |-> "idle"] /\ kind = [s \in Sections |-> "none"]
        /\ inherited = [s \in Sections |-> None] /\ owner = [s \in Sections |-> None]
    BY DEF Init
  <1>3. Occupied /\ OwnersAreRoots
    BY <1>2 DEF Occupied, OwnersAreRoots, RootOf
  <1>4. RunWithin /\ EndedBefore /\ Reentering
    BY <1>2, WithinIs DEF RunWithin, EndedBefore, Reentering, Alive
  <1> QED
    BY <1>1, <1>3, <1>4 DEF OInv

\* The owners that are known stay what they are while others call, enter or leave.
LEMMA OwnersEntered ==
    ASSUME OInv
    PROVE  \A s \in Sections :
               /\ owner[s] # None => owner[s] \in Sections /\ state[owner[s]] \in {"in", "done"}
               /\ inherited[s] # None => inherited[s] \in Sections /\ state[inherited[s]] \in {"in", "done"}
PROOF
  <1> SUFFICES ASSUME NEW s \in Sections
               PROVE  /\ owner[s] # None => owner[s] \in Sections /\ state[owner[s]] \in {"in", "done"}
                      /\ inherited[s] # None => inherited[s] \in Sections /\ state[inherited[s]] \in {"in", "done"}
    OBVIOUS
  <1>1. owner[s] \in Sections \cup {None} /\ inherited[s] \in Sections \cup {None}
    BY DEF OInv, IInv, TypeOK
  <1>2. RootOf(s, owner[s]) /\ RootOf(s, inherited[s])
    BY DEF OInv, OwnersAreRoots
  <1> QED
    BY <1>1, <1>2 DEF RootOf

LEMMA CallOInv ==
    ASSUME OInv, NEW s \in Sections, Call(s)
    PROVE  OInv'
PROOF
  <1> DEFINE c == Context(s)
  <1>1. IInv'
    BY CallIInv DEF OInv
  <1>2. /\ state \in [Sections -> {"idle", "queued", "in", "done"}]
        /\ kind \in [Sections -> {"none", "ticket", "reentrant"}]
        /\ inherited \in [Sections -> Sections \cup {None}]
        /\ owner \in [Sections -> Sections \cup {None}]
        /\ None \notin Sections
    BY ProgramAssumption DEF OInv, IInv, TypeOK
  <1>3. state[s] = "idle" /\ owner[s] = None /\ inherited[s] = None
    BY DEF Call, Reached, OInv, OwnersAreRoots
  <1>4. c \in Sections \cup {None} /\ (c # None => RootOf(s, c) /\ c # s)
    <2>1. CASE c = None
      BY <2>1
    <2>2. CASE c # None
      <3>1. /\ Parent[s] # None /\ s \notin Escaped /\ Parent[s] \in Sections
            /\ c = owner[Parent[s]]
        BY <2>2, ProgramAssumption DEF Context
      <3>2. RootOf(Parent[s], c)
        BY <3>1 DEF OInv, OwnersAreRoots
      <3> QED
        BY <1>2, <1>3, <2>2, <3>1, <3>2, OwnersPassOn DEF RootOf
    <2> QED
      BY <2>1, <2>2
  <1>5. /\ inherited' = [inherited EXCEPT ![s] = c] /\ held' = held
        /\ \/ /\ Reenters(c, Thread[s])
              /\ state' = [state EXCEPT ![s] = "in"]
              /\ kind' = [kind EXCEPT ![s] = "reentrant"]
              /\ owner' = [owner EXCEPT ![s] = c]
           \/ /\ ~Reenters(c, Thread[s])
              /\ state' = [state EXCEPT ![s] = "queued"]
              /\ kind' = [kind EXCEPT ![s] = "ticket"]
              /\ owner' = owner
    BY DEF Call
  <1> HIDE DEF c
  <1>6. \A x \in Sections \ {s} : /\ state'[x] = state[x] /\ kind'[x] = kind[x]
                                  /\ inherited'[x] = inherited[x] /\ owner'[x] = owner[x]
    BY <1>2, <1>5
  <1>7. \A x \in Sections : /\ owner[x] # s /\ inherited[x] # s
    BY <1>2, <1>3, OwnersEntered
  <1>8. /\ inherited'[s] = c /\ Alive(s)'
        /\ \/ /\ Active(c) /\ Thread[s] \in held[c]
              /\ state'[s] = "in" /\ kind'[s] = "reentrant" /\ owner'[s] = c
           \/ /\ ~(Active(c) /\ Thread[s] \in held[c])
              /\ state'[s] = "queued" /\ kind'[s] = "ticket" /\ owner'[s] = None
    BY <1>2, <1>3, <1>5 DEF Reenters, Alive
  <1>9. Occupied'
    <2> SUFFICES ASSUME NEW x \in Sections, state'[x] = "in", owner'[x] # None, state'[owner'[x]] = "in"
                 PROVE  Thread[x] \in held[owner'[x]]
      BY <1>5 DEF Occupied, Active
    <2>1. CASE x = s
      BY <1>8, <2>1
    <2>2. CASE x # s
      BY <1>2, <1>6, <1>7, <2>2 DEF OInv, Occupied, Active
    <2> QED
      BY <2>1, <2>2
  <1>10. OwnersAreRoots'
    <2>1. ASSUME NEW x \in Sections, NEW o \in Sections \cup {None}, o # s, RootOf(x, o)
          PROVE  RootOf(x, o)'
      BY <1>2, <1>6, <2>1 DEF RootOf
    <2>2. ASSUME NEW x \in Sections, x # s
          PROVE  /\ RootOf(x, owner[x])' /\ RootOf(x, inherited[x])'
      BY <1>2, <1>6, <1>7, <2>1, <2>2 DEF OInv, OwnersAreRoots, RootOf
    <2> QED
      BY <1>2, <1>4, <1>6, <1>7, <1>8, <2>1, <2>2 DEF OInv, OwnersAreRoots, RootOf
  <1>11. RunWithin'
    <2> SUFFICES ASSUME NEW x \in Sections, NEW u \in Within[x], Alive(u)'
                 PROVE  state'[x] = "in"
      BY DEF RunWithin
    <2>1. u \in Sections
      BY WithinIs
    <2>2. state[x] = "in"
      <3>1. CASE u = s
        <4>1. Parent[s] = x \/ Parent[s] \in Within[x]
          BY <3>1, WithinIs
        <4>2. state[Parent[s]] = "in"
          BY <3>1, <4>1, WithinIs, ProgramAssumption DEF Call, Reached, Calling
        <4> QED
          BY <4>1, <4>2 DEF OInv, RunWithin, Alive
      <3>2. CASE u # s
        BY <1>6, <2>1, <3>2 DEF OInv, RunWithin, Alive
      <3> QED
        BY <3>1, <3>2
    <2> QED
      BY <1>3, <1>6, <2>2
  <1>12. EndedBefore'
    <2> SUFFICES ASSUME NEW x \in Sections, NEW u \in Before[x], state'[x] # "idle"
                 PROVE  state'[u] = "done"
      BY DEF EndedBefore
    <2>1. u \in Sections /\ After[x] \in Sections /\ (u = After[x] \/ u \in Before[After[x]])
      BY BeforeIs
    <2>2. state[u] = "done"
      <3>1. CASE x = s
        <4>1. state[After[s]] = "done"
          BY <1>2, <2>1, <3>1 DEF Call, Reached
        <4> QED
          BY <2>1, <3>1, <4>1 DEF OInv, EndedBefore
      <3>2. CASE x # s
        BY <1>6, <3>2 DEF OInv, EndedBefore
      <3> QED
        BY <3>1, <3>2
    <2> QED
      BY <1>3, <1>6, <2>1, <2>2
  <1>13. Reentering'
    <2> SUFFICES ASSUME NEW x \in Sections, NEW u \in Within[x], Thread[u] = Thread[x], Alive(u)',
                        kind'[u] = "ticket", Active(owner[x])'
                 PROVE  inherited'[u] # owner'[x]
      BY DEF Reentering
    <2>1. u \in Sections
      BY WithinIs
    <2>2. state'[x] = "in"
      BY <1>11 DEF RunWithin
    <2>3. x # s
      <3> SUFFICES ASSUME x = s PROVE FALSE
        OBVIOUS
      <3>1. u # s
        BY <1>8, <2>2
      <3> QED
        BY <1>3, <1>6, <2>1, <3>1 DEF OInv, RunWithin, Alive
    <2>4. /\ state[x] = "in" /\ owner'[x] = owner[x] /\ Active(owner[x])
      BY <1>2, <1>6, <1>7, <2>2, <2>3 DEF Active
    <2>5. CASE u = s
      <3>1. Thread[x] \in held[owner[x]]
        BY <2>4 DEF OInv, Occupied
      <3> QED
        BY <1>8, <2>4, <2>5, <3>1
    <2>6. CASE u # s
      BY <1>6, <2>1, <2>4, <2>6 DEF OInv, Reentering, Alive
    <2> QED
      BY <2>5, <2>6
  <1> QED
    BY <1>1, <1>9, <1>10, <1>11, <1>12, <1>13 DEF OInv

LEMMA SkipOInv ==
    ASSUME OInv, NEW s \in Sections, Skip(s)
    PROVE  OInv'
PROOF
  <1>1. IInv'
    BY SkipIInv DEF OInv
  <1>2. /\ state \in [Sections -> {"idle", "queued", "in", "done"}]
        /\ owner \in [Sections -> Sections \cup {None}] /\ inherited \in [Sections -> Sections \cup {None}]
        /\ None \notin Sections
    BY ProgramAssumption DEF OInv, IInv, TypeOK
  <1>3. /\ state[s] = "idle" /\ state'[s] = "done"
        /\ \A x \in Sections \ {s} : state'[x] = state[x]
        /\ UNCHANGED <<kind, inherited, owner, held>>
        /\ After[s] # None => state[After[s]] = "done"
    BY <1>2 DEF Skip, Reached
  <1>4. owner[s] = None /\ inherited[s] = None /\ \A x \in Sections : owner[x] # s /\ inherited[x] # s
    BY <1>2, <1>3, OwnersEntered DEF OInv, OwnersAreRoots
  <1>5. Occupied'
    BY <1>2, <1>3, <1>4 DEF OInv, Occupied, Active
  <1>6. OwnersAreRoots'
    BY <1>2, <1>3, <1>4 DEF OInv, OwnersAreRoots, RootOf
  <1>7. RunWithin'
    BY <1>3, WithinIs DEF OInv, RunWithin, Alive
  <1>8. EndedBefore'
    <2> SUFFICES ASSUME NEW x \in Sections, NEW u \in Before[x], state'[x] # "idle"
                 PROVE  state'[u] = "done"
      BY DEF EndedBefore
    <2>1. u \in Sections /\ After[x] \in Sections /\ (u = After[x] \/ u \in Before[After[x]])
      BY BeforeIs
    <2>2. CASE x = s
      BY <1>2, <1>3, <2>1, <2>2 DEF OInv, EndedBefore
    <2>3. CASE x # s
      BY <1>3, <2>1, <2>3 DEF OInv, EndedBefore
    <2> QED
      BY <2>2, <2>3
  <1>9. Reentering'
    <2> SUFFICES ASSUME NEW x \in Sections, NEW u \in Within[x], Thread[u] = Thread[x], Alive(u)',
                        kind[u] = "ticket", Active(owner[x])'
                 PROVE  inherited[u] # owner[x]
      BY <1>3 DEF Reentering
    <2>1. u \in Sections /\ Alive(u) /\ Active(owner[x])
      BY <1>2, <1>3, <1>4, WithinIs DEF Alive, Active
    <2> QED
      BY <2>1 DEF OInv, Reentering
  <1> QED
    BY <1>1, <1>5, <1>6, <1>7, <1>8, <1>9 DEF OInv

LEMMA EnterOInv ==
    ASSUME OInv, NEW s \in Sections, Enter(s)
    PROVE  OInv'
PROOF
  <1> DEFINE i == inherited[s]
  <1>1. IInv'
    BY EnterIInv DEF OInv
  <1>2. /\ state \in [Sections -> {"idle", "queued", "in", "done"}]
        /\ owner \in [Sections -> Sections \cup {None}] /\ inherited \in [Sections -> Sections \cup {None}]
        /\ held \in [Sections -> SUBSET Threads]
        /\ None \notin Sections
    BY ProgramAssumption DEF OInv, IInv, TypeOK
  <1>3. /\ state[s] = "queued" /\ state' = [state EXCEPT ![s] = "in"]
        /\ UNCHANGED <<kind, inherited>> /\ kind[s] = "ticket" /\ owner[s] = None
        /\ \/ /\ Active(i)
              /\ owner' = [owner EXCEPT ![s] = i] /\ held' = [held EXCEPT ![i] = @ \cup {Thread[s]}]
           \/ /\ owner' = [owner EXCEPT ![s] = s] /\ held' = [held EXCEPT ![s] = {Thread[s]}]
    BY DEF Enter, OInv, IInv, TurnIsHead, OwnersAreRoots
  <1> HIDE DEF i
  <1>4. /\ state'[s] = "in"
        /\ \A x \in Sections \ {s} : state'[x] = state[x] /\ owner'[x] = owner[x]
    BY <1>2, <1>3
  <1>5. \A x \in Sections : owner[x] # s /\ inherited[x] # s
    BY <1>2, <1>3, OwnersEntered
  <1>6. /\ \A o \in Sections \ {s} : held[o] \subseteq held'[o]
        /\ \/ owner'[s] = s /\ Thread[s] \in held'[s]
           \/ owner'[s] = inherited[s] /\ inherited[s] \in Sections /\ Thread[s] \in held'[inherited[s]]
    BY <1>2, <1>3 DEF Active, i
  <1>7. Occupied'
    <2> SUFFICES ASSUME NEW x \in Sections, state'[x] = "in", owner'[x] # None, state'[owner'[x]] = "in"
                 PROVE  Thread[x] \in held'[owner'[x]]
      BY DEF Occupied, Active
    <2>1. CASE x = s
      BY <1>6, <2>1
    <2>2. CASE x # s
      BY <1>2, <1>4, <1>5, <1>6, <2>2 DEF OInv, Occupied, Active
    <2> QED
      BY <2>1, <2>2
  <1>8. OwnersAreRoots'
    <2>1. ASSUME NEW x \in Sections, NEW o \in Sections \cup {None}, o # s, RootOf(x, o)
          PROVE  RootOf(x, o)'
      BY <1>2, <1>3, <1>4, <2>1 DEF RootOf
    <2>2. owner'[s] = s => RootOf(s, s)'
      BY <1>3, <1>4 DEF RootOf
    <2>3. ASSUME NEW x \in Sections
          PROVE  RootOf(x, inherited[x])' /\ (x # s => RootOf(x, owner[x])')
      <3>1. RootOf(x, inherited[x])'
        BY <1>2, <1>3, <1>5, <2>1 DEF OInv, OwnersAreRoots, RootOf
      <3>2. x # s => RootOf(x, owner[x])'
        BY <1>2, <1>4, <1>5, <2>1 DEF OInv, OwnersAreRoots, RootOf
      <3> QED
        BY <3>1, <3>2
    <2>4. RootOf(s, owner[s])'
      BY <1>2, <1>3, <1>6, <2>2, <2>3 DEF RootOf
    <2> QED
      BY <1>2, <1>3, <1>4, <1>6, <2>3, <2>4 DEF OInv, OwnersAreRoots
  <1>9. RunWithin'
    BY <1>3, <1>4, WithinIs DEF OInv, RunWithin, Alive
  <1>10. EndedBefore'
    BY <1>3, <1>4, BeforeIs DEF OInv, EndedBefore
  <1>11. Reentering'
    <2> SUFFICES ASSUME NEW x \in Sections, NEW u \in Within[x], Thread[u] = Thread[x], Alive(u)',
                        kind[u] = "ticket", Active(owner[x])'
                 PROVE  inherited[u] # owner'[x]
      BY <1>3 DEF Reentering
    <2>1. u \in Sections /\ Alive(u)
      BY <1>3, <1>4, WithinIs DEF Alive
    <2>2. x # s
      BY <1>3, <2>1 DEF OInv, RunWithin
    <2>3. owner'[x] = owner[x] /\ Active(owner[x])
      BY <1>2, <1>4, <1>5, <2>2 DEF Active
    <2> QED
      BY <2>1, <2>3 DEF OInv, Reentering
  <1> QED
    BY <1>1, <1>7, <1>8, <1>9, <1>10, <1>11 DEF OInv

\* Nobody goes on under the turn a section gives back.
LEMMA ExitOInv ==
    ASSUME TurnsCover, OInv, NEW s \in Sections, Exit(s)
    PROVE  OInv'
PROOF
  <1>1. IInv'
    BY ExitIInv DEF OInv
  <1>2. /\ state \in [Sections -> {"idle", "queued", "in", "done"}]
        /\ kind \in [Sections -> {"none", "ticket", "reentrant"}]
        /\ owner \in [Sections -> Sections \cup {None}] /\ inherited \in [Sections -> Sections \cup {None}]
        /\ held \in [Sections -> SUBSET Threads]
        /\ None \notin Sections
    BY ProgramAssumption DEF OInv, IInv, TypeOK
  <1>3. /\ state[s] = "in" /\ state'[s] = "done"
        /\ \A x \in Sections \ {s} : state'[x] = state[x]
        /\ UNCHANGED <<kind, inherited, owner>>
        /\ \A u \in Awaited : Parent[u] = s => state[u] = "done"
        /\ \A o \in Sections : o # owner[s] \/ kind[s] # "ticket" => held'[o] = held[o]
        /\ \A o \in Sections : held[o] \ {Thread[s]} \subseteq held'[o]
    BY <1>2 DEF Exit
  <1>4. RunWithin'
    <2> SUFFICES ASSUME NEW x \in Sections, NEW u \in Within[x], Alive(u)'
                 PROVE  state'[x] = "in"
      BY DEF RunWithin
    <2>1. u \in Sections /\ Alive(u) /\ state[u] # "done" /\ state[x] = "in"
      BY <1>3, WithinIs DEF OInv, RunWithin, Alive
    <2>2. x # s
      <3> SUFFICES ASSUME x = s PROVE FALSE
        OBVIOUS
      <3>1. u \in Awaited /\ (Parent[u] = s \/ \E c \in Awaited : Parent[c] = s /\ u \in Within[c])
        BY WithinIs
      <3>2. PICK c \in Awaited : Parent[c] = s /\ u \in Within[c]
        BY <1>3, <2>1, <3>1
      <3> QED
        BY <1>3, <2>1, <3>2, ProgramAssumption DEF OInv, RunWithin
    <2> QED
      BY <1>3, <2>1, <2>2
  <1>5. Occupied'
    <2> SUFFICES ASSUME NEW x \in Sections, state'[x] = "in", owner[x] # None, state'[owner[x]] = "in"
                 PROVE  Thread[x] \in held'[owner[x]]
      BY <1>3 DEF Occupied, Active
    <2> DEFINE o == owner[x]
    <2>1. /\ x # s /\ state[x] = "in" /\ o \in Sections /\ o # s /\ state[o] = "in"
          /\ Thread[x] \in held[o]
      BY <1>2, <1>3 DEF OInv, Occupied, Active
    <2>2. CASE ~(owner[s] = o /\ kind[s] = "ticket" /\ Thread[x] = Thread[s])
      BY <1>3, <2>1, <2>2
    <2>3. CASE owner[s] = o /\ kind[s] = "ticket" /\ Thread[x] = Thread[s]
      <3>1. /\ inherited[s] = o /\ o \in {s} \cup Owners[s] /\ o \in {x} \cup Owners[x]
            /\ owner[o] = o /\ kind[o] = "ticket"
        BY <1>2, <2>1, <2>3 DEF OInv, OwnersAreRoots, RootOf
      <3>2. Thread[o] # Thread[s]
        BY <1>3, <2>1, <2>3, <3>1 DEF OInv, IInv, TurnIsHead
      <3>3. x \in Within[s] \/ s \in Within[x] \/ Apart(s, x)
        BY <2>1, <2>3, <3>1, <3>2 DEF TurnsCover
      <3>4. x \notin Within[s]
        BY <1>3, <1>4, <2>1 DEF RunWithin, Alive
      <3>5. s \notin Within[x]
        BY <1>3, <2>1, <2>3, <3>1 DEF OInv, Reentering, Alive, Active
      <3>6. ~Apart(s, x)
        <4> SUFFICES ASSUME NEW a \in Sections, NEW b \in Sections,
                            s \in {a} \cup Within[a], x \in {b} \cup Within[b],
                            a \in Before[b] \/ b \in Before[a]
                     PROVE  FALSE
          BY DEF Apart
        <4>1. state[a] = "in" /\ state[b] = "in"
          BY <1>3, <2>1 DEF OInv, RunWithin, Alive
        <4> QED
          BY <4>1 DEF OInv, EndedBefore
      <3> QED
        BY <3>3, <3>4, <3>5, <3>6
    <2> QED
      BY <2>2, <2>3
  <1>6. OwnersAreRoots'
    BY <1>2, <1>3 DEF OInv, OwnersAreRoots, RootOf
  <1>7. EndedBefore'
    BY <1>3, BeforeIs DEF OInv, EndedBefore
  <1>8. Reentering'
    <2> SUFFICES ASSUME NEW x \in Sections, NEW u \in Within[x], Thread[u] = Thread[x], Alive(u)',
                        kind[u] = "ticket", Active(owner[x])'
                 PROVE  inherited[u] # owner[x]
      BY <1>3 DEF Reentering
    <2>1. u \in Sections /\ Alive(u) /\ Active(owner[x])
      BY <1>2, <1>3, WithinIs DEF Alive, Active
    <2> QED
      BY <2>1 DEF OInv, Reentering
  <1> QED
    BY <1>1, <1>4, <1>5, <1>6, <1>7, <1>8 DEF OInv

LEMMA NextOInv == TurnsCover /\ OInv /\ [Next]_vars => OInv'
PROOF
  <1> SUFFICES ASSUME TurnsCover, OInv, [Next]_vars PROVE OInv'
    OBVIOUS
  <1>1. CASE UNCHANGED vars
    <2>1. IInv'
      BY <1>1, NextIInv DEF OInv
    <2>2. (Occupied /\ OwnersAreRoots /\ RunWithin /\ EndedBefore /\ Reentering)'
      BY <1>1 DEF vars, OInv, Occupied, OwnersAreRoots, RootOf, RunWithin, EndedBefore, Reentering, Alive, Active
    <2> QED
      BY <2>1, <2>2 DEF OInv
  <1>2. CASE \E s \in Sections : Call(s) \/ Skip(s) \/ Enter(s) \/ Exit(s)
    BY <1>2, CallOInv, SkipOInv, EnterOInv, ExitOInv
  <1> QED
    BY <1>1, <1>2 DEF Next, Finished

\* Both owners hold the thread, and a thread is held through its one turn.
LEMMA OneOwnerFollows == OInv => OneOwnerPerThread
PROOF
  <1> SUFFICES ASSUME OInv, NEW s \in Sections, NEW u \in Sections,
                      state[s] = "in", state[u] = "in", Thread[s] = Thread[u],
                      Active(owner[s]), Active(owner[u])
               PROVE  owner[s] = owner[u]
    BY DEF OneOwnerPerThread
  <1>1. Thread[s] \in held[owner[s]] /\ Thread[s] \in held[owner[u]] /\ Thread[s] \in Threads
    BY ProgramAssumption DEF OInv, Occupied
  <1>2. /\ owner[s] \in Sections /\ state[owner[s]] = "in"
        /\ owner[u] \in Sections /\ state[owner[u]] = "in"
    BY DEF OInv, IInv, TypeOK, Active
  <1> QED
    BY <1>1, <1>2 DEF OInv, IInv, HoldMeansTurn

\* In a program that lets nobody outlast a second turn, the bodies on one thread
\* belong to one owner: what runs beside a mutation is part of it.
THEOREM OneOwner == TurnsCover => (Spec => []OneOwnerPerThread)
PROOF
  <1> SUFFICES ASSUME TurnsCover PROVE Spec => []OneOwnerPerThread
    OBVIOUS
  <1>1. Init => OInv
    BY InitOInv
  <1>2. OInv /\ [Next]_vars => OInv'
    BY NextOInv
  <1>3. OInv => OneOwnerPerThread
    BY OneOwnerFollows
  <1> QED
    BY <1>1, <1>2, <1>3, PTL DEF Spec
=============================================================================
