--------------------------- MODULE SessionsProofs ---------------------------
(***************************************************************************)
(* Proofs about what drives Butler's model session: the operator's messages*)
(* on their way through the prompt queue, and a session's automation.  Each*)
(* section proves what one step of a driver does for its own specification;*)
(* the last one carries the results over to the composition, which is what *)
(* TLC runs.                                                               *)
(***************************************************************************)
EXTENDS MCSessions, SequenceTheorems, WellFoundedInduction, TLAPS

-----------------------------------------------------------------------------
(* Numbers and sequences.                                                  *)

\* A set of natural numbers has a least element, which Min is.
LEMMA MinIs ==
    ASSUME NEW S \in SUBSET Nat, S # {}
    PROVE  Min(S) \in S /\ \A y \in S : Min(S) <= y
PROOF
  <1> DEFINE R == {ss \in Nat \X Nat : ss[1] < ss[2]}
  <1>1. IsWellFoundedOn(R, Nat)
    BY NatLessThanWellFounded DEF OpToRel
  <1>2. \E x \in S : \A y \in S : ~(<<y, x>> \in R)
    <2> HIDE DEF R
    <2>1. S \subseteq Nat /\ S # {}
      OBVIOUS
    <2>2. \A T : T \subseteq Nat /\ T # {} => \E x \in T : \A y \in T : ~(<<y, x>> \in R)
      BY <1>1, WFMin
    <2> QED
      BY <2>1, <2>2
  <1>3. \E x \in S : \A y \in S : x =< y
    <2>1. \A a, b \in Nat : ~(<<a, b>> \in R) => b =< a
      OBVIOUS
    <2> HIDE DEF R
    <2> QED
      BY <1>2, <2>1
  <1> QED
    BY <1>3 DEF Min

\* A function that was changed at one point is what it was at the others.
LEMMA Elsewhere ==
    ASSUME NEW f, NEW g, NEW m, NEW n, n \in DOMAIN f, m # n, \E x : g = [f EXCEPT ![m] = x]
    PROVE  g[n] = f[n]
  OBVIOUS

\* An entry taken out of a sequence leaves a sequence.
LEMMA RemoveFirstIs ==
    ASSUME NEW S, NEW s \in Seq(S), NEW e
    PROVE  RemoveFirst(s, e) \in Seq(S)
PROOF
  <1> DEFINE I == {i \in 1..Len(s) : s[i] = e}
             k == Min(I)
  <1>1. CASE I = {}
    BY <1>1 DEF RemoveFirst
  <1>2. CASE I # {}
    <2>1. I \subseteq Nat /\ k \in I
      BY <1>2, MinIs, I \subseteq Nat
    <2>2. k \in 1..Len(s) /\ Len(s) \in Nat
      BY <2>1
    <2>3. RemoveFirst(s, e) = SubSeq(s, 1, k - 1) \o SubSeq(s, k + 1, Len(s))
      BY <1>2 DEF RemoveFirst, RemoveAt, SelectInSeq
    <2> HIDE DEF k
    <2>4. SubSeq(s, 1, k - 1) \in Seq(S) /\ SubSeq(s, k + 1, Len(s)) \in Seq(S)
      BY <2>2
    <2> QED
      BY <2>3, <2>4
  <1> QED
    BY <1>1, <1>2

-----------------------------------------------------------------------------
(* Butler's chat.                                                          *)

\* Where a message stands in the queue.
PlacesOf(m) == {i \in DOMAIN promptQueue : promptQueue[i] \in {Turn(m), Grounding(m)}}

\* What is executed is the head of the queue, and a message stands in the queue
\* once, and only while its sender waits for the prompt.
QueueInOrder ==
    /\ promptQueue \in Seq(Items) /\ shown \in Seq(Messages)
    /\ step # "idle" => promptQueue # <<>>
    /\ \A m \in Messages : \A i, j \in PlacesOf(m) : i = j
    /\ \A m \in Messages : PlacesOf(m) # {} => stage[m] = "queued"

\* A message that was turned away was accepted before the last stop, which is what
\* the check on stops sees, and is not on its way to be accepted anew.
TurnedAwayIsSeen ==
    /\ stopSeq \in Nat
    /\ turnedAway \subseteq Messages
    /\ \A m \in turnedAway :
          /\ seen[m] < stopSeq
          /\ stage[m] \in {"queued", "done"}
          /\ \A i \in DOMAIN promptQueue : promptQueue[i] # Grounding(m)

PromptInv == PromptTypeOK /\ QueueInOrder /\ TurnedAwayIsSeen /\ TurnedAwayStaysOut

\* The prompts of different messages, told apart.
LEMMA ItemsAre ==
    /\ \A m \in Messages : Turn(m) \in Items /\ Grounding(m) \in Items
    /\ Reload \in Items
    /\ \A it \in Items : it = Reload \/ (it.of \in Messages /\ it \in {Turn(it.of), Grounding(it.of)})
    /\ Reload.of = NoMessage /\ Reload.kind = "reload"
    /\ \A m, n \in Messages : Turn(m) # Grounding(n)
    /\ \A m, n \in Messages : Turn(m) = Turn(n) \/ Grounding(m) = Grounding(n) => m = n
    /\ \A m \in Messages : Turn(m) # Reload /\ Grounding(m) # Reload /\ Turn(m).of = m /\ Turn(m).kind = "turn"
                           /\ Grounding(m).of = m /\ Grounding(m).kind = "ground"
PROOF
  <1>2. /\ Reload.of = NoMessage /\ Reload.kind = "reload"
        /\ \A m \in Messages : Turn(m).of = m /\ Turn(m).kind = "turn" /\ Grounding(m).of = m /\ Grounding(m).kind = "ground"
    BY DEF Turn, Grounding, Reload
  <1> HIDE DEF Turn, Grounding, Reload
  <1>3. /\ \A m \in Messages : Turn(m) \in Items /\ Grounding(m) \in Items
        /\ Reload \in Items
    BY DEF Items
  <1>4. ASSUME NEW it \in Items PROVE it = Reload \/ (it.of \in Messages /\ it \in {Turn(it.of), Grounding(it.of)})
    <2>1. it = Reload \/ (\E m \in Messages : it = Turn(m)) \/ (\E m \in Messages : it = Grounding(m))
      BY DEF Items
    <2> QED
      BY <1>2, <2>1
  <1>5. /\ \A m, n \in Messages : Turn(m) # Grounding(n)
        /\ \A m, n \in Messages : Turn(m) = Turn(n) \/ Grounding(m) = Grounding(n) => m = n
        /\ \A m \in Messages : Turn(m) # Reload /\ Grounding(m) # Reload
    <2>1. "turn" # "ground" /\ "turn" # "reload" /\ "ground" # "reload"
      OBVIOUS
    <2> QED
      BY <1>2, <2>1
  <1> QED
    BY <1>2, <1>3, <1>4, <1>5

\* The invariant holds before the first prompt.
LEMMA PromptInitInv == PromptInit => PromptInv
PROOF
  <1> SUFFICES ASSUME PromptInit PROVE PromptInv
    OBVIOUS
  <1>1. QueueInOrder
    BY DEF PromptInit, QueueInOrder, PlacesOf
  <1>2. TurnedAwayIsSeen
    BY DEF PromptInit, TurnedAwayIsSeen
  <1>3. TurnedAwayStaysOut
    BY DEF PromptInit, TurnedAwayStaysOut
  <1>4. PromptTypeOK
    <2>1. ToSet(promptQueue) = {} /\ ToSet(shown) = {}
      BY DEF PromptInit, ToSet
    <2>2. ask \in [Messages -> [mode : Modes, names : BOOLEAN]]
      BY DEF PromptInit, Modes
    <2> QED
      BY <2>1, <2>2 DEF PromptInit, PromptTypeOK
  <1> QED
    BY <1>1, <1>2, <1>3, <1>4 DEF PromptInv

\* The queue as it was.
LEMMA QueueLeft ==
    ASSUME promptQueue' = promptQueue
    PROVE  /\ \A m : PlacesOf(m)' = PlacesOf(m)
           /\ Current' = Current
  BY DEF PlacesOf, Current, Turn, Grounding

\* A prompt joins the queue at its end.
LEMMA QueueJoined ==
    ASSUME promptQueue \in Seq(Items), NEW it \in Items, promptQueue' = Append(promptQueue, it)
    PROVE  /\ promptQueue' \in Seq(Items) /\ promptQueue' # <<>>
           /\ Len(promptQueue) + 1 \notin DOMAIN promptQueue
           /\ \A m : PlacesOf(m)' = PlacesOf(m) \cup (IF it \in {Turn(m), Grounding(m)} THEN {Len(promptQueue) + 1} ELSE {})
           /\ \A i \in DOMAIN promptQueue' : promptQueue'[i] = it \/ (i \in DOMAIN promptQueue /\ promptQueue'[i] = promptQueue[i])
           /\ promptQueue # <<>> => Current' = Current
PROOF
  <1>1. /\ promptQueue' \in Seq(Items) /\ Len(promptQueue') = Len(promptQueue) + 1
        /\ \A i \in 1..Len(promptQueue) : promptQueue'[i] = promptQueue[i]
        /\ promptQueue'[Len(promptQueue) + 1] = it
    BY AppendProperties
  <1>2. DOMAIN promptQueue = 1..Len(promptQueue) /\ DOMAIN promptQueue' = 1..Len(promptQueue) + 1 /\ Len(promptQueue) \in Nat
    BY <1>1
  <1>3. \A m : PlacesOf(m)' = PlacesOf(m) \cup (IF it \in {Turn(m), Grounding(m)} THEN {Len(promptQueue) + 1} ELSE {})
    BY <1>1, <1>2 DEF PlacesOf, Turn, Grounding
  <1>4. promptQueue # <<>> => Current' = Current
    BY <1>1, <1>2 DEF Current
  <1>5. promptQueue' # <<>> /\ Len(promptQueue) + 1 \notin DOMAIN promptQueue
    BY <1>1, <1>2
  <1>6. \A i \in DOMAIN promptQueue' :
           promptQueue'[i] = it \/ (i \in DOMAIN promptQueue /\ promptQueue'[i] = promptQueue[i])
    BY <1>1, <1>2
  <1> QED
    BY <1>1, <1>3, <1>4, <1>5, <1>6

\* The head leaves the queue.
LEMMA QueueMovedOn ==
    ASSUME promptQueue \in Seq(Items), promptQueue # <<>>, promptQueue' = Tail(promptQueue)
    PROVE  /\ promptQueue' \in Seq(Items) /\ Current \in Items
           /\ \A m : \A i \in PlacesOf(m)' : i \in Nat /\ i # 0 /\ i + 1 \in PlacesOf(m)
           /\ \A m : Current \in {Turn(m), Grounding(m)} => 1 \in PlacesOf(m)
           /\ \A i \in DOMAIN promptQueue' : i + 1 \in DOMAIN promptQueue /\ promptQueue'[i] = promptQueue[i + 1]
PROOF
  <1>1. /\ promptQueue' \in Seq(Items) /\ Current \in Items
        /\ Len(promptQueue) \in Nat /\ Len(promptQueue) > 0
        /\ DOMAIN promptQueue = 1..Len(promptQueue) /\ DOMAIN promptQueue' = 1..Len(promptQueue) - 1
        /\ \A i \in 1..Len(promptQueue) - 1 : promptQueue'[i] = promptQueue[i + 1]
        /\ Current = promptQueue[1]
    BY DEF Current
  <1>2. \A i \in DOMAIN promptQueue' : i + 1 \in DOMAIN promptQueue /\ promptQueue'[i] = promptQueue[i + 1]
    BY <1>1
  <1>3. \A m : \A i \in PlacesOf(m)' : i \in Nat /\ i # 0 /\ i + 1 \in PlacesOf(m)
    BY <1>1, <1>2 DEF PlacesOf, Turn, Grounding
  <1>4. \A m : Current \in {Turn(m), Grounding(m)} => 1 \in PlacesOf(m)
    BY <1>1 DEF PlacesOf
  <1> QED
    BY <1>1, <1>2, <1>3, <1>4

\* Only the messages' stages and the head are ever changed by a step that leaves the
\* queue alone; it keeps the queue in order when no message in the queue goes on.
LEMMA OrderLeft ==
    ASSUME QueueInOrder, promptQueue' = promptQueue, shown' \in Seq(Messages),
           step' # "idle" => promptQueue # <<>>,
           \A m \in Messages : stage[m] = "queued" => stage'[m] = "queued"
    PROVE  QueueInOrder'
  BY QueueLeft DEF QueueInOrder

\* The head leaves the queue, and its sender may go on.
LEMMA OrderMovedOn ==
    ASSUME QueueInOrder, promptQueue # <<>>, promptQueue' = Tail(promptQueue), step' = "idle",
           shown' \in Seq(Messages),
           \A m \in Messages : Current \notin {Turn(m), Grounding(m)} => stage'[m] = stage[m]
    PROVE  QueueInOrder'
PROOF
  <1>1. /\ promptQueue' \in Seq(Items)
        /\ \A m : \A i \in PlacesOf(m)' : i \in Nat /\ i # 0 /\ i + 1 \in PlacesOf(m)
        /\ \A m : Current \in {Turn(m), Grounding(m)} => 1 \in PlacesOf(m)
    BY QueueMovedOn DEF QueueInOrder
  <1>2. \A m \in Messages : \A i, j \in PlacesOf(m)' : i = j
    BY <1>1 DEF QueueInOrder
  <1>3. ASSUME NEW m \in Messages, PlacesOf(m)' # {} PROVE stage'[m] = "queued"
    <2>1. PICK i \in PlacesOf(m)' : TRUE
      BY <1>3
    <2>2. 1 \notin PlacesOf(m)
      BY <1>1, <2>1 DEF QueueInOrder
    <2> QED
      BY <1>1, <2>1, <2>2 DEF QueueInOrder
  <1> QED
    BY <1>1, <1>2, <1>3 DEF QueueInOrder

\* What is shown are messages.
LEMMA ShownStep == PromptInv /\ [PromptNext]_promptVars => shown' \in Seq(Messages)
PROOF
  <1> SUFFICES ASSUME PromptInv, [PromptNext]_promptVars PROVE shown' \in Seq(Messages)
    OBVIOUS
  <1>1. shown \in Seq(Messages)
    BY DEF PromptInv, QueueInOrder
  <1>2. \A e : RemoveFirst(shown, e) \in Seq(Messages)
    BY <1>1, RemoveFirstIs
  <1>3. \A m : Withdraw(m) => shown' \in Seq(Messages)
    BY <1>2 DEF Withdraw
  <1>4. Unshown => shown' \in Seq(Messages)
    BY <1>1, <1>2 DEF Unshown
  <1>5. shown # <<>> => Tail(shown) \in Seq(Messages)
    BY <1>1
  <1>6. \A m : WithoutEntry(m) \in Seq(Messages)
    BY <1>1, <1>2, <1>5 DEF WithoutEntry
  <1>7. ASSUME NEW m \in Messages, Send(m) PROVE shown' \in Seq(Messages)
    <2>1. <<m>> \in Seq(Messages) /\ Append(shown, m) \in Seq(Messages)
      BY <1>1
    <2> QED
      BY <1>7, <2>1 DEF Send
  <1>8. ASSUME NEW m \in Messages, SaveFails(m) \/ Queue(m) PROVE shown' \in Seq(Messages)
    BY <1>1, <1>3, <1>8 DEF SaveFails, Queue
  <1>9. CASE PromptEnds \/ StatusFails
    BY <1>1, <1>3, <1>9 DEF PromptEnds, StatusFails
  <1>10. CASE Prepared \/ Answered \/ CallFails
    BY <1>1, <1>4, <1>10 DEF Prepared, Answered, CallFails
  <1>11. CASE Prompted
    BY <1>1, <1>6, <1>11 DEF Prompted
  <1>12. CASE Stop
    BY <1>12 DEF Stop
  <1>13. CASE shown' = shown
    BY <1>1, <1>13
  <1> QED
    BY <1>7, <1>8, <1>9, <1>10, <1>11, <1>12, <1>13
    DEF PromptNext, Prepares, Executes, Rebuilds, Saved, Aborted, StartPrompt, Reloaded, RefreshSettings,
        CredentialsChanged, QueueReload, TearDown, Rebuilt, RebuildFails, promptVars, chatVars

\* The queue stays in order.
LEMMA OrderStep == PromptInv /\ [PromptNext]_promptVars => QueueInOrder'
PROOF
  <1> SUFFICES ASSUME PromptInv, [PromptNext]_promptVars PROVE QueueInOrder'
    OBVIOUS
  <1>1. shown' \in Seq(Messages)
    BY ShownStep
  <1>2. QueueInOrder /\ PromptTypeOK
    BY DEF PromptInv
  <1>3. \A m \in Messages : \A x : [stage EXCEPT ![m] = x][m] = x
    BY <1>2 DEF PromptTypeOK
  <1>4. \A m, n : \A x : m # n => [stage EXCEPT ![m] = x][n] = stage[n]
    BY <1>2 DEF PromptTypeOK
  <1>5. ASSUME NEW m \in Messages, Send(m) \/ SaveFails(m) \/ Saved(m) \/ Aborted(m) PROVE QueueInOrder'
    <2>1. promptQueue' = promptQueue /\ step' = step /\ stage[m] # "queued"
      BY <1>5 DEF Send, SaveFails, Saved, Aborted
    <2>2. \E x : stage' = [stage EXCEPT ![m] = x]
      BY <1>5 DEF Send, SaveFails, Withdraw, Saved, Aborted
    <2>3. \A n \in Messages : n # m => stage'[n] = stage[n]
      BY <1>4, <2>2
    <2> QED
      BY <1>1, <1>2, <2>1, <2>3, OrderLeft DEF QueueInOrder
  <1>6. ASSUME NEW m \in Messages, Queue(m) PROVE QueueInOrder'
    <2>1. CASE Withdraw(m) /\ UNCHANGED promptQueue
      <3>1. /\ step' = step /\ stage[m] # "queued"
            /\ \A n \in Messages : n # m => stage'[n] = stage[n]
        BY <1>4, <1>6, <2>1 DEF Queue, Withdraw
      <3> QED
        BY <1>1, <1>2, <2>1, <3>1, OrderLeft DEF QueueInOrder
    <2>2. CASE \E it \in {Turn(m), Grounding(m)} : promptQueue' = Append(promptQueue, it) /\ stage' = [stage EXCEPT ![m] = "queued"]
      <3>1. PICK it \in {Turn(m), Grounding(m)} : promptQueue' = Append(promptQueue, it) /\ stage' = [stage EXCEPT ![m] = "queued"]
        BY <2>2
      <3>2. it \in Items /\ (\A n \in Messages : it \in {Turn(n), Grounding(n)} => n = m)
        BY <3>1, ItemsAre
      <3>3. stage[m] # "queued" /\ stage'[m] = "queued" /\ (\A n \in Messages : n # m => stage'[n] = stage[n])
        <4>1. stage[m] # "queued"
          BY <1>6 DEF Queue
        <4>2. stage' = [stage EXCEPT ![m] = "queued"]
          BY <3>1
        <4> QED
          BY <1>3, <1>4, <4>1, <4>2
      <3>4. PlacesOf(m) = {}
        BY <1>2, <3>3 DEF QueueInOrder
      <3>5. /\ promptQueue' \in Seq(Items) /\ promptQueue' # <<>>
            /\ \A n \in Messages : n # m => PlacesOf(n)' = PlacesOf(n)
            /\ PlacesOf(m)' = {Len(promptQueue) + 1}
        <4>1. promptQueue \in Seq(Items)
          BY <1>2 DEF QueueInOrder
        <4>2. /\ promptQueue' \in Seq(Items) /\ promptQueue' # <<>>
              /\ \A n : PlacesOf(n)' = PlacesOf(n) \cup (IF it \in {Turn(n), Grounding(n)} THEN {Len(promptQueue) + 1} ELSE {})
          BY <3>1, <3>2, <4>1, QueueJoined
        <4> QED
          BY <3>1, <3>2, <3>4, <4>2
      <3>6. \A n \in Messages : \A i, j \in PlacesOf(n)' : i = j
        BY <1>2, <3>5 DEF QueueInOrder
      <3>7. \A n \in Messages : PlacesOf(n)' # {} => stage'[n] = "queued"
        BY <1>2, <3>3, <3>5 DEF QueueInOrder
      <3> QED
        BY <1>1, <3>5, <3>6, <3>7 DEF QueueInOrder
    <2> QED
      BY <1>6, <2>1, <2>2 DEF Queue
  <1>7. CASE PromptEnds \/ StatusFails
    <2>1. promptQueue # <<>> /\ promptQueue' = Tail(promptQueue) /\ step' = "idle"
      BY <1>2, <1>7 DEF PromptEnds, StatusFails, QueueInOrder
    <2>2. \E x : stage' = [stage EXCEPT ![Current.of] = x]
      BY <1>7 DEF PromptEnds, StatusFails, Withdraw
    <2>3. Current \in Items
      BY <1>2, <2>1, QueueMovedOn DEF QueueInOrder
    <2>4. \A m \in Messages : Current \notin {Turn(m), Grounding(m)} => Current.of # m
      BY <2>3, ItemsAre, PromptsAssumption DEF Messages, NoMessage
    <2>5. \A m \in Messages : Current \notin {Turn(m), Grounding(m)} => stage'[m] = stage[m]
      BY <1>4, <2>2, <2>4
    <2> QED
      BY <1>1, <1>2, <2>1, <2>5, OrderMovedOn
  <1>8. CASE Reloaded
    <2>1. promptQueue # <<>> /\ promptQueue' = Tail(promptQueue) /\ step' = "idle" /\ stage' = stage
      BY <1>2, <1>8 DEF Reloaded, QueueInOrder
    <2> QED
      BY <1>1, <1>2, <2>1, OrderMovedOn
  <1>9. CASE QueueReload
    <2>1. /\ promptQueue' \in Seq(Items) /\ promptQueue' # <<>>
          /\ \A m \in Messages : PlacesOf(m)' = PlacesOf(m)
      <3>1. promptQueue \in Seq(Items) /\ promptQueue' = Append(promptQueue, Reload)
        BY <1>2, <1>9 DEF QueueInOrder, QueueReload
      <3>2. Reload \in Items /\ \A m \in Messages : Reload \notin {Turn(m), Grounding(m)}
        BY ItemsAre
      <3>3. /\ promptQueue' \in Seq(Items) /\ promptQueue' # <<>>
            /\ \A n : PlacesOf(n)' = PlacesOf(n) \cup (IF Reload \in {Turn(n), Grounding(n)} THEN {Len(promptQueue) + 1} ELSE {})
        BY <3>1, <3>2, QueueJoined
      <3> QED
        BY <3>2, <3>3
    <2>2. stage' = stage
      BY <1>9 DEF QueueReload
    <2> QED
      BY <1>1, <1>2, <2>1, <2>2 DEF QueueInOrder
  <1>10. CASE UNCHANGED <<promptQueue, stage>> /\ (step' # "idle" => promptQueue # <<>>)
    BY <1>1, <1>2, <1>10, OrderLeft
  <1>11. CASE StartPrompt
    BY <1>10, <1>11 DEF StartPrompt
  <1>12. CASE UNCHANGED <<promptQueue, stage>> /\ (step' = step \/ step # "idle")
    BY <1>2, <1>10, <1>12 DEF QueueInOrder
  <1> QED
    BY <1>5, <1>6, <1>7, <1>8, <1>9, <1>11, <1>12
    DEF PromptNext, Prepares, Executes, Rebuilds, Prepared, Prompted, Answered, CallFails, Stop, RefreshSettings,
        CredentialsChanged, TearDown, Rebuilt, RebuildFails, promptVars

\* The head is a message's prompt exactly where its kind says so.
LEMMA HeadIs ==
    ASSUME QueueInOrder, promptQueue # <<>>
    PROVE  /\ Current \in Items /\ 1 \in DOMAIN promptQueue /\ promptQueue[1] = Current
           /\ Current.kind = "turn" => Current.of \in Messages /\ Current = Turn(Current.of) /\ 1 \in PlacesOf(Current.of)
           /\ Current.kind = "ground" => Current.of \in Messages /\ Current = Grounding(Current.of)
PROOF
  <1>1. Current \in Items /\ 1 \in DOMAIN promptQueue /\ promptQueue[1] = Current
    BY DEF QueueInOrder, Current
  <1>2. Current = Reload \/ (Current.of \in Messages /\ Current \in {Turn(Current.of), Grounding(Current.of)})
    BY <1>1, ItemsAre
  <1>3. /\ Current.kind = "turn" => Current.of \in Messages /\ Current = Turn(Current.of)
        /\ Current.kind = "ground" => Current.of \in Messages /\ Current = Grounding(Current.of)
    BY <1>2, ItemsAre, "turn" # "ground", "turn" # "reload", "ground" # "reload"
  <1> QED
    BY <1>1, <1>3 DEF PlacesOf

\* What a stop finds waiting was accepted before it, and has no grounding to come.
LEMMA WaitingIs ==
    ASSUME PromptInv, NEW m \in Waiting
    PROVE  /\ m \in Messages /\ seen[m] <= stopSeq /\ stage[m] = "queued"
           /\ \A i \in DOMAIN promptQueue : promptQueue[i] # Grounding(m)
           /\ OnSession /\ Current.kind = "turn" => Current.of # m
PROOF
  <1>1. QueueInOrder /\ PromptTypeOK /\ stopSeq \in Nat
    BY DEF PromptInv, TurnedAwayIsSeen
  <1>2. PICK i \in DOMAIN promptQueue : promptQueue[i] = Turn(m) /\ (i = 1 => step \in {"idle", "preparing"})
    BY DEF Waiting
  <1>3. m \in Messages /\ i \in PlacesOf(m)
    BY <1>2 DEF Waiting, PlacesOf
  <1>4. seen[m] <= stopSeq
    BY <1>1, <1>3 DEF PromptTypeOK
  <1>5. stage[m] = "queued"
    BY <1>1, <1>3 DEF QueueInOrder
  <1>6. ASSUME NEW j \in DOMAIN promptQueue, promptQueue[j] = Grounding(m) PROVE FALSE
    <2>1. j \in PlacesOf(m)
      BY <1>6 DEF PlacesOf
    <2>2. i = j
      BY <1>1, <1>3, <2>1 DEF QueueInOrder
    <2> QED
      BY <1>2, <1>3, <1>6, <2>2, ItemsAre
  <1>7. ASSUME OnSession, Current.kind = "turn", Current.of = m PROVE FALSE
    <2>1. promptQueue # <<>>
      BY <1>1, <1>7 DEF OnSession, QueueInOrder
    <2>2. 1 \in PlacesOf(m)
      BY <1>1, <1>7, <2>1, HeadIs
    <2>3. i = 1
      BY <1>1, <1>3, <2>2 DEF QueueInOrder
    <2> QED
      BY <1>2, <1>7, <2>3 DEF OnSession
  <1> QED
    BY <1>3, <1>4, <1>5, <1>6, <1>7

\* What a step leaves alone of the messages that were turned away.
LEMMA SeenLeft ==
    ASSUME TurnedAwayIsSeen, UNCHANGED <<stopSeq, turnedAway>>,
           \A m \in turnedAway :
              /\ seen'[m] = seen[m]
              /\ stage'[m] \in {"queued", "done"}
              /\ \A i \in DOMAIN promptQueue' : promptQueue'[i] # Grounding(m)
    PROVE  TurnedAwayIsSeen'
  BY DEF TurnedAwayIsSeen, Grounding

\* A stop makes more of them.
LEMMA SeenStop ==
    ASSUME PromptInv, StopSession, UNCHANGED <<seen, promptQueue>>,
           \A m \in Messages : stage[m] \in {"queued", "done"} => stage'[m] = stage[m]
    PROVE  TurnedAwayIsSeen'
PROOF
  <1>1. TurnedAwayIsSeen /\ stopSeq \in Nat
    BY DEF PromptInv, TurnedAwayIsSeen
  <1>2. stopSeq' = stopSeq + 1 /\ turnedAway' = turnedAway \cup Waiting
    BY DEF StopSession
  <1>3. seen \in [Messages -> 0..stopSeq]
    BY DEF PromptInv, PromptTypeOK
  <1>4. \A m \in Messages : seen[m] \in Nat /\ seen[m] <= stopSeq
    BY <1>1, <1>3
  <1>5. \A m \in turnedAway' :
           /\ m \in Messages
           /\ stage[m] \in {"queued", "done"}
           /\ \A i \in DOMAIN promptQueue : promptQueue[i] # Grounding(m)
    BY <1>1, <1>2, WaitingIs DEF TurnedAwayIsSeen
  <1>6. \A m \in turnedAway' : seen'[m] < stopSeq'
    BY <1>1, <1>2, <1>4, <1>5
  <1> QED
    BY <1>1, <1>2, <1>5, <1>6 DEF TurnedAwayIsSeen, Grounding

\* The messages that were turned away are told by their number of stops.
LEMMA SeenStep == PromptInv /\ [PromptNext]_promptVars => TurnedAwayIsSeen'
PROOF
  <1> SUFFICES ASSUME PromptInv, [PromptNext]_promptVars PROVE TurnedAwayIsSeen'
    OBVIOUS
  <1>1. QueueInOrder /\ PromptTypeOK /\ TurnedAwayIsSeen
    BY DEF PromptInv
  <1>2. \A n \in Messages : n \in DOMAIN stage /\ n \in DOMAIN seen
    BY <1>1 DEF PromptTypeOK
  <1>3. \A n \in turnedAway :
           /\ n \in Messages /\ stage[n] \in {"queued", "done"}
           /\ \A i \in DOMAIN promptQueue : promptQueue[i] # Grounding(n)
    BY <1>1 DEF TurnedAwayIsSeen
  <1>4. ASSUME NEW m \in Messages, Saved(m), ask[m].mode = "steer" PROVE TurnedAwayIsSeen'
    <2>1. StopSession /\ UNCHANGED <<seen, promptQueue>> /\ stage[m] = "saving" /\ stage' = [stage EXCEPT ![m] = "aborting"]
      BY <1>4 DEF Saved
    <2>2. \A n \in Messages : stage[n] \in {"queued", "done"} => stage'[n] = stage[n]
      BY <1>2, <2>1
    <2> QED
      BY <2>1, <2>2, SeenStop
  <1>5. ASSUME NEW m \in Messages,
               Send(m) \/ SaveFails(m) \/ (Saved(m) /\ ask[m].mode # "steer") \/ Aborted(m)
        PROVE  TurnedAwayIsSeen'
    <2>1. UNCHANGED <<promptQueue, stopSeq, turnedAway>> /\ stage[m] \notin {"queued", "done"}
      BY <1>5 DEF Send, SaveFails, Saved, Aborted, stopVars
    <2>2. \E x : stage' = [stage EXCEPT ![m] = x]
      BY <1>5 DEF Send, SaveFails, Withdraw, Saved, Aborted
    <2>3. seen' = seen \/ \E x : seen' = [seen EXCEPT ![m] = x]
      BY <1>5 DEF Send, SaveFails, Saved, Aborted, stopVars
    <2>4. \A n \in turnedAway : n # m
      BY <1>3, <2>1
    <2>5. \A n \in turnedAway : stage'[n] = stage[n] /\ seen'[n] = seen[n]
      <3>1. \A n \in turnedAway : stage'[n] = stage[n]
        BY <1>2, <1>3, <2>2, <2>4, Elsewhere
      <3>2. \A n \in turnedAway : seen'[n] = seen[n]
        BY <1>2, <1>3, <2>3, <2>4, Elsewhere
      <3> QED
        BY <3>1, <3>2
    <2> QED
      BY <1>1, <1>3, <2>1, <2>5, SeenLeft
  <1>6. ASSUME NEW m \in Messages, Queue(m) PROVE TurnedAwayIsSeen'
    <2>1. UNCHANGED <<stopSeq, turnedAway>> /\ stage[m] \notin {"queued", "done"}
      BY <1>6 DEF Queue
    <2>2. \E x : stage' = [stage EXCEPT ![m] = x]
      BY <1>6 DEF Queue, Withdraw
    <2>3. seen' = seen \/ \E x : seen' = [seen EXCEPT ![m] = x]
      BY <1>6 DEF Queue
    <2>4. \A n \in turnedAway : n # m
      BY <1>3, <2>1
    <2>5. \A n \in turnedAway : stage'[n] = stage[n] /\ seen'[n] = seen[n]
      <3>1. \A n \in turnedAway : stage'[n] = stage[n]
        BY <1>2, <1>3, <2>2, <2>4, Elsewhere
      <3>2. \A n \in turnedAway : seen'[n] = seen[n]
        BY <1>2, <1>3, <2>3, <2>4, Elsewhere
      <3> QED
        BY <3>1, <3>2
    <2>6. promptQueue' = promptQueue \/ \E it \in {Turn(m), Grounding(m)} : promptQueue' = Append(promptQueue, it)
      BY <1>6 DEF Queue
    <2>7. ASSUME NEW it \in {Turn(m), Grounding(m)}, promptQueue' = Append(promptQueue, it), NEW n \in turnedAway, NEW i \in DOMAIN promptQueue'
          PROVE  promptQueue'[i] # Grounding(n)
      <3>1. it \in Items /\ it # Grounding(n)
        BY <1>3, <2>4, ItemsAre
      <3>2. promptQueue'[i] = it \/ (i \in DOMAIN promptQueue /\ promptQueue'[i] = promptQueue[i])
        BY <1>1, <2>7, <3>1, QueueJoined DEF QueueInOrder
      <3> QED
        BY <1>3, <3>1, <3>2
    <2>8. \A n \in turnedAway : \A i \in DOMAIN promptQueue' : promptQueue'[i] # Grounding(n)
      BY <1>3, <2>6, <2>7
    <2> QED
      BY <1>1, <1>3, <2>1, <2>5, <2>8, SeenLeft
  <1>7. ASSUME promptQueue # <<>>, promptQueue' = Tail(promptQueue), NEW n \in turnedAway, NEW i \in DOMAIN promptQueue'
        PROVE  promptQueue'[i] # Grounding(n)
    <2>1. i + 1 \in DOMAIN promptQueue /\ promptQueue'[i] = promptQueue[i + 1]
      BY <1>1, <1>7, QueueMovedOn DEF QueueInOrder
    <2> QED
      BY <1>3, <2>1
  <1>8. CASE PromptEnds \/ StatusFails
    <2>1. /\ promptQueue # <<>> /\ promptQueue' = Tail(promptQueue)
          /\ UNCHANGED <<stopSeq, turnedAway, seen>>
      BY <1>1, <1>8 DEF PromptEnds, StatusFails, QueueInOrder, stopVars
    <2>2. \/ stage' = [stage EXCEPT ![Current.of] = "done"]
          \/ stage' = [stage EXCEPT ![Current.of] = "turn"] /\ Current.kind = "ground"
      BY <1>8 DEF PromptEnds, StatusFails, Withdraw
    <2>3. \A n \in Messages : [stage EXCEPT ![n] = "done"][n] = "done"
      BY <1>1 DEF PromptTypeOK
    <2>4. Current.kind = "ground" => Current.of \notin turnedAway
      <3>1. /\ 1 \in DOMAIN promptQueue /\ promptQueue[1] = Current
            /\ Current.kind = "ground" => Current = Grounding(Current.of)
        BY <1>1, <2>1, HeadIs
      <3> QED
        BY <1>3, <3>1
    <2>5. ASSUME NEW n \in turnedAway PROVE stage'[n] \in {"queued", "done"}
      <3>1. CASE n = Current.of
        BY <1>3, <2>2, <2>3, <2>4, <3>1
      <3>2. CASE n # Current.of
        <4>1. stage'[n] = stage[n]
          BY <1>2, <1>3, <2>2, <3>2, Elsewhere
        <4> QED
          BY <1>3, <4>1
      <3> QED
        BY <3>1, <3>2
    <2> QED
      BY <1>1, <1>7, <2>1, <2>5, SeenLeft
  <1>9. CASE Reloaded
    <2>1. /\ promptQueue # <<>> /\ promptQueue' = Tail(promptQueue)
          /\ UNCHANGED <<stage, stopSeq, turnedAway, seen>>
      BY <1>1, <1>9 DEF Reloaded, QueueInOrder, stopVars
    <2> QED
      BY <1>1, <1>3, <1>7, <2>1, SeenLeft
  <1>10. CASE QueueReload
    <2>1. promptQueue' = Append(promptQueue, Reload) /\ UNCHANGED <<stage, stopSeq, turnedAway, seen>>
      BY <1>10 DEF QueueReload, stopVars
    <2>2. ASSUME NEW n \in turnedAway, NEW i \in DOMAIN promptQueue' PROVE promptQueue'[i] # Grounding(n)
      <3>1. Reload \in Items /\ Reload # Grounding(n)
        BY <1>3, ItemsAre
      <3>2. promptQueue'[i] = Reload \/ (i \in DOMAIN promptQueue /\ promptQueue'[i] = promptQueue[i])
        BY <1>1, <2>1, <3>1, QueueJoined DEF QueueInOrder
      <3> QED
        BY <1>3, <3>1, <3>2
    <2> QED
      BY <1>1, <1>3, <2>1, <2>2, SeenLeft
  <1>11. CASE Stop
    <2>1. StopSession /\ UNCHANGED <<seen, promptQueue, stage>>
      BY <1>11 DEF Stop
    <2> QED
      BY <2>1, SeenStop
  <1>12. CASE UNCHANGED <<promptQueue, stage, stopVars>>
    BY <1>1, <1>3, <1>12, SeenLeft DEF stopVars
  <1> QED
    BY <1>4, <1>5, <1>6, <1>8, <1>9, <1>10, <1>11, <1>12
    DEF PromptNext, Prepares, Executes, Rebuilds, StartPrompt, Prepared, Prompted, Answered, CallFails, RefreshSettings,
        CredentialsChanged, TearDown, Rebuilt, RebuildFails, promptVars

\* A message that was turned away is not let on the session.
LEMMA OutStep == PromptInv /\ [PromptNext]_promptVars => TurnedAwayStaysOut'
PROOF
  <1> SUFFICES ASSUME PromptInv, [PromptNext]_promptVars PROVE TurnedAwayStaysOut'
    OBVIOUS
  <1>1. QueueInOrder /\ PromptTypeOK /\ TurnedAwayIsSeen /\ TurnedAwayStaysOut
    BY DEF PromptInv
  <1>2. OnSession => promptQueue # <<>>
    BY <1>1 DEF OnSession, QueueInOrder
  <1>3. CASE UNCHANGED <<step, turnedAway>> /\ (promptQueue # <<>> => Current' = Current)
    BY <1>1, <1>2, <1>3 DEF TurnedAwayStaysOut, OnSession
  <1>4. CASE StopSession /\ UNCHANGED <<step, promptQueue>>
    <2>1. Current' = Current /\ (OnSession' <=> OnSession) /\ turnedAway' = turnedAway \cup Waiting
      BY <1>4, QueueLeft DEF OnSession, StopSession
    <2>2. OnSession /\ Current.kind = "turn" => Current.of \notin Waiting
      BY WaitingIs
    <2> QED
      BY <1>1, <2>1, <2>2 DEF TurnedAwayStaysOut
  <1>5. CASE step' \notin {"loading", "running"}
    BY <1>5 DEF TurnedAwayStaysOut, OnSession
  <1>6. CASE Prepared /\ step' = "loading"
    <2>1. /\ promptQueue # <<>> /\ UNCHANGED <<promptQueue, turnedAway>>
          /\ ~(Current.kind = "turn" /\ Blocked(Current.of))
      BY <1>1, <1>6 DEF Prepared, QueueInOrder, stopVars
    <2>2. Current' = Current
      BY <2>1, QueueLeft
    <2>3. ASSUME Current.kind = "turn", Current.of \in turnedAway PROVE FALSE
      BY <1>1, <2>1, <2>3, HeadIs DEF Blocked, TurnedAwayIsSeen
    <2> QED
      BY <2>1, <2>2, <2>3 DEF TurnedAwayStaysOut
  <1>7. CASE Prompted
    <2>1. OnSession /\ UNCHANGED <<promptQueue, turnedAway>>
      BY <1>7 DEF Prompted, OnSession, stopVars
    <2> QED
      BY <1>1, <2>1, QueueLeft DEF TurnedAwayStaysOut
  <1>8. CASE QueueReload
    <2>1. UNCHANGED <<step, turnedAway>> /\ promptQueue' = Append(promptQueue, Reload)
      BY <1>8 DEF QueueReload, stopVars
    <2> QED
      BY <1>1, <1>3, <2>1, QueueJoined, ItemsAre DEF QueueInOrder
  <1>9. ASSUME NEW m \in Messages, Queue(m) PROVE TurnedAwayStaysOut'
    <2>1. UNCHANGED <<step, turnedAway>>
      BY <1>9 DEF Queue
    <2>2. promptQueue' = promptQueue \/ \E it \in {Turn(m), Grounding(m)} : promptQueue' = Append(promptQueue, it)
      BY <1>9 DEF Queue
    <2>3. {Turn(m), Grounding(m)} \subseteq Items
      BY ItemsAre
    <2>4. promptQueue # <<>> => Current' = Current
      BY <1>1, <2>2, <2>3, QueueJoined, QueueLeft DEF QueueInOrder
    <2> QED
      BY <1>3, <2>1, <2>4
  <1>10. ASSUME NEW m \in Messages, Send(m) \/ SaveFails(m) \/ Saved(m) \/ Aborted(m) PROVE TurnedAwayStaysOut'
    <2>1. UNCHANGED <<step, promptQueue>> /\ (StopSession \/ turnedAway' = turnedAway)
      BY <1>10 DEF Send, SaveFails, Saved, Aborted, stopVars
    <2> QED
      BY <1>3, <1>4, <2>1, QueueLeft
  <1>11. CASE Stop
    BY <1>4, <1>11 DEF Stop
  <1>12. CASE UNCHANGED <<promptQueue, step, stopVars>>
    BY <1>3, <1>12, QueueLeft DEF stopVars
  <1>13. CASE StartPrompt \/ Reloaded \/ Answered \/ CallFails \/ PromptEnds \/ StatusFails \/ (Prepared /\ step' # "loading")
    BY <1>5, <1>13 DEF StartPrompt, Reloaded, Answered, CallFails, PromptEnds, StatusFails, Prepared
  <1> QED
    BY <1>6, <1>7, <1>8, <1>9, <1>10, <1>11, <1>12, <1>13
    DEF PromptNext, Prepares, Executes, Rebuilds, RefreshSettings,
        CredentialsChanged, TearDown, Rebuilt, RebuildFails, promptVars

\* The chat's variables keep their types.
LEMMA PromptTypeStep == PromptInv /\ [PromptNext]_promptVars => PromptTypeOK'
PROOF
  <1> SUFFICES ASSUME PromptInv, [PromptNext]_promptVars PROVE PromptTypeOK'
    OBVIOUS
  <1>1. PromptTypeOK /\ stopSeq \in Nat
    BY DEF PromptInv, TurnedAwayIsSeen
  <1>2. ToSet(promptQueue)' \subseteq Items /\ ToSet(shown)' \subseteq Messages
    BY OrderStep DEF QueueInOrder, ToSet
  <1>3. ask' \in [Messages -> [mode : Modes, names : BOOLEAN]]
    <2>1. ASSUME NEW m \in Messages, Send(m) PROVE ask' \in [Messages -> [mode : Modes, names : BOOLEAN]]
      <3>1. PICK mode \in Modes, names \in BOOLEAN : ask' = [ask EXCEPT ![m] = [mode |-> mode, names |-> names]]
        BY <2>1 DEF Send
      <3>2. [mode |-> mode, names |-> names] \in [mode : Modes, names : BOOLEAN]
        OBVIOUS
      <3> QED
        BY <1>1, <3>1, <3>2 DEF PromptTypeOK
    <2>2. CASE ask' = ask
      BY <1>1, <2>2 DEF PromptTypeOK
    <2> QED
      BY <2>1, <2>2
      DEF PromptNext, Prepares, Executes, Rebuilds, SaveFails, Saved, Aborted, Queue, StartPrompt, Reloaded, Prepared,
          Prompted, Answered, CallFails, PromptEnds, StatusFails, Stop, RefreshSettings, CredentialsChanged, QueueReload,
          TearDown, Rebuilt, RebuildFails, promptVars
  <1>4. stage' \in [Messages -> {"unsent", "saving", "aborting", "ground", "turn", "queued", "done"}]
    <2>1. stage' = stage \/ \E m, x : /\ stage' = [stage EXCEPT ![m] = x]
                                     /\ x \in {"unsent", "saving", "aborting", "ground", "turn", "queued", "done"}
      BY DEF PromptNext, Prepares, Executes, Rebuilds, Send, SaveFails, Withdraw, FirstPrompt, Saved, Aborted, Queue,
          StartPrompt, Reloaded, Prepared, Prompted, Answered, CallFails, PromptEnds, StatusFails, Stop, RefreshSettings,
          CredentialsChanged, QueueReload, TearDown, Rebuilt, RebuildFails, promptVars
    <2> QED
      BY <1>1, <2>1 DEF PromptTypeOK
  <1>5. step' \in {"idle", "preparing", "reloading", "loading", "running", "answered", "failed"}
    BY <1>1 DEF PromptTypeOK, PromptNext, Prepares, Executes, Rebuilds, Send, SaveFails, Saved, Aborted, Queue,
        StartPrompt, Reloaded, Prepared, Prompted, Answered, CallFails, PromptEnds, StatusFails, Stop, RefreshSettings,
        CredentialsChanged, QueueReload, TearDown, Rebuilt, RebuildFails, promptVars
  <1>6. guard' \in Messages \cup {NoMessage}
    BY <1>1 DEF PromptTypeOK, PromptNext, Prepares, Executes, Rebuilds, Send, SaveFails, Withdraw, Saved, Aborted, Queue,
        StartPrompt, Reloaded, Prepared, Prompted, Answered, CallFails, PromptEnds, StatusFails, Stop, RefreshSettings,
        CredentialsChanged, QueueReload, TearDown, Rebuilt, RebuildFails, promptVars
  <1>7. seen' \in [Messages -> 0..stopSeq']
    <2>1. ASSUME NEW m \in Messages, Aborted(m) \/ Queue(m) PROVE seen' \in [Messages -> 0..stopSeq']
      <3>1. stopSeq' = stopSeq /\ (seen' = seen \/ seen' = [seen EXCEPT ![m] = stopSeq])
        <4>1. ask[m].mode = "steer" => [seen EXCEPT ![m] = IF ask[m].mode = "steer" THEN @ ELSE stopSeq] = seen
          BY <1>1 DEF PromptTypeOK
        <4> QED
          BY <2>1, <4>1 DEF Aborted, Queue
      <3> QED
        BY <1>1, <3>1 DEF PromptTypeOK
    <2>2. CASE seen' = seen /\ stopSeq' \in {stopSeq, stopSeq + 1}
      BY <1>1, <2>2 DEF PromptTypeOK
    <2> QED
      BY <2>1, <2>2
      DEF PromptNext, Prepares, Executes, Rebuilds, Send, SaveFails, Saved, StopSession, StartPrompt, Reloaded, Prepared,
          Prompted, Answered, CallFails, PromptEnds, StatusFails, Stop, RefreshSettings, CredentialsChanged, QueueReload,
          TearDown, Rebuilt, RebuildFails, promptVars, stopVars
  <1>8. session' \in {"ready", "building", "gone"} /\ replacing' \in {"nobody", "settings", "status", "prompt"}
    BY <1>1 DEF PromptTypeOK, PromptNext, Prepares, Executes, Rebuilds, Send, SaveFails, Saved, Aborted, Queue,
        StartPrompt, Reloaded, Prepared, Prompted, Answered, CallFails, PromptEnds, StatusFails, Stop, RefreshSettings,
        CredentialsChanged, QueueReload, TearDown, Rebuilt, RebuildFails, promptVars, buildVars
  <1> QED
    BY <1>2, <1>3, <1>4, <1>5, <1>6, <1>7, <1>8 DEF PromptTypeOK, Items, Messages, Turn, Grounding

\* No step of a prompt breaks it.
LEMMA PromptStep == PromptInv /\ [PromptNext]_promptVars => PromptInv'
  BY OrderStep, SeenStep, OutStep, PromptTypeStep DEF PromptInv

\* A message that a stop or a steer found waiting never reaches the session, for any
\* number of messages, stops, steers, failures and replacements of the session.
THEOREM TurnedAwayIsKeptOut == PromptSpec => []TurnedAwayStaysOut
PROOF
  <1>1. PromptInv => TurnedAwayStaysOut
    BY DEF PromptInv
  <1> QED
    BY <1>1, PromptInitInv, PromptStep, PTL DEF PromptSpec

-----------------------------------------------------------------------------
(* The automation of a session.                                            *)

Runs  == [slot : Slots, at : Nat] \cup {NoSlot}
Autos == [id : 0..MaxEdits, enabled : BOOLEAN, next : Runs, run : Runs, last : Runs, fired : SUBSET Slots]

\* The kinds whose slots name their day.
Dated == {"weekly", "window"}

\* Ids are given out once: the automation in memory, the saved one, the one an edit would
\* restore and those of runs under way have ids of the past; without an id there is none.
IdIsOfThePast(a) == a.id <= edits /\ (a.id = 0 => a = NoAuto)

IdsAreOfThePast ==
    /\ IdIsOfThePast(auto) /\ IdIsOfThePast(autoFile)
    /\ \A before \in undo : IdIsOfThePast(before)
    /\ claimed # NoClaim => claimed.auto \in 1..edits /\ claimed.run # NoSlot
    /\ \A d \in dispatched : d.auto \in 1..edits /\ d.run # NoSlot

\* The automation knows the one run of it that is under way, claimed or dispatched; and
\* so does the one that an edit would restore.
OneRunUnderWay ==
    /\ claimed # NoClaim /\ claimed.auto = auto.id => auto.run = claimed.run
    /\ \A d \in dispatched : d.auto = auto.id =>
          auto.run = d.run /\ (claimed = NoClaim \/ claimed.auto # auto.id)
    /\ \A before \in undo, d \in dispatched : d.auto = before.id => before.run = d.run

AutoShapeOK ==
    /\ schedule \in Kinds
    /\ now \in 0..MaxTime /\ zone \in 0..MaxLag /\ edits \in 0..MaxEdits
    /\ auto \in Autos /\ autoFile \in Autos /\ undo \subseteq Autos
    /\ claimed \in [auto : Nat, run : Runs]
    /\ dispatched \subseteq [auto : Nat, run : Runs]

RunsInv == AutoShapeOK /\ IdsAreOfThePast /\ OneRunUnderWay

\* The last slot an automation knows to have fired, or to be about to.
LastKnown(a) == IF a.run # NoSlot THEN a.run.slot ELSE a.last.slot

\* No slot that fired lies ahead of what the automation, in memory, saved or to be restored, knows;
\* its next run, looked at when none is under way, is of a slot after those.
KnowsWhatFired(a) ==
    a.id # 0 =>
        /\ schedule \in Dated => \A s \in a.fired : s <= LastKnown(a)
        /\ a.enabled /\ a.next # NoSlot /\ a.run = NoSlot => \A s \in a.fired : s < a.next.slot

\* An interval knows no zone: its slots are by their times.
IntervalIsTimes(a) ==
    schedule = "interval" =>
        /\ a.next # NoSlot => a.next.at = a.next.slot * DayLength
        /\ \A s \in a.fired : s * DayLength <= now

Knowing == {a \in Autos : KnowsWhatFired(a) /\ IntervalIsTimes(a)}

ClaimIsNew ==
    claimed # NoClaim =>
        /\ claimed.auto = auto.id => \A s \in auto.fired : s < claimed.run.slot
        /\ schedule = "interval" => claimed.run.slot * DayLength <= now

FiringInv ==
    /\ {auto, autoFile} \cup undo \subseteq Knowing
    /\ ClaimIsNew
    /\ SlotFiresOnce

\* Where the kinds differ.
LEMMA DatedAre == "once" \notin Dated /\ "daily" \notin Dated /\ "interval" \notin Dated
  BY DEF Dated

\* The bounds and the times are numbers.
LEMMA AutomationNumbers ==
    /\ MaxSlot \in Nat /\ MaxSlot # 0 /\ DayLength \in Nat /\ DayLength # 0
    /\ MaxLag \in Nat /\ MaxTime \in Nat /\ MaxEdits \in Nat /\ MaxAutoFaults \in Nat
    /\ Slots \subseteq 1..MaxSlot /\ Slots \subseteq Nat /\ 0 \notin Slots
PROOF
  <1>1. /\ MaxSlot \in Nat /\ MaxSlot # 0 /\ DayLength \in Nat /\ DayLength # 0
        /\ MaxLag \in Nat /\ MaxTime \in Nat /\ MaxEdits \in Nat /\ MaxAutoFaults \in Nat
    BY AutomationsAssumption
  <1>2. Slots \subseteq 1..MaxSlot
    BY <1>1 DEF Slots
  <1> QED
    BY <1>1, <1>2

\* Slots follow each other by their times.
LEMMA SlotTimes ==
    ASSUME NEW s \in Nat, NEW t \in Nat
    PROVE  s * DayLength \in Nat /\ (s * DayLength < t * DayLength => s < t)
PROOF
  <1>1. DayLength \in Nat
    BY AutomationNumbers
  <1>2. \A k \in Nat : (t + k) * DayLength = t * DayLength + k * DayLength /\ k * DayLength \in Nat
    BY <1>1
  <1>3. ASSUME t <= s PROVE t * DayLength <= s * DayLength
    <2>1. s - t \in Nat /\ s = t + (s - t)
      BY <1>3
    <2>2. s * DayLength = t * DayLength + (s - t) * DayLength /\ (s - t) * DayLength \in Nat
      BY <1>2, <2>1
    <2>3. t * DayLength \in Nat /\ s * DayLength \in Nat
      BY <1>1
    <2> QED
      BY <2>2, <2>3
  <1>4. t * DayLength \in Nat /\ s * DayLength \in Nat
    BY <1>1
  <1> QED
    BY <1>3, <1>4

\* The time of a slot is a number, and for an interval a multiple of its length.
LEMMA AtIs ==
    ASSUME NEW s \in Nat, NEW z \in Nat
    PROVE  At(s, z) \in Nat /\ (schedule = "interval" => At(s, z) = s * DayLength)
PROOF
  <1>1. s * DayLength \in Nat
    BY SlotTimes
  <1> QED
    BY <1>1 DEF At

\* What no run under way looks like.
LEMMA NoSlotIs == NoSlot \in Runs /\ NoSlot.slot = 0 /\ NoSlot.at = 0
  BY DEF Runs, NoSlot

\* A claimed run is of a slot.
LEMMA RunIs ==
    ASSUME NEW r \in Runs, r # NoSlot
    PROVE  r.slot \in Slots /\ r.slot \in Nat /\ r.slot > 0 /\ r.at \in Nat
PROOF
  <1>1. r.slot \in Slots /\ r.at \in Nat
    BY DEF Runs
  <1>2. \A x \in Slots : x \in Nat /\ x > 0
    BY AutomationNumbers
  <1> QED
    BY <1>1, <1>2

\* The earliest of some slots is one of them, at its time.
LEMMA EarliestIs ==
    ASSUME NEW S \in SUBSET Slots, NEW z \in Nat
    PROVE  /\ Earliest(S, z) \in Runs
           /\ S = {} => Earliest(S, z) = NoSlot
           /\ S # {} => /\ Earliest(S, z) # NoSlot
                        /\ Earliest(S, z).slot \in S
                        /\ Earliest(S, z).at = At(Earliest(S, z).slot, z)
PROOF
  <1>1. CASE S = {}
    BY <1>1, NoSlotIs DEF Earliest
  <1>2. CASE S # {}
    <2> DEFINE m == Min(S)
    <2>1. m \in S /\ m \in Nat /\ m # 0 /\ m \in Slots
      BY <1>2, MinIs, AutomationNumbers
    <2>2. At(m, z) \in Nat
      BY <2>1, AtIs
    <2>3. Earliest(S, z) = [slot |-> m, at |-> At(m, z)]
      BY <1>2 DEF Earliest
    <2> HIDE DEF m
    <2>4. Earliest(S, z).slot = m /\ Earliest(S, z).at = At(m, z)
      BY <2>3
    <2>5. Earliest(S, z) # NoSlot
      BY <2>1, <2>4, NoSlotIs
    <2>6. Earliest(S, z) \in Runs
      BY <2>1, <2>2, <2>3 DEF Runs
    <2> QED
      BY <1>2, <2>1, <2>4, <2>5, <2>6
  <1> QED
    BY <1>1, <1>2

\* The next run after a moment, and of an interval its time.
LEMMA NextAfterIs ==
    ASSUME NEW t \in Nat, NEW z \in Nat
    PROVE  /\ NextAfter(t, z) \in Runs
           /\ schedule = "interval" /\ NextAfter(t, z) # NoSlot =>
                 NextAfter(t, z).at = NextAfter(t, z).slot * DayLength /\ NextAfter(t, z).at > t
PROOF
  <1> DEFINE S == {s \in Slots : At(s, z) > t}
             r == NextAfter(t, z)
  <1>1. r = Earliest(S, z) /\ S \in SUBSET Slots
    BY DEF NextAfter
  <1>2. \A s \in S : s \in Slots /\ At(s, z) > t
    OBVIOUS
  <1> HIDE DEF S, r
  <1>3. /\ r \in Runs
        /\ S # {} => r.slot \in S /\ r.at = At(r.slot, z)
        /\ S = {} => r = NoSlot
    BY <1>1, EarliestIs
  <1>4. ASSUME schedule = "interval", r # NoSlot PROVE r.at = r.slot * DayLength /\ r.at > t
    <2>1. r.slot \in S /\ r.at = At(r.slot, z)
      BY <1>3, <1>4
    <2>2. r.slot \in Nat
      BY <1>2, <2>1, AutomationNumbers
    <2> QED
      BY <1>2, <1>4, <2>1, <2>2, AtIs
  <1> QED
    BY <1>3, <1>4 DEF r

\* A dated schedule goes on after the slot that fired last, in every zone.
LEMMA NextAfterLastIs ==
    ASSUME NEW t \in Nat, NEW z \in Nat, NEW last \in Runs
    PROVE  /\ NextAfterLast(t, z, last) \in Runs
           /\ schedule \in Dated /\ NextAfterLast(t, z, last) # NoSlot => NextAfterLast(t, z, last).slot > last.slot
PROOF
  <1> DEFINE r == NextAfterLast(t, z, last)
  <1>1. CASE last = NoSlot \/ schedule \in {"once", "interval"}
    <2>1. r = NextAfter(t, z) /\ r \in Runs
      BY <1>1, NextAfterIs DEF NextAfterLast
    <2>2. ASSUME schedule \in Dated, r # NoSlot PROVE r.slot > last.slot
      BY <1>1, <2>1, <2>2, RunIs, NoSlotIs, DatedAre
    <2> QED
      BY <2>1, <2>2
  <1>2. CASE ~(last = NoSlot \/ schedule \in {"once", "interval"})
    <2> DEFINE day == IF schedule = "daily" THEN (last.at - z) \div DayLength ELSE last.slot
               S == {s \in Slots : At(s, z) > t /\ s > day}
    <2>1. r = Earliest(S, z) /\ S \in SUBSET Slots
      BY <1>2 DEF NextAfterLast
    <2>2. \A s \in S : s > day
      OBVIOUS
    <2>3. schedule \in Dated => day = last.slot
      BY DatedAre
    <2> HIDE DEF S, r, day
    <2>4. r \in Runs /\ (S # {} => r.slot \in S) /\ (S = {} => r = NoSlot)
      BY <2>1, EarliestIs
    <2> QED
      BY <2>2, <2>3, <2>4 DEF r
  <1> QED
    BY <1>1, <1>2

\* What the fields of an automation are.
LEMMA FieldsOf ==
    ASSUME NEW a \in Autos
    PROVE  /\ a.id \in Nat /\ a.enabled \in BOOLEAN /\ a.next \in Runs /\ a.run \in Runs /\ a.last \in Runs
           /\ a.fired \subseteq Slots
PROOF
  <1>1. a.enabled \in BOOLEAN /\ a.next \in Runs /\ a.run \in Runs /\ a.last \in Runs /\ a.fired \subseteq Slots
    BY DEF Autos
  <1>2. a.id \in Nat
    BY AutomationNumbers DEF Autos
  <1> QED
    BY <1>1, <1>2

\* A run of the automation settles: what is known to have fired stays known.
LEMMA SettledIs ==
    ASSUME NEW a \in Autos, NEW run \in Runs, NEW id, now \in Nat, zone \in Nat
    PROVE  LET b == SettledBy(a, id, run)
           IN  /\ b \in Autos /\ b.id = a.id /\ (b.enabled <=> a.enabled) /\ b.fired = a.fired
               /\ a.id # id \/ a.run # run => b = a
               /\ a.id = id /\ a.run = run =>
                     /\ b.run = NoSlot /\ b.last = run
                     /\ schedule \in Dated /\ b.enabled /\ b.next # NoSlot => b.next.slot > run.slot
                     /\ schedule = "interval" /\ (a.next # NoSlot => a.next.at = a.next.slot * DayLength) =>
                           (b.next # NoSlot =>
                               b.next.at = b.next.slot * DayLength /\ (b.enabled => b.next.at > now))
PROOF
  <1> DEFINE b == SettledBy(a, id, run)
  <1>1. CASE ~(a.id = id /\ a.run = run)
    BY <1>1 DEF SettledBy
  <1>2. CASE a.id = id /\ a.run = run
    <2> DEFINE next == IF ~a.enabled THEN a.next
                       ELSE IF schedule # "interval" THEN NextAfterLast(now, zone, run)
                       ELSE IF a.next = NoSlot \/ a.next.at <= now THEN NextAfter(now, zone) ELSE a.next
    <2>1. b = [a EXCEPT !.last = run, !.run = NoSlot, !.next = next]
      BY <1>2 DEF SettledBy
    <2>2. next \in Runs
      BY FieldsOf, NextAfterIs, NextAfterLastIs
    <2>3. schedule \in Dated /\ a.enabled /\ next # NoSlot => next.slot > run.slot
      BY NextAfterLastIs, DatedAre
    <2>4. schedule = "interval" /\ (a.next # NoSlot => a.next.at = a.next.slot * DayLength) =>
             (next # NoSlot => next.at = next.slot * DayLength /\ (a.enabled => next.at > now))
      <3>1. CASE ~a.enabled
        BY <3>1
      <3>2. CASE a.enabled /\ schedule = "interval" /\ ~(a.next = NoSlot \/ a.next.at <= now)
        <4>1. a.next.at \in Nat
          BY <3>2, FieldsOf, RunIs
        <4> QED
          BY <3>2, <4>1
      <3>3. CASE a.enabled /\ schedule = "interval" /\ (a.next = NoSlot \/ a.next.at <= now)
        BY <3>3, NextAfterIs
      <3> QED
        BY <3>1, <3>2, <3>3
    <2> HIDE DEF next
    <2> HIDE DEF b
    <2>5. b.enabled = a.enabled
      BY <2>1 DEF Autos
    <2>6. b \in Autos
      BY <2>1, <2>2, NoSlotIs DEF Autos
    <2>7. b.id = a.id /\ b.next = next /\ b.run = NoSlot /\ b.last = run /\ b.fired = a.fired
      BY <2>1 DEF Autos
    <2> QED
      BY <1>2, <2>3, <2>4, <2>5, <2>6, <2>7 DEF b
  <1> QED
    BY <1>1, <1>2

\* The saved automation is looked through after a restart: a run that was under way,
\* or due, is the last one now.
LEMMA ReconciledIs ==
    ASSUME NEW a \in Autos, now \in Nat, zone \in Nat
    PROVE  LET b == Reconciled(a)
           IN  /\ b \in Autos /\ b.id = a.id /\ (b.enabled <=> a.enabled) /\ b.fired = a.fired
               /\ b.run = NoSlot
               /\ b.last \in {a.run, a.next, a.last}
               /\ a.run # NoSlot => b.last = a.run
               /\ a.run = NoSlot => b.last = a.last \/ (b.last = a.next /\ a.enabled /\ a.next # NoSlot)
               /\ ~a.enabled => b.next = NoSlot
               /\ schedule \in Dated /\ b.next # NoSlot => b.next.slot > b.last.slot
               /\ schedule = "interval" /\ (a.next # NoSlot => a.next.at = a.next.slot * DayLength) =>
                     (b.next # NoSlot => b.next.at = b.next.slot * DayLength /\ b.next.at > now)
PROOF
  <1> DEFINE interrupted == a.run # NoSlot
             missed == a.enabled /\ ~interrupted /\ a.next # NoSlot /\ a.next.at <= now
             last == IF interrupted THEN a.run ELSE IF missed THEN a.next ELSE a.last
             over == schedule # "once" /\ PastEnd(now + 1, zone)
             next == IF ~a.enabled \/ over THEN NoSlot
                     ELSE IF schedule # "interval" THEN NextAfterLast(now, zone, last)
                     ELSE IF a.next = NoSlot \/ a.next.at <= now THEN NextAfter(now, zone) ELSE a.next
             b == Reconciled(a)
  <1>1. b = [a EXCEPT !.run = NoSlot, !.last = last, !.next = next]
    BY DEF Reconciled
  <1>2. /\ last \in {a.run, a.next, a.last}
        /\ a.run # NoSlot => last = a.run
        /\ a.run = NoSlot => last = a.last \/ (last = a.next /\ a.enabled /\ a.next # NoSlot)
    OBVIOUS
  <1>3. last \in Runs
    BY FieldsOf
  <1> HIDE DEF last, over
  <1>4. next \in Runs
    BY <1>3, FieldsOf, NextAfterIs, NextAfterLastIs, NoSlotIs
  <1>5. ~a.enabled => next = NoSlot
    OBVIOUS
  <1>6. schedule \in Dated /\ next # NoSlot => next.slot > last.slot
    BY <1>3, NextAfterLastIs, DatedAre
  <1>7. schedule = "interval" /\ (a.next # NoSlot => a.next.at = a.next.slot * DayLength) =>
           (next # NoSlot => next.at = next.slot * DayLength /\ next.at > now)
    <2>1. CASE ~a.enabled \/ over
      BY <2>1
    <2>2. CASE ~(~a.enabled \/ over) /\ schedule = "interval" /\ ~(a.next = NoSlot \/ a.next.at <= now)
      <3>1. a.next.at \in Nat
        BY <2>2, FieldsOf, RunIs
      <3> QED
        BY <2>2, <3>1
    <2>3. CASE ~(~a.enabled \/ over) /\ schedule = "interval" /\ (a.next = NoSlot \/ a.next.at <= now)
      BY <2>3, NextAfterIs
    <2> QED
      BY <2>1, <2>2, <2>3
  <1> HIDE DEF next
  <1> HIDE DEF b
  <1>8. b.enabled = a.enabled
    BY <1>1 DEF Autos
  <1>9. b \in Autos
    BY <1>1, <1>3, <1>4, NoSlotIs DEF Autos
  <1>10. b.id = a.id /\ b.next = next /\ b.run = NoSlot /\ b.last = last /\ b.fired = a.fired
    BY <1>1 DEF Autos
  <1> QED
    BY <1>2, <1>5, <1>8, <1>6, <1>7, <1>9, <1>10 DEF b

\* The invariant holds when the automations begin.
LEMMA RunsInitInv == AutomationInit => RunsInv
PROOF
  <1> SUFFICES ASSUME AutomationInit PROVE RunsInv
    OBVIOUS
  <1>1. NoAuto \in Autos /\ NoAuto.id = 0
    BY NoSlotIs, AutomationNumbers DEF NoAuto, Autos
  <1>2. NoClaim \in [auto : Nat, run : Runs]
    BY NoSlotIs DEF NoClaim
  <1>3. AutoShapeOK
    BY <1>1, <1>2, AutomationNumbers DEF AutomationInit, AutoShapeOK
  <1>4. IdsAreOfThePast /\ OneRunUnderWay
    BY <1>1 DEF AutomationInit, IdsAreOfThePast, IdIsOfThePast, OneRunUnderWay
  <1> QED
    BY <1>3, <1>4 DEF RunsInv

\* The schedule is fixed, and with it the slots.
LEMMA SlotsLeft ==
    ASSUME schedule' = schedule
    PROVE  Slots' = Slots /\ Runs' = Runs /\ Autos' = Autos /\ NoAuto' = NoAuto /\ NoClaim' = NoClaim
  BY DEF Slots, Runs, Autos, NoSlot, NoAuto, NoClaim

\* An automation that is switched on, or known, has an id.
LEMMA HasId ==
    ASSUME RunsInv
    PROVE  /\ auto.enabled \/ auto # NoAuto => auto.id \in 1..edits
           /\ autoFile.enabled => autoFile.id \in 1..edits
           /\ edits \in Nat /\ now \in Nat /\ zone \in Nat
PROOF
  <1>1. NoAuto.enabled = FALSE
    BY DEF NoAuto
  <1>2. auto.id \in Nat /\ autoFile.id \in Nat
    BY FieldsOf DEF RunsInv, AutoShapeOK
  <1>3. edits \in Nat /\ now \in Nat /\ zone \in Nat
    BY AutomationNumbers DEF RunsInv, AutoShapeOK
  <1>4. auto.id # 0 => auto.id \in 1..edits
    BY <1>2, <1>3 DEF RunsInv, IdsAreOfThePast, IdIsOfThePast
  <1>5. autoFile.id # 0 => autoFile.id \in 1..edits
    BY <1>2, <1>3 DEF RunsInv, IdsAreOfThePast, IdIsOfThePast
  <1> QED
    BY <1>1, <1>3, <1>4, <1>5 DEF RunsInv, IdsAreOfThePast, IdIsOfThePast

\* Ids stay of the past, in a step that gives out at most the next one.
LEMMA IdsStep ==
    ASSUME RunsInv, schedule' = schedule, edits' \in Nat, edits' >= edits,
           auto'.id <= edits', auto'.id = 0 => auto' = NoAuto,
           autoFile' \in {autoFile, auto'}, undo' \subseteq undo \cup {auto},
           claimed' # NoClaim => claimed'.auto \in 1..edits /\ claimed'.run # NoSlot,
           \A d \in dispatched' : d.auto \in 1..edits /\ d.run # NoSlot
    PROVE  IdsAreOfThePast'
PROOF
  <1>1. edits \in Nat /\ \A i \in 1..edits : i \in 1..edits'
    BY HasId
  <1>2. \A a \in {autoFile, auto} \cup undo : a.id \in Nat /\ a.id <= edits /\ (a.id = 0 => a = NoAuto)
    BY FieldsOf DEF RunsInv, AutoShapeOK, IdsAreOfThePast, IdIsOfThePast
  <1>3. \A a \in {auto', autoFile'} \cup undo' : a.id <= edits' /\ (a.id = 0 => a = NoAuto)
    BY <1>1, <1>2
  <1>4. /\ claimed' # NoClaim => claimed'.auto \in 1..edits' /\ claimed'.run # NoSlot
        /\ \A d \in dispatched' : d.auto \in 1..edits' /\ d.run # NoSlot
    BY <1>1
  <1>5. NoAuto' = NoAuto /\ NoClaim' = NoClaim /\ NoSlot' = NoSlot
    BY SlotsLeft DEF NoSlot
  <1> QED
    BY <1>3, <1>4, <1>5 DEF IdsAreOfThePast, IdIsOfThePast

\* The edit that would be undone still knows the runs under way, when none is dispatched.
LEMMA UndoKnows ==
    ASSUME RunsInv, undo' \subseteq undo \cup {auto}, dispatched' \subseteq dispatched
    PROVE  \A before \in undo', d \in dispatched' : d.auto = before.id => before.run = d.run
  BY DEF RunsInv, OneRunUnderWay

\* What changes of the automation in a step that leaves its runs alone.
LEMMA RunsLeft ==
    ASSUME RunsInv, UNCHANGED <<schedule, claimed, dispatched>>,
           now' \in 0..MaxTime, zone' \in 0..MaxLag, edits' \in 0..MaxEdits, edits' >= edits,
           auto' \in Autos, autoFile' \in {autoFile, auto'}, undo' \subseteq undo \cup {auto},
           auto' = auto \/ (auto'.id = auto.id /\ auto'.run = auto.run /\ auto.id # 0)
    PROVE  RunsInv'
PROOF
  <1>1. AutoShapeOK'
    BY SlotsLeft DEF RunsInv, AutoShapeOK
  <1>2. edits \in Nat /\ edits' \in Nat /\ auto.id \in Nat /\ auto.id <= edits
    BY AutomationNumbers, FieldsOf, HasId DEF RunsInv, AutoShapeOK, IdsAreOfThePast, IdIsOfThePast
  <1>3. auto'.id = auto.id /\ auto'.run = auto.run /\ NoClaim' = NoClaim
    BY SlotsLeft
  <1>4. OneRunUnderWay'
    BY <1>3, UndoKnows DEF RunsInv, OneRunUnderWay
  <1>5. auto'.id <= edits' /\ (auto'.id = 0 => auto' = NoAuto)
    BY <1>2, <1>3 DEF RunsInv, IdsAreOfThePast, IdIsOfThePast
  <1>6. IdsAreOfThePast'
    BY <1>2, <1>5, IdsStep DEF RunsInv, IdsAreOfThePast
  <1> QED
    BY <1>1, <1>4, <1>6 DEF RunsInv

\* An interval that fell behind claims its latest slot, another schedule its next run.
LEMMA ClaimedIs ==
    ASSUME RunsInv, Due(auto)
    PROVE  /\ ClaimedSlot \in Runs /\ ClaimedSlot # NoSlot
           /\ ClaimedSlot.slot \in Nat /\ auto.next.slot \in Nat /\ ClaimedSlot.slot >= auto.next.slot
           /\ schedule # "interval" => ClaimedSlot = auto.next
           /\ schedule = "interval" /\ auto.next.at = auto.next.slot * DayLength => ClaimedSlot.slot * DayLength <= now
PROOF
  <1>1. auto.next \in Runs /\ auto.next # NoSlot /\ auto.next.at <= now
    BY FieldsOf DEF RunsInv, AutoShapeOK, Due
  <1>2. auto.next.slot \in Slots /\ auto.next.slot \in Nat /\ now \in Nat /\ zone \in Nat
    BY <1>1, RunIs, HasId
  <1>3. CASE schedule # "interval"
    <2>1. ClaimedSlot = auto.next
      BY <1>3 DEF ClaimedSlot
    <2> QED
      BY <1>1, <1>2, <1>3, <2>1
  <1>4. CASE schedule = "interval"
    <2> DEFINE behind == {s \in Slots : At(s, zone) <= now}
               S == {auto.next.slot} \cup behind
               m == Max(S)
    <2>1. ClaimedSlot = Earliest({m}, zone)
      BY <1>4 DEF ClaimedSlot
    <2>2. S \in SUBSET Slots /\ S \in SUBSET (1..MaxSlot) /\ S # {} /\ auto.next.slot \in S
      BY <1>2, AutomationNumbers
    <2>3. \A s \in S : s = auto.next.slot \/ At(s, zone) <= now
      OBVIOUS
    <2> HIDE DEF S
    <2>4. \E x \in S : \A y \in S : x >= y
      <3> DEFINE T == {MaxSlot - x : x \in S}
      <3>1. \A x \in S : x \in Nat /\ x <= MaxSlot
        <4>1. \A x \in 1..MaxSlot : x \in Nat /\ x <= MaxSlot
          BY AutomationNumbers
        <4> QED
          BY <2>2, <4>1
      <3>2. \A x \in S : MaxSlot - x \in Nat /\ MaxSlot - x \in T
        BY <3>1, AutomationNumbers
      <3>2a. T \in SUBSET Nat /\ T # {}
        BY <2>2, <3>2
      <3>3. PICK t \in T : \A y \in T : t <= y
        BY <3>2a, MinIs
      <3>4. PICK x \in S : t = MaxSlot - x
        BY <3>3
      <3>5. \A y \in S : MaxSlot - y \in T
        OBVIOUS
      <3> HIDE DEF T
      <3> QED
        BY <3>1, <3>3, <3>4, <3>5, AutomationNumbers
    <2>5. m \in S /\ \A y \in S : m >= y
      BY <2>4 DEF Max
    <2> HIDE DEF m
    <2>6. {m} \in SUBSET Slots /\ m \in Nat
      BY <2>2, <2>5, AutomationNumbers
    <2>7. /\ ClaimedSlot \in Runs /\ ClaimedSlot # NoSlot /\ ClaimedSlot.slot = m
      BY <1>2, <2>1, <2>6, EarliestIs
    <2>8. m >= auto.next.slot
      BY <2>2, <2>5
    <2>9. auto.next.at = auto.next.slot * DayLength => m * DayLength <= now
      <3>1. CASE m = auto.next.slot
        BY <1>1, <3>1
      <3>2. CASE At(m, zone) <= now
        BY <1>2, <1>4, <2>6, <3>2, AtIs
      <3> QED
        BY <2>3, <2>5, <3>1, <3>2
    <2> QED
      BY <1>2, <1>4, <2>6, <2>7, <2>8, <2>9
  <1> QED
    BY <1>3, <1>4

\* Runs are kept known through every step: the automation never loses sight of a run
\* of its own, and never takes a stranger's for its own.
LEMMA RunsStep == RunsInv /\ [AutomationNext]_autoVars => RunsInv'
PROOF
  <1> SUFFICES ASSUME RunsInv, [AutomationNext]_autoVars PROVE RunsInv'
    OBVIOUS
  <1>1. /\ auto \in Autos /\ autoFile \in Autos
        /\ auto.id \in Nat /\ autoFile.id \in Nat
        /\ auto.next \in Runs /\ auto.run \in Runs /\ auto.last \in Runs
        /\ edits \in Nat /\ now \in Nat /\ zone \in Nat
        /\ now \in 0..MaxTime /\ zone \in 0..MaxLag /\ edits \in 0..MaxEdits
        /\ auto.fired \subseteq Slots
    BY FieldsOf, HasId DEF RunsInv, AutoShapeOK
  <1>2. auto.enabled \/ auto # NoAuto => auto.id # 0
    BY HasId
  <1>3. NextAfter(now, zone) \in Runs
    BY <1>1, NextAfterIs
  <1>4. Edit => edits' \in 0..MaxEdits /\ edits' >= edits /\ edits' = edits + 1
    BY <1>1, AutomationNumbers DEF Edit
  <1>5. CASE Expire
    <2>1. auto' \in Autos /\ auto'.id = auto.id /\ auto'.run = auto.run
      BY <1>1, <1>5, NoSlotIs DEF Expire, Autos
    <2> QED
      BY <1>1, <1>2, <1>5, <2>1, RunsLeft DEF Expire, Due
  <1>6. CASE Pause
    <2>1. auto' \in Autos /\ auto'.id = auto.id /\ auto'.run = auto.run
      BY <1>1, <1>6, NoSlotIs DEF Pause, Autos
    <2> QED
      BY <1>1, <1>2, <1>4, <1>6, <2>1, RunsLeft DEF Pause, Undoable
  <1>7. CASE Resume
    <2>1. auto' \in Autos /\ auto'.id = auto.id /\ auto'.run = auto.run
      BY <1>1, <1>3, <1>7 DEF Resume, Autos
    <2> QED
      BY <1>1, <1>2, <1>4, <1>7, <2>1, RunsLeft DEF Resume, Undoable
  <1>8. CASE MoveZone
    <2>1. zone' \in 0..MaxLag
      BY <1>8 DEF MoveZone
    <2>2. auto' = auto \/ (auto' \in Autos /\ auto'.id = auto.id /\ auto'.run = auto.run /\ auto.enabled)
      <3>1. zone' \in Nat
        BY <2>1, AutomationNumbers
      <3>2. NextAfterLast(now, zone', auto.last) \in Runs
        BY <1>1, <3>1, NextAfterLastIs
      <3> QED
        BY <1>1, <1>8, <3>2 DEF MoveZone, Autos
    <2> QED
      BY <1>1, <1>2, <1>4, <1>8, <2>1, <2>2, RunsLeft DEF MoveZone
  <1>9. CASE Elapse
    <2>1. now' \in 0..MaxTime
      BY <1>1, <1>9, AutomationNumbers DEF Elapse
    <2> QED
      BY <1>1, <1>9, <2>1, RunsLeft DEF Elapse
  <1>10. CASE SaveAutomation
    BY <1>1, <1>10, RunsLeft DEF SaveAutomation
  <1>11. CASE Configure
    <2> DEFINE id == IF auto.id = 0 THEN edits' ELSE auto.id
    <2>1. /\ auto' = [auto EXCEPT !.id = id, !.enabled = TRUE, !.next = NextAfter(now, zone), !.fired = {}]
          /\ UNCHANGED <<schedule, now, zone, autoFile, claimed, dispatched>> /\ auto.run = NoSlot /\ undo' = {auto}
          /\ edits' \in 0..MaxEdits /\ edits' = edits + 1 /\ edits' \in Nat
      BY <1>4, <1>11, AutomationNumbers DEF Configure, Undoable
    <2>2. auto.id <= edits
      BY DEF RunsInv, IdsAreOfThePast, IdIsOfThePast
    <2>3. id \in 0..MaxEdits /\ id # 0 /\ id <= edits' /\ (id = auto.id \/ id > edits)
      BY <1>1, <2>1, <2>2, AutomationNumbers
    <2> HIDE DEF id
    <2>4. auto' \in Autos /\ auto'.id = id /\ auto'.run = NoSlot
      BY <1>1, <1>3, <2>1, <2>3 DEF Autos
    <2>5. AutoShapeOK'
      BY <2>1, <2>4, SlotsLeft DEF RunsInv, AutoShapeOK
    <2>6. \A i \in 1..edits : i <= edits
      BY <1>1
    <2>7. (claimed # NoClaim => claimed.auto # id) /\ \A d \in dispatched : d.auto # id
      BY <1>1, <2>1, <2>3, <2>6 DEF RunsInv, IdsAreOfThePast, OneRunUnderWay
    <2>8. OneRunUnderWay'
      BY <2>1, <2>4, <2>7, UndoKnows, SlotsLeft DEF OneRunUnderWay
    <2>9. IdsAreOfThePast'
      BY <1>1, <2>1, <2>3, <2>4, IdsStep DEF RunsInv, IdsAreOfThePast
    <2> QED
      BY <2>5, <2>8, <2>9 DEF RunsInv
  <1>12. CASE DeleteAutomation
    <2>1. NoAuto \in Autos /\ NoAuto.id = 0
      BY NoSlotIs, AutomationNumbers DEF NoAuto, Autos
    <2>2. UNCHANGED <<schedule, now, zone, autoFile, claimed, dispatched>> /\ auto' = NoAuto /\ undo' = {auto}
          /\ edits' \in 0..MaxEdits /\ edits' = edits + 1 /\ edits' \in Nat
      BY <1>4, <1>12, AutomationNumbers DEF DeleteAutomation, Undoable
    <2>3. AutoShapeOK'
      BY <1>1, <2>1, <2>2, SlotsLeft DEF RunsInv, AutoShapeOK
    <2>4. \A i \in 1..edits : i # 0
      BY <1>1
    <2>5. OneRunUnderWay'
      BY <2>1, <2>2, <2>4, UndoKnows, SlotsLeft DEF RunsInv, IdsAreOfThePast, OneRunUnderWay
    <2>6. IdsAreOfThePast'
      BY <1>1, <2>1, <2>2, IdsStep DEF RunsInv, IdsAreOfThePast
    <2> QED
      BY <2>3, <2>5, <2>6 DEF RunsInv
  <1>13. CASE Claim
    <2>1. Due(auto) /\ auto.enabled /\ auto.run = NoSlot /\ claimed = NoClaim
      BY <1>13 DEF Claim, Due
    <2>2. ClaimedSlot \in Runs /\ ClaimedSlot # NoSlot
      BY <2>1, ClaimedIs
    <2>3. auto' \in Autos /\ auto'.id = auto.id /\ auto'.run = ClaimedSlot
      BY <1>1, <1>3, <1>13, <2>2 DEF Claim, Autos
    <2>4. claimed' = [auto |-> auto.id, run |-> ClaimedSlot]
          /\ UNCHANGED <<schedule, now, zone, autoFile, undo, dispatched, edits>>
      BY <1>13 DEF Claim
    <2>5. AutoShapeOK'
      BY <1>1, <2>2, <2>3, <2>4, SlotsLeft DEF RunsInv, AutoShapeOK
    <2>6. claimed'.auto = auto.id /\ claimed'.run = ClaimedSlot
      BY <2>4
    <2>7. \A d \in dispatched : d.auto # auto.id
      BY <2>1 DEF RunsInv, IdsAreOfThePast, OneRunUnderWay
    <2>8. OneRunUnderWay'
      BY <2>3, <2>4, <2>6, <2>7, UndoKnows DEF OneRunUnderWay
    <2>9. auto.id \in 1..edits /\ auto.id # 0 /\ auto.id <= edits
      BY <1>1, <2>1, HasId
    <2>10. IdsAreOfThePast'
      BY <1>1, <2>2, <2>3, <2>4, <2>6, <2>9, IdsStep DEF RunsInv, IdsAreOfThePast
    <2> QED
      BY <2>5, <2>8, <2>10 DEF RunsInv
  <1>14. CASE Dispatch
    <2> DEFINE slots == IF claimed # NoClaim /\ claimed.auto = auto.id THEN {claimed.run.slot} ELSE {}
    <2>1. claimed' = NoClaim /\ autoFile' = auto' /\ undo' = {}
          /\ dispatched' = dispatched \cup ({claimed} \ {NoClaim}) /\ auto' = [auto EXCEPT !.fired = @ \cup slots]
          /\ UNCHANGED <<schedule, now, zone, edits>>
      BY <1>14 DEF Dispatch
    <2>2. claimed \in [auto : Nat, run : Runs] /\ NoClaim \in [auto : Nat, run : Runs]
      BY NoSlotIs DEF RunsInv, AutoShapeOK, NoClaim
    <2>3. claimed # NoClaim =>
            claimed.run # NoSlot /\ claimed.run \in Runs /\ claimed.auto \in 1..edits /\ claimed.run.slot \in Slots
      <3>1. claimed # NoClaim => claimed.run # NoSlot /\ claimed.run \in Runs /\ claimed.auto \in 1..edits
        BY <2>2 DEF RunsInv, IdsAreOfThePast
      <3> QED
        BY <3>1, RunIs
    <2>4. slots \subseteq Slots
      BY <2>3
    <2> HIDE DEF slots
    <2>5. auto' \in Autos /\ auto'.id = auto.id /\ auto'.run = auto.run
      BY <1>1, <2>1, <2>4 DEF Autos
    <2>6. AutoShapeOK'
      BY <2>1, <2>2, <2>5, SlotsLeft DEF RunsInv, AutoShapeOK
    <2>7. OneRunUnderWay'
      BY <2>1, <2>5, SlotsLeft DEF RunsInv, OneRunUnderWay
    <2>8. auto'.id = 0 => auto' = NoAuto
      <3>1. ASSUME auto.id = 0 PROVE auto' = auto
        <4>1. slots = {}
          BY <1>1, <2>3, <3>1 DEF slots
        <4> QED
          BY <1>1, <2>1, <4>1 DEF Autos
      <3> QED
        BY <2>5, <3>1 DEF RunsInv, IdsAreOfThePast, IdIsOfThePast
    <2>9. IdsAreOfThePast'
      BY <1>1, <2>1, <2>3, <2>5, <2>8, IdsStep DEF RunsInv, IdsAreOfThePast, IdIsOfThePast
    <2> QED
      BY <2>6, <2>7, <2>9 DEF RunsInv
  <1>15. CASE SaveClaimFails
    <2>1. claimed # NoClaim /\ claimed' = NoClaim /\ auto' = SettledBy(auto, claimed.auto, claimed.run)
          /\ UNCHANGED <<schedule, now, zone, autoFile, undo, dispatched, edits>>
      BY <1>15 DEF SaveClaimFails
    <2>2. claimed \in [auto : Nat, run : Runs] /\ NoClaim \in [auto : Nat, run : Runs]
      BY NoSlotIs DEF RunsInv, AutoShapeOK, NoClaim
    <2>3. claimed.run \in Runs /\ claimed.auto # 0
      BY <1>1, <2>1, <2>2 DEF RunsInv, IdsAreOfThePast
    <2>4. auto' \in Autos /\ auto'.id = auto.id /\ (auto'.id # claimed.auto => auto' = auto)
      BY <1>1, <2>1, <2>3, SettledIs
    <2>5. AutoShapeOK'
      BY <2>1, <2>2, <2>4, SlotsLeft DEF RunsInv, AutoShapeOK
    <2>6. \A d \in dispatched : d.auto = auto.id => auto' = auto
      BY <2>1, <2>4 DEF RunsInv, OneRunUnderWay
    <2>7. OneRunUnderWay'
      BY <2>1, <2>4, <2>6, UndoKnows, SlotsLeft DEF RunsInv, OneRunUnderWay
    <2>8. IdsAreOfThePast'
      BY <1>1, <2>1, <2>3, <2>4, IdsStep DEF RunsInv, IdsAreOfThePast, IdIsOfThePast
    <2> QED
      BY <2>5, <2>7, <2>8 DEF RunsInv
  <1>16. CASE Finish
    <2>1. PICK d \in dispatched : dispatched' = dispatched \ {d} /\ auto' = SettledBy(auto, d.auto, d.run)
      BY <1>16 DEF Finish
    <2>2. UNCHANGED <<schedule, now, zone, autoFile, claimed, undo, edits>>
      BY <1>16 DEF Finish
    <2>3. \A e \in dispatched : e \in [auto : Nat, run : Runs] /\ e.run # NoSlot /\ e.auto # 0
      BY <1>1 DEF RunsInv, AutoShapeOK, IdsAreOfThePast
    <2>4. auto' \in Autos /\ auto'.id = auto.id /\ (auto'.id # d.auto => auto' = auto)
      BY <1>1, <2>1, <2>3, SettledIs
    <2>5. AutoShapeOK'
      BY <2>1, <2>2, <2>4, SlotsLeft DEF RunsInv, AutoShapeOK
    <2>6. \A e \in dispatched' : e.auto = auto.id => auto' = auto
      <3>1. ASSUME NEW e \in dispatched, e.auto = auto.id, d.auto = auto.id PROVE e = d
        <4>1. e.run = d.run
          BY <3>1 DEF RunsInv, OneRunUnderWay
        <4> QED
          BY <2>3, <3>1, <4>1
      <3> QED
        BY <2>1, <2>4, <3>1
    <2>7. claimed # NoClaim /\ claimed.auto = auto.id => auto' = auto
      BY <2>4 DEF RunsInv, OneRunUnderWay
    <2>8. NoClaim' = NoClaim /\ claimed' = claimed /\ \A e \in dispatched' : e \in dispatched
      BY <2>1, <2>2, SlotsLeft
    <2>9. OneRunUnderWay'
      BY <2>2, <2>4, <2>6, <2>7, <2>8, UndoKnows DEF RunsInv, OneRunUnderWay
    <2>10. IdsAreOfThePast'
      BY <1>1, <2>2, <2>3, <2>4, <2>8, IdsStep DEF RunsInv, IdsAreOfThePast, IdIsOfThePast
    <2> QED
      BY <2>5, <2>9, <2>10 DEF RunsInv
  <1>17. CASE RestartButler
    <2>1. auto' = Reconciled(autoFile) /\ claimed' = NoClaim /\ dispatched' = {} /\ undo' = {}
          /\ UNCHANGED <<schedule, now, zone, autoFile, edits>>
      BY <1>17 DEF RestartButler
    <2>2. NoClaim \in [auto : Nat, run : Runs]
      BY NoSlotIs DEF NoClaim
    <2>3. auto' \in Autos /\ auto'.id = autoFile.id
      BY <1>1, <2>1, ReconciledIs
    <2>4. AutoShapeOK'
      BY <2>1, <2>2, <2>3, SlotsLeft DEF RunsInv, AutoShapeOK
    <2>5. autoFile = NoAuto => auto' = NoAuto
      <3>1. NoAuto.enabled = FALSE /\ NoAuto.run = NoSlot /\ NoAuto.last = NoSlot
        BY DEF NoAuto
      <3>2. Reconciled(NoAuto) = [NoAuto EXCEPT !.run = NoSlot, !.last = NoSlot, !.next = NoSlot]
        BY <3>1 DEF Reconciled
      <3>3. \A a \in [id : Nat, enabled : BOOLEAN, next : {NoSlot}, run : {NoSlot}, last : {NoSlot}, fired : {{}}] :
               [a EXCEPT !.run = NoSlot, !.last = NoSlot, !.next = NoSlot] = a
        OBVIOUS
      <3>4. NoAuto \in [id : Nat, enabled : BOOLEAN, next : {NoSlot}, run : {NoSlot}, last : {NoSlot}, fired : {{}}]
        BY DEF NoAuto
      <3> QED
        BY <2>1, <3>2, <3>3, <3>4
    <2>6. OneRunUnderWay'
      BY <2>1, SlotsLeft DEF OneRunUnderWay
    <2>7. IdsAreOfThePast'
      BY <1>1, <2>1, <2>3, <2>5, IdsStep DEF RunsInv, IdsAreOfThePast, IdIsOfThePast
    <2> QED
      BY <2>4, <2>6, <2>7 DEF RunsInv
  <1>17a. CASE EditUndone
    <2>1. auto' \in undo /\ claimed' = NoClaim /\ undo' = {}
          /\ UNCHANGED <<schedule, now, zone, autoFile, dispatched, edits>>
      BY <1>17a DEF EditUndone
    <2>2. NoClaim \in [auto : Nat, run : Runs]
      BY NoSlotIs DEF NoClaim
    <2>3. AutoShapeOK'
      BY <2>1, <2>2, SlotsLeft DEF RunsInv, AutoShapeOK
    <2>4. OneRunUnderWay'
      BY <2>1, SlotsLeft DEF RunsInv, OneRunUnderWay
    <2>5. IdsAreOfThePast'
      BY <1>1, <2>1, IdsStep DEF RunsInv, IdsAreOfThePast, IdIsOfThePast
    <2> QED
      BY <2>3, <2>4, <2>5 DEF RunsInv
  <1>18. CASE UNCHANGED autoVars
    BY <1>1, <1>18, RunsLeft DEF autoVars
  <1> QED
    BY <1>5, <1>6, <1>7, <1>8, <1>9, <1>10, <1>11, <1>12, <1>13, <1>14, <1>15, <1>16, <1>17, <1>17a, <1>18 DEF AutomationNext

\* Settling a run of its own leaves an automation that knows what fired.
LEMMA SettledKnows ==
    ASSUME NEW a \in Autos, NEW run \in Runs, NEW id, run # NoSlot, a.run = run, a.id = id,
           now \in Nat, zone \in Nat, schedule \in Dated \cup {"interval"},
           a \in Knowing
    PROVE  SettledBy(a, id, run) \in Knowing
PROOF
  <1> DEFINE b == SettledBy(a, id, run)
  <1>0. KnowsWhatFired(a) /\ IntervalIsTimes(a) /\ a.fired \subseteq Slots
    BY FieldsOf DEF Knowing
  <1>1. /\ b \in Autos /\ b.id = a.id /\ b.fired = a.fired
        /\ b.run = NoSlot /\ b.last = run
        /\ schedule \in Dated /\ b.enabled /\ b.next # NoSlot => b.next.slot > run.slot
        /\ schedule = "interval" /\ b.next # NoSlot =>
              b.next.at = b.next.slot * DayLength /\ (b.enabled => b.next.at > now)
    BY <1>0, SettledIs DEF IntervalIsTimes
  <1> HIDE DEF b
  <1>2. LastKnown(b) = run.slot /\ LastKnown(a) = run.slot
    BY <1>1 DEF LastKnown
  <1>3. run.slot \in Nat /\ \A s \in a.fired : s \in Nat
    BY <1>0, RunIs, AutomationNumbers
  <1>4. ASSUME schedule \in Dated, b.id # 0 PROVE \A s \in a.fired : s <= run.slot
    BY <1>0, <1>1, <1>2, <1>4 DEF KnowsWhatFired
  <1>5. ASSUME b.enabled, b.next # NoSlot, b.id # 0 PROVE \A s \in a.fired : s < b.next.slot
    <2>1. b.next.slot \in Nat
      BY <1>1, <1>5, FieldsOf, RunIs
    <2>2. CASE schedule \in Dated
      BY <1>1, <1>3, <1>4, <1>5, <2>1, <2>2
    <2>3. CASE schedule = "interval"
      <3>1. b.next.slot * DayLength > now
        BY <1>1, <1>5, <2>3
      <3>2. \A s \in a.fired : s * DayLength < b.next.slot * DayLength
        <4>1. b.next.slot * DayLength \in Nat /\ \A s \in a.fired : s * DayLength \in Nat
          BY <1>3, <2>1, SlotTimes
        <4> QED
          BY <1>0, <1>1, <2>3, <3>1, <4>1 DEF IntervalIsTimes
      <3> QED
        BY <1>3, <2>1, <3>2, SlotTimes
    <2> QED
      BY <2>2, <2>3
  <1>6. KnowsWhatFired(b)
    BY <1>1, <1>2, <1>4, <1>5 DEF KnowsWhatFired
  <1>7. IntervalIsTimes(b)
    BY <1>0, <1>1 DEF IntervalIsTimes
  <1> QED
    BY <1>1, <1>6, <1>7 DEF b, Knowing

\* So does looking through the saved automation after a restart.
LEMMA ReconciledKnows ==
    ASSUME NEW a \in Autos,
           now \in Nat, zone \in Nat, schedule \in Dated \cup {"interval"},
           a \in Knowing
    PROVE  Reconciled(a) \in Knowing
PROOF
  <1> DEFINE b == Reconciled(a)
  <1>0. KnowsWhatFired(a) /\ IntervalIsTimes(a) /\ a.fired \subseteq Slots
    BY FieldsOf DEF Knowing
  <1>1. /\ b \in Autos /\ b.id = a.id /\ b.fired = a.fired
        /\ b.run = NoSlot
        /\ b.last \in {a.run, a.next, a.last}
        /\ a.run # NoSlot => b.last = a.run
        /\ a.run = NoSlot => b.last = a.last \/ (b.last = a.next /\ a.enabled /\ a.next # NoSlot)
        /\ schedule \in Dated /\ b.next # NoSlot => b.next.slot > b.last.slot
        /\ schedule = "interval" /\ b.next # NoSlot => b.next.at = b.next.slot * DayLength /\ b.next.at > now
    BY <1>0, ReconciledIs DEF IntervalIsTimes
  <1> HIDE DEF b
  <1>2. LastKnown(b) = b.last.slot
    BY <1>1 DEF LastKnown
  <1>3. b.last.slot \in Nat /\ \A s \in a.fired : s \in Nat
    <2>1. b.last \in Runs
      BY <1>1, FieldsOf
    <2>2. b.last.slot \in Nat
      BY <2>1, RunIs, NoSlotIs
    <2> QED
      BY <1>0, <2>2, AutomationNumbers
  <1>4. ASSUME schedule \in Dated, b.id # 0 PROVE \A s \in a.fired : s <= b.last.slot
    <2>1. CASE a.run # NoSlot \/ b.last = a.last
      <3>1. LastKnown(a) = b.last.slot
        BY <1>1, <2>1 DEF LastKnown
      <3> QED
        BY <1>0, <1>1, <1>4, <3>1 DEF KnowsWhatFired
    <2>2. CASE a.run = NoSlot /\ b.last = a.next /\ a.enabled /\ a.next # NoSlot
      <3>1. \A s \in a.fired : s < a.next.slot
        BY <1>0, <1>1, <1>4, <2>2 DEF KnowsWhatFired
      <3> QED
        BY <1>3, <2>2, <3>1
    <2> QED
      BY <1>1, <2>1, <2>2
  <1>5. ASSUME b.next # NoSlot, b.id # 0 PROVE \A s \in a.fired : s < b.next.slot
    <2>1. b.next.slot \in Nat
      BY <1>1, <1>5, FieldsOf, RunIs
    <2>2. CASE schedule \in Dated
      BY <1>1, <1>3, <1>4, <1>5, <2>1, <2>2
    <2>3. CASE schedule = "interval"
      <3>1. b.next.slot * DayLength > now
        BY <1>1, <1>5, <2>3
      <3>2. \A s \in a.fired : s * DayLength < b.next.slot * DayLength
        <4>1. b.next.slot * DayLength \in Nat /\ \A s \in a.fired : s * DayLength \in Nat
          BY <1>3, <2>1, SlotTimes
        <4> QED
          BY <1>0, <1>1, <2>3, <3>1, <4>1 DEF IntervalIsTimes
      <3> QED
        BY <1>3, <2>1, <3>2, SlotTimes
    <2> QED
      BY <2>2, <2>3
  <1>6. KnowsWhatFired(b)
    BY <1>1, <1>2, <1>4, <1>5 DEF KnowsWhatFired
  <1>7. IntervalIsTimes(b)
    BY <1>0, <1>1 DEF IntervalIsTimes
  <1> QED
    BY <1>1, <1>6, <1>7 DEF b, Knowing

\* What an automation knows is of its own fields, the schedule and a clock that goes on.
LEMMA KnowingStays ==
    ASSUME schedule' = schedule, now \in Nat, now' \in Nat, now' >= now
    PROVE  Knowing \subseteq Knowing'
PROOF
  <1>1. Autos' = Autos /\ NoSlot' = NoSlot /\ Dated' = Dated
    BY SlotsLeft DEF NoSlot, Dated
  <1>2. ASSUME NEW a \in Knowing PROVE a \in Knowing'
    <2>1. a \in Autos /\ KnowsWhatFired(a) /\ IntervalIsTimes(a) /\ a.fired \subseteq Slots
      BY FieldsOf DEF Knowing
    <2>2. KnowsWhatFired(a)'
      BY <1>1, <2>1 DEF KnowsWhatFired, LastKnown
    <2>3. \A x \in a.fired : x * DayLength \in Nat
      BY <2>1, AutomationNumbers, SlotTimes
    <2>4. IntervalIsTimes(a)'
      BY <1>1, <2>1, <2>3 DEF IntervalIsTimes
    <2> QED
      BY <1>1, <2>1, <2>2, <2>4 DEF Knowing
  <1> QED
    BY <1>2

\* A claim stays new while its automation has nothing more fired.
LEMMA ClaimStaysNew ==
    ASSUME RunsInv, ClaimIsNew, schedule' = schedule, now \in Nat, now' \in Nat, now' >= now,
           claimed' \in {claimed, NoClaim},
           auto'.fired = {} \/ (auto'.id = auto.id /\ auto'.fired = auto.fired)
    PROVE  ClaimIsNew'
PROOF
  <1>1. NoClaim' = NoClaim
    BY SlotsLeft
  <1>2. claimed # NoClaim => claimed.run \in Runs /\ claimed.run # NoSlot
    BY DEF RunsInv, AutoShapeOK, IdsAreOfThePast
  <1>3. claimed # NoClaim => claimed.run.slot * DayLength \in Nat
    BY <1>2, RunIs, SlotTimes
  <1> QED
    BY <1>1, <1>3 DEF ClaimIsNew

\* An edit that switches the automation on starts its record of what fired anew.
LEMMA SwitchedOnKnows ==
    ASSUME NEW a \in Autos, a.fired = {}, now \in Nat, zone \in Nat, a.next = NextAfter(now, zone)
    PROVE  a \in Knowing
PROOF
  <1>1. KnowsWhatFired(a)
    BY DEF KnowsWhatFired
  <1>2. IntervalIsTimes(a)
    BY NextAfterIs DEF IntervalIsTimes
  <1> QED
    BY <1>1, <1>2 DEF Knowing

\* No occurrence of a dated or an interval schedule fires twice: the step.
LEMMA FiringStep ==
    ASSUME Kinds \subseteq Dated \cup {"interval"}
    PROVE  RunsInv /\ FiringInv /\ [AutomationNext]_autoVars => FiringInv'
PROOF
  <1> SUFFICES ASSUME RunsInv, FiringInv, [AutomationNext]_autoVars PROVE FiringInv'
    OBVIOUS
  <1>1. /\ auto \in Autos /\ autoFile \in Autos
        /\ auto.next \in Runs /\ auto.run \in Runs /\ auto.last \in Runs
        /\ edits \in Nat /\ now \in Nat /\ zone \in Nat
        /\ auto.fired \subseteq Slots
        /\ schedule \in Dated \cup {"interval"}
    BY FieldsOf, HasId DEF RunsInv, AutoShapeOK
  <1>2. \A s \in auto.fired : s \in Nat
    BY <1>1, AutomationNumbers
  <1>3. /\ auto \in Knowing /\ autoFile \in Knowing /\ undo \subseteq Knowing
        /\ KnowsWhatFired(auto) /\ IntervalIsTimes(auto)
        /\ ClaimIsNew /\ replayed = FALSE
    BY DEF FiringInv, SlotFiresOnce, Knowing
  <1>4. schedule' = schedule /\ NoClaim' = NoClaim /\ now' \in Nat /\ now' >= now
    <2>1. schedule' = schedule /\ now' \in {now, now + 1}
      BY DEF AutomationNext, Expire, Claim, Dispatch, SaveClaimFails, EditUndone, Finish, Configure, Pause, Resume,
         DeleteAutomation, MoveZone, Elapse, SaveAutomation, RestartButler, autoVars
    <2> QED
      BY <1>1, <2>1, SlotsLeft
  <1>5. ASSUME auto' \in Knowing', autoFile' \in {autoFile, auto, auto'}, undo' \subseteq undo \cup {auto},
               ClaimIsNew', replayed' = FALSE
        PROVE  FiringInv'
    BY <1>1, <1>3, <1>4, <1>5, KnowingStays DEF FiringInv, SlotFiresOnce
  <1>6. ASSUME auto' \in Knowing, autoFile' \in {autoFile, auto, auto'}, undo' \subseteq undo \cup {auto},
               claimed' \in {claimed, NoClaim}, replayed' = replayed,
               auto'.fired = {} \/ (auto'.id = auto.id /\ auto'.fired = auto.fired)
        PROVE  FiringInv'
    <2>1. ClaimIsNew'
      BY <1>1, <1>3, <1>4, <1>6, ClaimStaysNew
    <2>2. auto' \in Knowing'
      BY <1>1, <1>4, <1>6, KnowingStays
    <2> QED
      BY <1>3, <1>5, <1>6, <2>1, <2>2
  <1>7. CASE Expire
    <2>1. auto.enabled /\ auto.next # NoSlot /\ auto.run = NoSlot /\ auto.id # 0
      BY <1>7, HasId DEF Expire, Due
    <2>2. auto' = [auto EXCEPT !.next = NoSlot, !.last = auto.next]
          /\ UNCHANGED <<autoFile, undo, claimed, replayed>>
      BY <1>7 DEF Expire
    <2>3. auto' \in Autos /\ auto'.id = auto.id /\ auto'.run = NoSlot /\ auto'.next = NoSlot
          /\ auto'.last = auto.next /\ auto'.fired = auto.fired
      BY <1>1, <2>1, <2>2, NoSlotIs DEF Autos
    <2>4. auto.next.slot \in Nat /\ \A s \in auto.fired : s < auto.next.slot
      BY <1>1, <1>3, <2>1, RunIs DEF KnowsWhatFired
    <2>5. KnowsWhatFired(auto')
      BY <1>2, <2>3, <2>4 DEF KnowsWhatFired, LastKnown
    <2>6. IntervalIsTimes(auto')
      BY <1>3, <2>3 DEF IntervalIsTimes
    <2> QED
      BY <1>6, <2>2, <2>3, <2>5, <2>6 DEF Knowing
  <1>8. CASE Claim
    <2>1. Due(auto) /\ auto.enabled /\ auto.next # NoSlot /\ auto.run = NoSlot /\ auto.id # 0
      BY <1>8, HasId DEF Claim, Due
    <2>2. /\ auto' = [auto EXCEPT !.run = ClaimedSlot, !.next = NextAfter(now, zone)]
          /\ UNCHANGED <<now, autoFile, undo, replayed>>
          /\ claimed'.auto = auto.id /\ claimed'.run = ClaimedSlot
      BY <1>8 DEF Claim
    <2>3. \A s \in auto.fired : s < auto.next.slot
      BY <1>3, <2>1 DEF KnowsWhatFired
    <2>4. /\ ClaimedSlot \in Runs /\ ClaimedSlot # NoSlot
          /\ ClaimedSlot.slot \in Nat /\ auto.next.slot \in Nat /\ ClaimedSlot.slot >= auto.next.slot
          /\ schedule = "interval" => ClaimedSlot.slot * DayLength <= now
      BY <1>3, <2>1, ClaimedIs DEF IntervalIsTimes
    <2>5. \A s \in auto.fired : s < ClaimedSlot.slot
      BY <1>2, <2>3, <2>4
    <2>6. NextAfter(now, zone) \in Runs
          /\ (schedule = "interval" /\ NextAfter(now, zone) # NoSlot =>
                NextAfter(now, zone).at = NextAfter(now, zone).slot * DayLength)
      BY <1>1, NextAfterIs
    <2>7. auto' \in Autos /\ auto'.id = auto.id /\ auto'.run = ClaimedSlot /\ auto'.next = NextAfter(now, zone)
          /\ auto'.fired = auto.fired
      BY <1>1, <2>2, <2>4, <2>6 DEF Autos
    <2>8. KnowsWhatFired(auto')
      BY <1>2, <2>4, <2>5, <2>7 DEF KnowsWhatFired, LastKnown
    <2>9. IntervalIsTimes(auto')
      BY <1>3, <2>6, <2>7 DEF IntervalIsTimes
    <2>10. auto' \in Knowing'
      BY <1>1, <1>4, <2>7, <2>8, <2>9, KnowingStays DEF Knowing
    <2>11. ClaimIsNew'
      BY <1>4, <2>2, <2>4, <2>5, <2>7 DEF ClaimIsNew
    <2> QED
      BY <1>3, <1>5, <2>2, <2>10, <2>11
  <1>9. CASE Dispatch
    <2>1. autoFile' = auto' /\ undo' = {} /\ claimed' = NoClaim
      BY <1>9 DEF Dispatch
    <2>2. CASE claimed # NoClaim /\ claimed.auto = auto.id
      <3> DEFINE slot == claimed.run.slot
      <3>1. claimed.run # NoSlot /\ claimed.run \in Runs /\ auto.run = claimed.run
        BY <2>2 DEF RunsInv, AutoShapeOK, IdsAreOfThePast, OneRunUnderWay
      <3>2. slot \in Slots /\ slot \in Nat
        BY <3>1, RunIs
      <3>3. /\ \A s \in auto.fired : s < slot
            /\ schedule = "interval" => slot * DayLength <= now
        BY <1>3, <2>2 DEF ClaimIsNew
      <3>4. auto.run.slot = slot
        BY <3>1
      <3>5. slot \notin auto.fired
        BY <3>2, <3>3
      <3>6. auto' = [auto EXCEPT !.fired = @ \cup {slot}] /\ replayed' = FALSE
        BY <1>3, <1>9, <2>2, <3>5 DEF Dispatch
      <3> HIDE DEF slot
      <3>7. auto' \in Autos /\ auto'.id = auto.id /\ auto'.run = auto.run /\ auto'.next = auto.next
            /\ auto'.fired = auto.fired \cup {slot}
        BY <1>1, <3>2, <3>6 DEF Autos
      <3>8. \A s \in auto'.fired : s <= slot
        BY <1>2, <3>2, <3>3, <3>7
      <3>9. KnowsWhatFired(auto')
        BY <3>1, <3>4, <3>7, <3>8 DEF KnowsWhatFired, LastKnown
      <3>10. IntervalIsTimes(auto')
        BY <1>3, <3>3, <3>7 DEF IntervalIsTimes
      <3>11. auto' \in Knowing'
        BY <1>1, <1>4, <3>7, <3>9, <3>10, KnowingStays DEF Knowing
      <3>12. ClaimIsNew'
        BY <1>4, <2>1 DEF ClaimIsNew
      <3> QED
        BY <1>5, <2>1, <3>6, <3>11, <3>12
    <2>3. CASE ~(claimed # NoClaim /\ claimed.auto = auto.id)
      <3>1. auto' = [auto EXCEPT !.fired = @ \cup {}] /\ replayed' = replayed
        BY <1>3, <1>9, <2>3 DEF Dispatch
      <3>2. auto' = auto
        BY <1>1, <3>1 DEF Autos
      <3> QED
        BY <1>3, <1>6, <2>1, <3>1, <3>2
    <2> QED
      BY <2>2, <2>3
  <1>10. ASSUME NEW run \in Runs, NEW id, run # NoSlot, auto' = SettledBy(auto, id, run),
                auto.id = id => auto.run = run,
                UNCHANGED <<autoFile, undo, replayed>>, claimed' \in {claimed, NoClaim}
         PROVE  FiringInv'
    <2>1. CASE auto.id # id
      <3>1. auto' = auto
        BY <1>10, <2>1 DEF SettledBy
      <3> QED
        BY <1>3, <1>6, <1>10, <3>1
    <2>2. CASE auto.id = id
      <3>1. auto.run = run
        BY <1>10, <2>2
      <3>2. auto' \in Knowing
        BY <1>1, <1>3, <1>10, <2>2, <3>1, SettledKnows
      <3>3. auto'.id = auto.id /\ auto'.fired = auto.fired
        BY <1>1, <1>10, SettledIs
      <3> QED
        BY <1>6, <1>10, <3>2, <3>3
    <2> QED
      BY <2>1, <2>2
  <1>11. CASE SaveClaimFails
    <2>1. claimed.run \in Runs /\ claimed.run # NoSlot /\ (auto.id = claimed.auto => auto.run = claimed.run)
      BY <1>11 DEF SaveClaimFails, RunsInv, AutoShapeOK, IdsAreOfThePast, OneRunUnderWay
    <2> QED
      BY <1>10, <1>11, <2>1 DEF SaveClaimFails
  <1>12. CASE Finish
    <2>1. PICK d \in dispatched : auto' = SettledBy(auto, d.auto, d.run)
      BY <1>12 DEF Finish
    <2>2. d.run \in Runs /\ d.run # NoSlot /\ (auto.id = d.auto => auto.run = d.run)
      BY DEF RunsInv, AutoShapeOK, IdsAreOfThePast, OneRunUnderWay
    <2> QED
      BY <1>10, <1>12, <2>1, <2>2 DEF Finish
  <1>13. CASE EditUndone
    <2>1. auto' \in undo /\ undo' = {} /\ claimed' = NoClaim /\ UNCHANGED <<autoFile, replayed>>
      BY <1>13 DEF EditUndone
    <2>2. auto' \in Knowing'
      BY <1>1, <1>3, <1>4, <2>1, KnowingStays
    <2>3. ClaimIsNew'
      BY <1>4, <2>1 DEF ClaimIsNew
    <2> QED
      BY <1>3, <1>5, <2>1, <2>2, <2>3
  <1>14. CASE Configure \/ Resume
    <2>1. UNCHANGED <<autoFile, claimed, replayed>> /\ undo' = {auto}
      BY <1>14 DEF Configure, Resume, Undoable
    <2>2. auto'.next = NextAfter(now, zone) /\ auto'.fired = {}
      BY <1>1, <1>14 DEF Configure, Resume, Autos
    <2>3. auto' \in Autos
      BY <1>4, RunsStep, SlotsLeft DEF RunsInv, AutoShapeOK
    <2>4. auto' \in Knowing
      BY <1>1, <2>2, <2>3, SwitchedOnKnows
    <2> QED
      BY <1>6, <2>1, <2>2, <2>4
  <1>15. CASE Pause
    <2>1. UNCHANGED <<autoFile, claimed, replayed>> /\ undo' = {auto}
          /\ auto' = [auto EXCEPT !.enabled = FALSE, !.next = NoSlot]
      BY <1>15 DEF Pause, Undoable
    <2>2. auto' \in Autos /\ auto'.id = auto.id /\ auto'.run = auto.run /\ auto'.next = NoSlot
          /\ auto'.last = auto.last /\ auto'.fired = auto.fired
      BY <1>1, <2>1, NoSlotIs DEF Autos
    <2>3. KnowsWhatFired(auto')
      BY <1>3, <2>2 DEF KnowsWhatFired, LastKnown
    <2>4. IntervalIsTimes(auto')
      BY <1>3, <2>2 DEF IntervalIsTimes
    <2> QED
      BY <1>6, <2>1, <2>2, <2>3, <2>4 DEF Knowing
  <1>16. CASE DeleteAutomation
    <2>1. UNCHANGED <<autoFile, claimed, replayed>> /\ undo' = {auto} /\ auto' = NoAuto
      BY <1>16 DEF DeleteAutomation, Undoable
    <2>2. NoAuto.id = 0 /\ NoAuto.next = NoSlot /\ NoAuto.fired = {}
      BY DEF NoAuto
    <2>3. NoAuto \in Autos
      BY NoSlotIs, AutomationNumbers DEF NoAuto, Autos
    <2>4. NoAuto \in Knowing
      BY <2>2, <2>3 DEF Knowing, KnowsWhatFired, IntervalIsTimes
    <2> QED
      BY <1>6, <2>1, <2>2, <2>4
  <1>17. CASE MoveZone
    <2>1. UNCHANGED <<now, autoFile, undo, claimed, replayed>> /\ zone' \in Nat
      BY <1>17, AutomationNumbers DEF MoveZone
    <2>2. CASE auto' = auto
      BY <1>3, <1>6, <2>1, <2>2
    <2>3. CASE auto' # auto
      <3> DEFINE next == NextAfterLast(now, zone', auto.last)
      <3>1. auto' = [auto EXCEPT !.next = next] /\ auto.run = NoSlot /\ schedule # "interval" /\ auto.enabled
        BY <1>17, <2>3 DEF MoveZone
      <3>2. schedule \in Dated
        BY <1>1, <3>1
      <3>3. next \in Runs /\ (next # NoSlot => next.slot > auto.last.slot)
        BY <1>1, <2>1, <3>2, NextAfterLastIs
      <3> HIDE DEF next
      <3>4. auto' \in Autos /\ auto'.id = auto.id /\ auto'.run = auto.run /\ auto'.next = next
            /\ auto'.last = auto.last /\ auto'.fired = auto.fired
        BY <1>1, <3>1, <3>3 DEF Autos
      <3>5. LastKnown(auto) = auto.last.slot /\ LastKnown(auto') = auto.last.slot
        BY <3>1, <3>4 DEF LastKnown
      <3>6. auto.last.slot \in Nat /\ (next # NoSlot => next.slot \in Nat)
        BY <1>1, <3>3, RunIs, NoSlotIs
      <3>7. auto.id # 0 => \A s \in auto.fired : s <= auto.last.slot /\ (next # NoSlot => s < next.slot)
        BY <1>2, <1>3, <3>2, <3>3, <3>5, <3>6 DEF KnowsWhatFired
      <3>8. KnowsWhatFired(auto')
        BY <3>4, <3>5, <3>7 DEF KnowsWhatFired
      <3>9. IntervalIsTimes(auto')
        BY <3>1 DEF IntervalIsTimes
      <3> QED
        BY <1>6, <2>1, <3>4, <3>8, <3>9 DEF Knowing
    <2> QED
      BY <2>2, <2>3
  <1>18. CASE Elapse \/ SaveAutomation
    BY <1>3, <1>6, <1>18 DEF Elapse, SaveAutomation
  <1>19. CASE RestartButler
    <2>1. UNCHANGED <<autoFile, replayed>> /\ claimed' = NoClaim /\ undo' = {} /\ auto' = Reconciled(autoFile)
      BY <1>19 DEF RestartButler
    <2>2. Reconciled(autoFile) \in Knowing
      BY <1>1, <1>3, ReconciledKnows
    <2>3. auto' \in Knowing'
      BY <1>1, <1>4, <2>1, <2>2, KnowingStays
    <2>4. ClaimIsNew'
      BY <1>4, <2>1 DEF ClaimIsNew
    <2> QED
      BY <1>3, <1>5, <2>1, <2>3, <2>4
  <1>20. CASE UNCHANGED autoVars
    BY <1>3, <1>6, <1>20 DEF autoVars
  <1> QED
    BY <1>7, <1>8, <1>9, <1>11, <1>12, <1>13, <1>14, <1>15, <1>16, <1>17, <1>18, <1>19, <1>20 DEF AutomationNext

\* Nothing has fired at first.
LEMMA FiringInitInv == AutomationInit => FiringInv
PROOF
  <1>1. NoAuto.id = 0 /\ NoAuto.next = NoSlot /\ NoAuto.fired = {}
    BY DEF NoAuto
  <1>2. NoAuto \in Autos
    BY NoSlotIs, AutomationNumbers DEF NoAuto, Autos
  <1>3. NoAuto \in Knowing
    BY <1>1, <1>2 DEF Knowing, KnowsWhatFired, IntervalIsTimes
  <1> QED
    BY <1>3 DEF AutomationInit, FiringInv, ClaimIsNew, SlotFiresOnce

\* Runs that are known have the automation's variables keep their types.
LEMMA RunsAreTyped == RunsInv => AutomationTypeOK
PROOF
  <1> SUFFICES ASSUME RunsInv PROVE AutomationTypeOK
    OBVIOUS
  <1>1. ASSUME NEW a \in Autos PROVE AutoType(a)
    <2>1. a.id \in 0..MaxEdits /\ a.enabled \in BOOLEAN /\ a.next \in Runs /\ a.run \in Runs /\ a.last \in Runs
          /\ a.fired \subseteq Slots
      BY DEF Autos
    <2>2. \A s \in {a.next, a.run, a.last} : s = NoSlot \/ (s.slot \in Slots /\ s.at \in Nat)
      BY <2>1, RunIs
    <2> QED
      BY <2>1, <2>2 DEF AutoType
  <1> QED
    BY <1>1 DEF RunsInv, AutoShapeOK, AutomationTypeOK

\* A weekly automation, one in a daily window or one at intervals runs no occurrence twice,
\* whatever the operator edits, whichever edits are undone, however the zone moves and
\* wherever Butler restarts.
THEOREM SlotsFireOnce ==
    ASSUME Kinds \subseteq Dated \cup {"interval"}
    PROVE  AutomationSpec => []SlotFiresOnce
PROOF
  <1>1. RunsInv /\ FiringInv => SlotFiresOnce
    BY DEF FiringInv
  <1>2. RunsInv /\ FiringInv /\ [AutomationNext]_autoVars => (RunsInv /\ FiringInv)'
    BY RunsStep, FiringStep
  <1>3. AutomationInit => RunsInv /\ FiringInv
    BY RunsInitInv, FiringInitInv
  <1> QED
    BY <1>1, <1>2, <1>3, PTL DEF AutomationSpec

-----------------------------------------------------------------------------
(* The two drivers together.                                               *)

\* A step is one driver's, and leaves the other's state alone.
LEMMA StepOfADriver == [Next]_sessionsVars => [AutomationNext]_autoVars /\ [PromptNext]_promptVars
  BY DEF Next, Only, sessionsVars

\* Both drivers keep their invariants, whichever of them runs.
LEMMA SessionsInvariant == Spec => [](RunsInv /\ PromptInv)
PROOF
  <1>1. Init => RunsInv /\ PromptInv
    BY RunsInitInv, PromptInitInv DEF Init
  <1>2. RunsInv /\ PromptInv /\ [Next]_sessionsVars => (RunsInv /\ PromptInv)'
    BY StepOfADriver, RunsStep, PromptStep
  <1> QED
    BY <1>1, <1>2, PTL DEF Spec

\* The session's drivers keep their state in its type, through restarts, failures and
\* replacements of the session.
THEOREM SessionsKeepTypes == Spec => []SessionsTypeOK
PROOF
  <1>1. RunsInv /\ PromptInv => SessionsTypeOK
    BY RunsAreTyped DEF PromptInv, SessionsTypeOK
  <1> QED
    BY <1>1, SessionsInvariant, PTL

\* In the specification that the run checks, no message that was turned away is shown.
COROLLARY SessionsKeepOut == Spec => []TurnedAwayStaysOut
PROOF
  <1>1. PromptInv => TurnedAwayStaysOut
    BY DEF PromptInv
  <1> QED
    BY <1>1, SessionsInvariant, PTL

\* In the specification that the run checks, no occurrence fires twice.
COROLLARY SessionsFireOnce ==
    ASSUME Kinds \subseteq Dated \cup {"interval"}
    PROVE  Spec => []SlotFiresOnce
PROOF
  <1>1. RunsInv /\ FiringInv => SlotFiresOnce
    BY DEF FiringInv
  <1>2. RunsInv /\ FiringInv /\ [Next]_sessionsVars => (RunsInv /\ FiringInv)'
    BY StepOfADriver, RunsStep, FiringStep
  <1>3. Init => RunsInv /\ FiringInv
    BY RunsInitInv, FiringInitInv DEF Init
  <1> QED
    BY <1>1, <1>2, <1>3, PTL DEF Spec
=============================================================================
