---------------------------- MODULE ProcessesProofs ----------------------------
(***************************************************************************)
(* Proofs about a Worker's session and its Pi process, and about the       *)
(* composition of the session with the host controller that TLC runs.  The *)
(* invariant follows the generations: a stop that has the newest one knows *)
(* that its abort is the last thing Pi was asked, so that what Pi still    *)
(* says is over when the answer is read.  A second invariant, on top of    *)
(* it, follows the order in which Pi answers: that of the generations.     *)
(***************************************************************************)
EXTENDS MCProcesses, HostRestartProofs

SesRecs  == [version : Nat, accepted : Nat, stream : Nat, pending : SUBSET Nat, deaf : BOOLEAN]
SendPcs  == {"new", "loading", "resolving", "prompting", "acked", "nacked",
             "accepted", "refused", "stale", "uncertain", "failed"}
SendRecs == [pc : SendPcs, at : Nat, gen : Nat]
StopRecs == [pc : {"none", "aborting", "aborted", "abortFailed"}, at : Nat, gen : Nat,
             wasVersion : Nat, wasAccepted : Nat, bounded : BOOLEAN]
Inputs   == Sends \cup {"state", "probe", "abort"}
LineKinds == {"ack", "nack", "start", "open", "close", "settled", "aborted", "abortFailed", "state", "probe"}
Lines    == [k : LineKinds, v : Sends \cup Nat \cup {"idle", "busy"}]
PiRecs   == [up : BOOLEAN, run : BOOLEAN, turn : Nat, inbox : Seq(Inputs)]
TurnStates == {"none", "open", "completed", "interrupted", "stopped", "restarted", "presumed"}

SessionTypes ==
    /\ row \in {"idle", "active", "gone"}
    /\ turns \in [1..MaxTurns -> TurnStates]
    /\ made \in 0..MaxSessions /\ live \in 0..made
    /\ ses \in SesRecs /\ send \in [Sends -> SendRecs] /\ stopper \in StopRecs
    /\ loading \in {"none", "making", "asking", "idle", "busy"}
    /\ deleter \in {"none", "waiting", "removing", "stopping"}
    /\ holder \in Sends \cup {"none", "stop", "delete"}
    /\ pi \in PiRecs /\ opened \in 0..MaxTurns /\ wire \in Seq(Lines)

\* Generations do not run ahead of the version, and a stop that waits for Pi has
\* the newest one, unless something began after it.
Versions ==
    /\ ses.accepted <= ses.version /\ ses.stream <= ses.version
    /\ \A g \in ses.pending : g <= ses.version
    /\ \A o \in Sends : send[o].at <= made
    /\ \A o \in Sends : InFlight(o) /\ send[o].at = live /\ live # None => send[o].gen <= ses.version
    /\ stopper.at <= made

StopOwns ==
    stopper.pc # "none" /\ stopper.at = live /\ live # None =>
        /\ stopper.gen <= ses.version /\ stopper.gen = stopper.wasVersion + 1
        /\ stopper.wasAccepted <= stopper.wasVersion
        /\ ses.version = stopper.gen =>
              /\ ses.accepted = None /\ ses.stream <= stopper.wasVersion
              /\ \A g \in ses.pending : g <= stopper.wasVersion
              /\ \A o \in Sends : InFlight(o) /\ send[o].at = live => send[o].gen <= stopper.wasVersion

\* Nothing is there and nothing is said without a session.
NothingWithoutSession ==
    /\ live = None => wire = <<>> /\ ~pi.up
    /\ loading = "making" => live = None /\ made < MaxSessions
    /\ ~pi.up => ~pi.run
    /\ pi.turn # None => pi.run
    /\ pi.turn <= opened

\* The state of a new Pi is asked for once, first, and not answered twice.
StateAskedOnce ==
    /\ pi.up => \A i \in 1..Len(pi.inbox) :
          pi.inbox[i] = "state" => i = 1 /\ wire = <<>> /\ loading = "asking" /\ ~pi.run
    /\ \A i \in 1..Len(wire) :
          wire[i].k = "state" => i = 1 /\ loading = "asking" /\ wire[i].v \in {"idle", "busy"}
                                 /\ (pi.up => \A j \in 1..Len(pi.inbox) : pi.inbox[j] # "state")

\* What a deletion has removed stays without a load, and its session is deaf and
\* about to be stopped.
Removal ==
    /\ deleter \in {"waiting", "removing"} => row # "gone"
    /\ deleter = "stopping" => row = "gone"
    /\ deleter \in {"removing", "stopping"} => loading = "none"
    /\ row = "gone" => loading = "none"
    /\ row = "gone" /\ live # None => deleter = "stopping" /\ ses.deaf

\* An abort is asked and answered once, for the stop under way.
AbortAskedOnce ==
    /\ pi.up => \A i \in 1..Len(pi.inbox) :
          pi.inbox[i] = "abort" =>
             /\ stopper.pc = "aborting" /\ stopper.at = live
             /\ \A j \in 1..Len(pi.inbox) : pi.inbox[j] = "abort" => j = i
             /\ \A j \in 1..Len(wire) : wire[j].k \notin {"aborted", "abortFailed"}
    /\ \A i \in 1..Len(wire) :
          wire[i].k \in {"aborted", "abortFailed"} =>
             /\ stopper.pc = "aborting" /\ stopper.at = live
             /\ \A j \in 1..Len(wire) : wire[j].k \in {"aborted", "abortFailed"} => j = i

StopIsNewest == stopper.pc # "none" /\ Current(stopper.at, stopper.gen)

\* While nothing newer than the stop has begun, no message follows the abort, no
\* run and no turn follow its answer.
NothingAfterAbort ==
    StopIsNewest =>
        /\ pi.up => \A i, j \in 1..Len(pi.inbox) : pi.inbox[i] = "abort" /\ i < j => pi.inbox[j] \notin Sends
        /\ \A i \in 1..Len(wire) :
              wire[i].k = "aborted" =>
                 /\ ~pi.run /\ \A j \in 1..Len(pi.inbox) : pi.inbox[j] \notin Sends
                 /\ \A j \in 1..Len(wire) : i < j => wire[j].k \notin {"open", "close"}
        /\ stopper.pc = "aborted" =>
              /\ ~pi.run /\ \A j \in 1..Len(pi.inbox) : pi.inbox[j] \notin Sends
              /\ \A j \in 1..Len(wire) : wire[j].k \notin {"open", "close"}

\* Pi is done with a turn that was stopped, and has said all it had to say of it.
StoppedIsOver ==
    /\ \A t \in 1..MaxTurns : opened < t => turns[t] = "none"
    /\ \A i \in 1..Len(wire) : wire[i].k \in {"open", "close"} => wire[i].v \in 1..opened
    /\ \A t \in 1..MaxTurns :
          turns[t] = "stopped" =>
             /\ pi.turn # t
             /\ \A i \in 1..Len(wire) : wire[i].k \in {"open", "close"} => wire[i].v # t

WorkerInv ==
    /\ SessionTypes /\ Versions /\ StopOwns /\ NothingWithoutSession /\ StateAskedOnce /\ Removal
    /\ AbortAskedOnce /\ NothingAfterAbort /\ StoppedIsOver

\* What is asked of Pi and what it says is told from the Worker's messages.
LEMMA MessagesAre ==
    /\ MaxSessions \in Nat /\ MaxTurns \in Nat
    /\ \A o \in Sends : o \notin {"state", "probe", "abort", "none", "stop", "delete"}
  BY SessionBounds, SendsAreMessages

\* The generations of a session after each of its changes.
LEMMA SesIs ==
    ASSUME NEW s \in SesRecs
    PROVE  /\ Begun(s) \in SesRecs /\ Begun(s).version = s.version + 1 /\ Begun(s).accepted = s.version + 1
           /\ Begun(s).stream = s.stream /\ Begun(s).pending = s.pending
           /\ Invalidated(s) \in SesRecs /\ Invalidated(s).version = s.version + 1
           /\ Invalidated(s).accepted = None
           /\ Invalidated(s).stream = s.stream /\ Invalidated(s).pending = s.pending
           /\ NoSession \in SesRecs /\ NoSession.version = 0 /\ NoSession.accepted = None
           /\ NoSession.stream = None /\ NoSession.pending = {}
PROOF
  <1>1. s.version \in Nat /\ s.version + 1 \in Nat /\ 0 \in Nat
    BY DEF SesRecs
  <1>2. \A a, b \in Nat :
           LET t == [s EXCEPT !.version = a, !.accepted = b]
           IN  t \in SesRecs /\ t.version = a /\ t.accepted = b /\ t.stream = s.stream /\ t.pending = s.pending
    BY DEF SesRecs
  <1>3. /\ Begun(s) = [s EXCEPT !.version = s.version + 1, !.accepted = s.version + 1]
        /\ Invalidated(s) = [s EXCEPT !.version = s.version + 1, !.accepted = 0]
    BY DEF Begun, Invalidated, None
  <1>4. NoSession \in SesRecs /\ NoSession.version = 0 /\ NoSession.accepted = None
        /\ NoSession.stream = None /\ NoSession.pending = {}
    BY DEF NoSession, SesRecs, None
  <1> HIDE DEF SesRecs
  <1> DEFINE n == s.version + 1
  <1>5. n \in Nat
    BY <1>1
  <1> HIDE DEF n
  <1>6. LET t == [s EXCEPT !.version = n, !.accepted = n]
        IN  t \in SesRecs /\ t.version = n /\ t.accepted = n /\ t.stream = s.stream /\ t.pending = s.pending
    BY <1>2, <1>5
  <1>7. LET t == [s EXCEPT !.version = n, !.accepted = 0]
        IN  t \in SesRecs /\ t.version = n /\ t.accepted = 0 /\ t.stream = s.stream /\ t.pending = s.pending
    BY <1>1, <1>2, <1>5
  <1>8. Begun(s) = [s EXCEPT !.version = n, !.accepted = n] /\ Invalidated(s) = [s EXCEPT !.version = n, !.accepted = 0]
    BY <1>3 DEF n
  <1>9. n = s.version + 1
    BY DEF n
  <1> QED
    BY <1>4, <1>6, <1>7, <1>8, <1>9 DEF None

LEMMA SesPendingIs ==
    ASSUME NEW s \in SesRecs, NEW gens \in SUBSET Nat
    PROVE  LET t == [s EXCEPT !.pending = gens]
           IN  /\ t \in SesRecs /\ t.version = s.version /\ t.accepted = s.accepted
               /\ t.stream = s.stream /\ t.pending = gens
  BY DEF SesRecs

\* A session that was made deaf stays it.
LEMMA DeafIs ==
    ASSUME NEW s \in SesRecs
    PROVE  /\ Begun(s).deaf = s.deaf /\ Invalidated(s).deaf = s.deaf
           /\ \A gens : [s EXCEPT !.pending = gens].deaf = s.deaf
  BY DEF Begun, Invalidated, SesRecs

\* The process after each of its changes.
LEMMA PiIs ==
    ASSUME NEW p \in PiRecs, NEW q \in Seq(Inputs), NEW t \in Nat
    PROVE  /\ [p EXCEPT !.inbox = q] \in PiRecs /\ [p EXCEPT !.inbox = q].up = p.up
           /\ [p EXCEPT !.inbox = q].run = p.run /\ [p EXCEPT !.inbox = q].turn = p.turn
           /\ [p EXCEPT !.inbox = q].inbox = q
           /\ [p EXCEPT !.turn = t] \in PiRecs /\ [p EXCEPT !.turn = t].up = p.up
           /\ [p EXCEPT !.turn = t].run = p.run /\ [p EXCEPT !.turn = t].turn = t
           /\ [p EXCEPT !.turn = t].inbox = p.inbox
  BY DEF PiRecs

LEMMA PiRunIs ==
    ASSUME NEW p \in PiRecs
    PROVE  /\ [p EXCEPT !.run = TRUE] \in PiRecs /\ [p EXCEPT !.run = TRUE].up = p.up
           /\ [p EXCEPT !.run = TRUE].run /\ [p EXCEPT !.run = TRUE].turn = p.turn
           /\ [p EXCEPT !.run = TRUE].inbox = p.inbox
           /\ [p EXCEPT !.run = FALSE, !.turn = None] \in PiRecs
           /\ [p EXCEPT !.run = FALSE, !.turn = None].up = p.up
           /\ ~[p EXCEPT !.run = FALSE, !.turn = None].run
           /\ [p EXCEPT !.run = FALSE, !.turn = None].turn = None
           /\ [p EXCEPT !.run = FALSE, !.turn = None].inbox = p.inbox
  BY DEF PiRecs, None

LEMMA NoProcessIs ==
    /\ NoProcess \in PiRecs /\ ~NoProcess.up /\ ~NoProcess.run /\ NoProcess.turn = None /\ NoProcess.inbox = <<>>
    /\ LET p == [NoProcess EXCEPT !.up = TRUE, !.inbox = <<"state">>]
       IN  p \in PiRecs /\ p.up /\ ~p.run /\ p.turn = None /\ p.inbox = <<"state">>
PROOF
  <1>1. <<>> \in Seq(Inputs) /\ <<"state">> \in Seq(Inputs)
    BY DEF Inputs
  <1> QED
    BY <1>1 DEF NoProcess, PiRecs, None

\* A line is added to what Pi has said, or the first one is read.
LEMMA LinesAre ==
    ASSUME NEW S, NEW s \in Seq(S)
    PROVE  /\ Len(s) \in Nat /\ \A i \in 1..Len(s) : s[i] \in S
           /\ <<>> \in Seq(S) /\ Len(<<>>) = 0
           /\ \A x \in S : /\ Append(s, x) \in Seq(S) /\ Len(Append(s, x)) = Len(s) + 1
                           /\ \A i \in 1..Len(s) : Append(s, x)[i] = s[i]
                           /\ Append(s, x)[Len(s) + 1] = x
           /\ s # <<>> => /\ Head(s) \in S /\ Head(s) = s[1] /\ Len(s) >= 1
                          /\ Tail(s) \in Seq(S) /\ Len(Tail(s)) = Len(s) - 1
                          /\ \A i \in 1..(Len(s) - 1) : Tail(s)[i] = s[i + 1]
  OBVIOUS

LEMMA MoreLinesAre ==
    ASSUME NEW S, NEW s \in Seq(S), NEW t \in Seq(S)
    PROVE  /\ s \o t \in Seq(S) /\ Len(s \o t) = Len(s) + Len(t)
           /\ \A i \in 1..Len(s) : (s \o t)[i] = s[i]
           /\ \A i \in 1..Len(t) : (s \o t)[Len(s) + i] = t[i]
  OBVIOUS

\* A request reaches the process.
LEMMA AskedIs ==
    ASSUME pi \in PiRecs, NEW what \in Inputs
    PROVE  /\ Asked(what) \in PiRecs /\ Asked(what).up = pi.up /\ Asked(what).run = pi.run
           /\ Asked(what).turn = pi.turn /\ Asked(what).inbox = Append(pi.inbox, what)
PROOF
  <1> DEFINE q == Append(pi.inbox, what)
  <1>1. q \in Seq(Inputs)
    BY DEF PiRecs
  <1>2. Asked(what) = [pi EXCEPT !.inbox = q]
    BY DEF Asked
  <1> HIDE DEF q
  <1>3. /\ [pi EXCEPT !.inbox = q] \in PiRecs /\ [pi EXCEPT !.inbox = q].up = pi.up
        /\ [pi EXCEPT !.inbox = q].run = pi.run /\ [pi EXCEPT !.inbox = q].turn = pi.turn
        /\ [pi EXCEPT !.inbox = q].inbox = q
    BY <1>1, PiIs
  <1>4. q = Append(pi.inbox, what)
    BY DEF q
  <1> QED
    BY <1>2, <1>3, <1>4

LEMMA BegunPendingIs ==
    ASSUME NEW s \in SesRecs
    PROVE  LET t == [Begun(s) EXCEPT !.pending = Begun(s).pending \cup {s.version + 1}]
           IN  /\ t \in SesRecs /\ t.version = s.version + 1 /\ t.accepted = s.version + 1
               /\ t.stream = s.stream /\ t.pending = s.pending \cup {s.version + 1} /\ t.deaf = s.deaf
PROOF
  <1> DEFINE b == Begun(s)
             gens == b.pending \cup {s.version + 1}
  <1>1. b \in SesRecs /\ b.version = s.version + 1 /\ b.accepted = s.version + 1 /\ b.stream = s.stream
        /\ b.pending = s.pending
    BY SesIs
  <1>2. gens \in SUBSET Nat /\ gens = s.pending \cup {s.version + 1}
    BY <1>1 DEF SesRecs
  <1>3. b.deaf = s.deaf
    BY DeafIs
  <1> HIDE DEF b, gens
  <1>4. /\ [b EXCEPT !.pending = gens] \in SesRecs
        /\ [b EXCEPT !.pending = gens].version = b.version /\ [b EXCEPT !.pending = gens].accepted = b.accepted
        /\ [b EXCEPT !.pending = gens].stream = b.stream /\ [b EXCEPT !.pending = gens].pending = gens
    BY <1>1, <1>2, SesPendingIs
  <1>5. [b EXCEPT !.pending = gens].deaf = b.deaf
    BY <1>1, DeafIs
  <1> QED
    BY <1>1, <1>2, <1>3, <1>4, <1>5 DEF b, gens

\* The numbers and sets the parts of the invariant compare.
Numbers ==
    /\ ses.version \in Nat /\ ses.accepted \in Nat /\ ses.stream \in Nat /\ ses.pending \subseteq Nat
    /\ \A o \in Sends : send[o].at \in Nat /\ send[o].gen \in Nat /\ send[o].pc \in SendPcs
    /\ stopper.at \in Nat /\ stopper.gen \in Nat /\ stopper.wasVersion \in Nat /\ stopper.wasAccepted \in Nat
    /\ live \in Nat /\ made \in Nat /\ live <= made /\ opened \in Nat /\ None = 0

LEMMA NumbersAre == SessionTypes => Numbers
PROOF
  <1> SUFFICES ASSUME SessionTypes PROVE Numbers
    OBVIOUS
  <1>1. /\ ses.version \in Nat /\ ses.accepted \in Nat /\ ses.stream \in Nat /\ ses.pending \subseteq Nat
    BY DEF SessionTypes, SesRecs
  <1>2. \A o \in Sends : send[o].at \in Nat /\ send[o].gen \in Nat /\ send[o].pc \in SendPcs
    BY DEF SessionTypes, SendRecs
  <1>3. stopper.at \in Nat /\ stopper.gen \in Nat /\ stopper.wasVersion \in Nat /\ stopper.wasAccepted \in Nat
    BY DEF SessionTypes, StopRecs
  <1>4. live \in Nat /\ made \in Nat /\ live <= made /\ opened \in Nat
    BY MessagesAre DEF SessionTypes
  <1> QED
    BY <1>1, <1>2, <1>3, <1>4 DEF Numbers, None

\* A message has its outcome, and its lock is free.
LEMMA EndsIs ==
    ASSUME SessionTypes, NEW o \in Sends, NEW how \in SendPcs, Ends(o, how)
    PROVE  /\ send' \in [Sends -> SendRecs] /\ send'[o].pc = how /\ send'[o].at = send[o].at
           /\ send'[o].gen = send[o].gen /\ \A q \in Sends : q # o => send'[q] = send[q]
           /\ holder' \in {holder, "none"}
  BY DEF Ends, SessionTypes, SendRecs

\* What is marked was open.
LEMMA MarkedIs ==
    ASSUME SessionTypes, NEW how \in TurnStates, NEW some \in SUBSET OpenTurns
    PROVE  /\ Marked(some, how) \in [1..MaxTurns -> TurnStates]
           /\ \A t \in 1..MaxTurns : turns[t] = "none" => Marked(some, how)[t] = "none"
           /\ \A t \in 1..MaxTurns : Marked(some, how)[t] = "stopped" => turns[t] = "stopped" \/ how = "stopped"
           /\ \A t \in 1..MaxTurns : turns[t] = "stopped" => Marked(some, how)[t] = "stopped"
  BY DEF Marked, OpenTurns, SessionTypes

\* A line is read: the others move up, and no answer to the request for the
\* state is left among them.
HeardFacts ==
    /\ wire # <<>> /\ live # None /\ wire' = Tail(wire) /\ Len(wire) \in Nat /\ Len(wire) >= 1
    /\ wire' \in Seq(Lines) /\ Len(wire') = Len(wire) - 1
    /\ wire[1] \in Lines /\ Head(wire) = wire[1]
    /\ \A i \in 1..Len(wire') : i + 1 \in 1..Len(wire) /\ wire'[i] = wire[i + 1] /\ wire'[i].k # "state"
    /\ UNCHANGED <<live, made, deleter, holder, pi, opened>>

LEMMA HeardIs ==
    ASSUME WorkerInv, Hears
    PROVE  HeardFacts
PROOF
  <1>1. /\ wire # <<>> /\ wire' = Tail(wire) /\ UNCHANGED <<live, made, deleter, holder, pi, opened>>
    BY DEF Hears
  <1>2. wire \in Seq(Lines) /\ (live = None => wire = <<>>)
    BY DEF WorkerInv, SessionTypes, NothingWithoutSession
  <1> HIDE DEF Lines
  <1>3. /\ Len(wire) \in Nat /\ Len(wire) >= 1 /\ wire' \in Seq(Lines) /\ Len(wire') = Len(wire) - 1
        /\ wire[1] \in Lines /\ Head(wire) = wire[1]
        /\ \A i \in 1..(Len(wire) - 1) : wire'[i] = wire[i + 1]
    BY <1>1, <1>2, LinesAre
  <1>4. \A i \in 1..Len(wire') : i + 1 \in 1..Len(wire) /\ i + 1 # 1 /\ wire'[i] = wire[i + 1]
    BY <1>3
  <1>5. \A i \in 1..Len(wire) : wire[i].k = "state" => i = 1
    BY DEF WorkerInv, StateAskedOnce
  <1>6. \A i \in 1..Len(wire') : i + 1 \in 1..Len(wire) /\ wire'[i] = wire[i + 1] /\ wire'[i].k # "state"
    BY <1>4, <1>5
  <1> QED
    BY <1>1, <1>2, <1>3, <1>6 DEF HeardFacts

\* Pi says more.
SaidFacts ==
    /\ wire' \in Seq(Lines) /\ Len(wire) \in Nat /\ Len(wire') \in Nat /\ Len(wire) < Len(wire')
    /\ \A i \in 1..Len(wire) : i \in 1..Len(wire') /\ wire'[i] = wire[i]

LEMMA SaidIs ==
    ASSUME SessionTypes, NEW more \in Seq(Lines), more # <<>>, wire' = wire \o more
    PROVE  /\ SaidFacts /\ Len(more) \in Nat /\ Len(wire') = Len(wire) + Len(more)
           /\ \A i \in 1..Len(wire') : i \notin 1..Len(wire) =>
                 i - Len(wire) \in 1..Len(more) /\ wire'[i] = more[i - Len(wire)]
PROOF
  <1>1. wire \in Seq(Lines)
    BY DEF SessionTypes
  <1> HIDE DEF Lines
  <1>2. /\ wire' \in Seq(Lines) /\ Len(wire') = Len(wire) + Len(more)
        /\ \A i \in 1..Len(wire) : wire'[i] = wire[i]
        /\ \A i \in 1..Len(more) : wire'[Len(wire) + i] = more[i]
    BY <1>1, MoreLinesAre
  <1>3. Len(wire) \in Nat /\ Len(more) \in Nat /\ Len(more) # 0
    BY <1>1, LinesAre
  <1>4. ASSUME NEW i \in 1..Len(wire'), i \notin 1..Len(wire)
        PROVE  i - Len(wire) \in 1..Len(more) /\ wire'[i] = more[i - Len(wire)]
    <2>1. i - Len(wire) \in 1..Len(more) /\ Len(wire) + (i - Len(wire)) = i
      BY <1>2, <1>3, <1>4
    <2> QED
      BY <1>2, <2>1
  <1> QED
    BY <1>2, <1>3, <1>4 DEF SaidFacts

\* One line more.
LEMMA SaysIs ==
    ASSUME SessionTypes, NEW line \in Lines, wire' = Append(wire, line)
    PROVE  SaidFacts /\ \A i \in 1..Len(wire') : i \notin 1..Len(wire) => i = Len(wire) + 1 /\ wire'[i] = line
PROOF
  <1>1. wire \in Seq(Lines)
    BY DEF SessionTypes
  <1> HIDE DEF Lines
  <1>2. /\ Len(wire) \in Nat /\ wire' \in Seq(Lines) /\ Len(wire') = Len(wire) + 1
        /\ \A i \in 1..Len(wire) : wire'[i] = wire[i]
        /\ wire'[Len(wire) + 1] = line
    BY <1>1, LinesAre
  <1> QED
    BY <1>2 DEF SaidFacts

\* A line of Pi's.
LEMMA LineIs ==
    ASSUME NEW k \in LineKinds, NEW v \in Sends \cup Nat \cup {"idle", "busy"}
    PROVE  Says(k, v) \in Lines /\ Says(k, v).k = k /\ Says(k, v).v = v
  BY DEF Says, Lines

\* Pi has read what was sent to it before; the rest waits.
Rest(d) ==
    /\ pi.up /\ pi'.up /\ pi' \in PiRecs /\ Len(pi.inbox) \in Nat /\ Len(pi'.inbox) = Len(pi.inbox) - d
    /\ \A i \in 1..Len(pi'.inbox) :
          i + d \in 1..Len(pi.inbox) /\ pi'.inbox[i] = pi.inbox[i + d] /\ pi'.inbox[i] # "state"

LEMMA ReadIs ==
    ASSUME WorkerInv, pi.up, pi.inbox # <<>>
    PROVE  LET p == [pi EXCEPT !.inbox = Tail(pi.inbox)]
           IN  /\ Len(pi.inbox) \in Nat /\ Len(pi.inbox) >= 1 /\ Head(pi.inbox) = pi.inbox[1]
               /\ pi.inbox[1] \in Inputs /\ live # None /\ pi.turn <= opened
               /\ p \in PiRecs /\ p.up /\ p.run = pi.run /\ p.turn = pi.turn
               /\ Len(p.inbox) = Len(pi.inbox) - 1
               /\ \A i \in 1..Len(p.inbox) :
                     i + 1 \in 1..Len(pi.inbox) /\ p.inbox[i] = pi.inbox[i + 1] /\ p.inbox[i] # "state"
PROOF
  <1> DEFINE q == Tail(pi.inbox)
             p == [pi EXCEPT !.inbox = q]
  <1>1. pi \in PiRecs /\ pi.inbox \in Seq(Inputs)
    BY DEF WorkerInv, SessionTypes, PiRecs
  <1> HIDE DEF Inputs
  <1>2. /\ Len(pi.inbox) \in Nat /\ Len(pi.inbox) >= 1 /\ Head(pi.inbox) = pi.inbox[1]
        /\ pi.inbox[1] \in Inputs /\ q \in Seq(Inputs) /\ Len(q) = Len(pi.inbox) - 1
        /\ \A i \in 1..(Len(pi.inbox) - 1) : q[i] = pi.inbox[i + 1]
    BY <1>1, LinesAre
  <1> HIDE DEF q
  <1>3. p \in PiRecs /\ p.up = pi.up /\ p.run = pi.run /\ p.turn = pi.turn /\ p.inbox = q
    BY <1>1, <1>2, PiIs
  <1>4. \A i \in 1..Len(pi.inbox) : pi.inbox[i] = "state" => i = 1
    BY DEF WorkerInv, StateAskedOnce
  <1>5. \A i \in 1..Len(q) : i + 1 \in 1..Len(pi.inbox) /\ i + 1 # 1 /\ q[i] = pi.inbox[i + 1]
    BY <1>2
  <1>6. \A i \in 1..Len(q) : i + 1 \in 1..Len(pi.inbox) /\ q[i] = pi.inbox[i + 1] /\ q[i] # "state"
    BY <1>4, <1>5
  <1>7. live # None /\ pi.turn <= opened
    BY DEF WorkerInv, NothingWithoutSession
  <1> HIDE DEF p
  <1>8. /\ p \in PiRecs /\ p.up /\ p.run = pi.run /\ p.turn = pi.turn /\ Len(p.inbox) = Len(pi.inbox) - 1
        /\ \A i \in 1..Len(p.inbox) :
              i + 1 \in 1..Len(pi.inbox) /\ p.inbox[i] = pi.inbox[i + 1] /\ p.inbox[i] # "state"
    BY <1>2, <1>3, <1>6
  <1> QED
    BY <1>2, <1>7, <1>8 DEF p, q

\* The process ends its run, after the turn it had open.
LEMMA RunEndsIs ==
    ASSUME SessionTypes, NEW line \in Lines, NEW settled \in BOOLEAN,
           pi.turn # None => pi.turn \in 1..opened
    PROVE  LET more == TurnEnds \o (IF settled THEN <<Says("settled", None)>> ELSE <<>>) \o <<line>>
           IN  /\ more \in Seq(Lines) /\ more # <<>> /\ more[Len(more)] = line
               /\ \A i \in 1..Len(more) : i # Len(more) =>
                     /\ more[i].k \in {"close", "settled"}
                     /\ more[i].k = "close" => pi.turn # None /\ more[i].v = pi.turn
PROOF
  <1> DEFINE closing == TurnEnds
             over == IF settled THEN <<Says("settled", None)>> ELSE <<>>
             both == closing \o over
             more == both \o <<line>>
  <1>1. pi.turn \in Nat
    BY DEF SessionTypes, PiRecs
  <1>2. /\ Says("settled", None) \in Lines /\ Says("settled", None).k = "settled"
        /\ Says("close", pi.turn) \in Lines /\ Says("close", pi.turn).k = "close"
        /\ Says("close", pi.turn).v = pi.turn
    BY <1>1, LineIs DEF LineKinds, None
  <1>3. /\ closing \in Seq(Lines) /\ Len(closing) \in Nat
        /\ \A i \in 1..Len(closing) : closing[i].k = "close" /\ pi.turn # None /\ closing[i].v = pi.turn
    <2>1. CASE pi.turn = None
      <3>1. closing = <<>>
        BY <2>1 DEF TurnEnds
      <3> QED
        BY <3>1
    <2>2. CASE pi.turn # None
      <3>1. closing = <<Says("close", pi.turn)>>
        BY <2>2 DEF TurnEnds
      <3> QED
        BY <1>2, <2>2, <3>1
    <2> QED
      BY <2>1, <2>2
  <1>4. over \in Seq(Lines) /\ Len(over) \in Nat /\ \A i \in 1..Len(over) : over[i].k = "settled"
    BY <1>2
  <1> HIDE DEF closing, over, Lines
  <1>5. /\ both \in Seq(Lines) /\ Len(both) = Len(closing) + Len(over)
        /\ \A i \in 1..Len(closing) : both[i] = closing[i]
        /\ \A i \in 1..Len(over) : both[Len(closing) + i] = over[i]
    BY <1>3, <1>4, MoreLinesAre
  <1>6. ASSUME NEW i \in 1..Len(both)
        PROVE  both[i].k \in {"close", "settled"} /\ (both[i].k = "close" => pi.turn # None /\ both[i].v = pi.turn)
    <2>1. CASE i \in 1..Len(closing)
      BY <1>3, <1>5, <2>1
    <2>2. CASE i \notin 1..Len(closing)
      <3>1. i - Len(closing) \in 1..Len(over) /\ Len(closing) + (i - Len(closing)) = i
        BY <1>3, <1>4, <1>5, <2>2
      <3> QED
        BY <1>4, <1>5, <3>1
    <2> QED
      BY <2>1, <2>2
  <1> HIDE DEF both
  <1>7. <<line>> \in Seq(Lines) /\ Len(<<line>>) = 1 /\ <<line>>[1] = line
    OBVIOUS
  <1>8. /\ more \in Seq(Lines) /\ Len(more) = Len(both) + 1 /\ Len(both) \in Nat
        /\ \A i \in 1..Len(both) : more[i] = both[i]
        /\ more[Len(both) + 1] = line
    <2>1. Len(both) \in Nat
      BY <1>5, LinesAre
    <2>2. /\ more \in Seq(Lines) /\ Len(more) = Len(both) + 1
          /\ \A i \in 1..Len(both) : more[i] = both[i]
          /\ \A i \in 1..1 : more[Len(both) + i] = <<line>>[i]
      BY <1>5, <1>7, MoreLinesAre
    <2> QED
      BY <1>7, <2>1, <2>2
  <1> HIDE DEF more
  <1>9. more # <<>> /\ more[Len(more)] = line
    BY <1>8
  <1>10. ASSUME NEW i \in 1..Len(more), i # Len(more)
         PROVE  /\ more[i].k \in {"close", "settled"}
                /\ more[i].k = "close" => pi.turn # None /\ more[i].v = pi.turn
    <2>1. i \in 1..Len(both) /\ more[i] = both[i]
      BY <1>8, <1>10
    <2> QED
      BY <1>6, <2>1
  <1> QED
    BY <1>8, <1>9, <1>10 DEF closing, over, both, more

\* What the process says when its run ends is made of lines.
LEMMA SpokenIs ==
    ASSUME SessionTypes, pi.turn # None => pi.turn \in 1..opened
    PROVE  /\ TurnEnds \in Seq(Lines) /\ <<Says("settled", None)>> \in Seq(Lines) /\ <<>> \in Seq(Lines)
           /\ TurnEnds \o <<>> = TurnEnds
PROOF
  <1>1. pi.turn \in Nat
    BY DEF SessionTypes, PiRecs
  <1>2. Says("settled", None) \in Lines /\ Says("close", pi.turn) \in Lines
    BY <1>1, LineIs DEF LineKinds, None
  <1> HIDE DEF Lines
  <1>3. TurnEnds \in Seq(Lines)
    BY <1>2 DEF TurnEnds
  <1>4. TurnEnds \o <<>> = TurnEnds
    BY <1>3
  <1> QED
    BY <1>2, <1>3, <1>4

\* Pi's answer to an abort it carries out.
RunAborts ==
    /\ pi' = [[pi EXCEPT !.inbox = Tail(pi.inbox)] EXCEPT !.run = FALSE, !.turn = None]
    /\ wire' = wire \o TurnEnds \o (IF pi.run THEN <<Says("settled", None)>> ELSE <<>>) \o <<Says("aborted", None)>>

\* A message goes on once the session is loaded.
LEMMA SendLoadedKeeps ==
    ASSUME WorkerInv, NEW o \in Sends, SendLoaded(o)
    PROVE  WorkerInv'
PROOF
  <1>1. /\ SessionTypes /\ Versions /\ StopOwns /\ NothingWithoutSession /\ StateAskedOnce /\ Removal
        /\ AbortAskedOnce /\ NothingAfterAbort /\ StoppedIsOver /\ Numbers
    BY NumbersAre DEF WorkerInv
  <1>2. /\ o \in Sends /\ send' \in [Sends -> SendRecs]
        /\ send'[o].pc = "resolving"
        /\ send'[o].at = live /\ send'[o].gen = ses.version
        /\ \A q \in Sends : q # o => send'[q] = send[q]
        /\ UNCHANGED <<row, turns, live, made, ses, loading, stopper, deleter, holder, pi, opened, wire>>
    BY <1>1 DEF SendLoaded, SessionTypes, SendRecs, SendPcs, Numbers, piVars
  <1>3. NothingWithoutSession' /\ StateAskedOnce' /\ Removal' /\ AbortAskedOnce' /\ NothingAfterAbort' /\ StoppedIsOver'
    BY <1>1, <1>2
    DEF NothingWithoutSession, StateAskedOnce, Removal, AbortAskedOnce, NothingAfterAbort, StopIsNewest,
        Current, StoppedIsOver
  <1>4. SessionTypes'
    <2>1. send' \in [Sends -> SendRecs]
      BY <1>1, <1>2 DEF SessionTypes
    <2> QED
      BY <1>1, <1>2, <2>1 DEF SessionTypes
  <1>5. Versions'
    <2>1. ses'.accepted <= ses'.version /\ ses'.stream <= ses'.version
      BY <1>1, <1>2 DEF Versions, Numbers, StopOwns
    <2>2. \A g \in ses'.pending : g <= ses'.version
      BY <1>1, <1>2 DEF Versions, Numbers, StopOwns
    <2>3. \A q \in Sends : send'[q].at <= made'
      BY <1>1, <1>2 DEF Versions, Numbers, StopOwns
    <2>4. \A q \in Sends : InFlight(q)' /\ send'[q].at = live' /\ live' # None => send'[q].gen <= ses'.version
      BY <1>1, <1>2 DEF Versions, Numbers, StopOwns, InFlight
    <2>5. stopper'.at <= made'
      BY <1>1, <1>2 DEF Versions, Numbers, StopOwns
    <2> QED
      BY <2>1, <2>2, <2>3, <2>4, <2>5 DEF Versions
  <1>6. StopOwns'
    BY <1>1, <1>2
    DEF Numbers, StopOwns, InFlight, Versions
  <1> QED
    BY <1>1, <1>3, <1>4, <1>5, <1>6 DEF WorkerInv

\* A message takes the lock.
LEMMA SendBeginsKeeps ==
    ASSUME WorkerInv, NEW o \in Sends, SendBegins(o)
    PROVE  WorkerInv'
PROOF
  <1>1. /\ SessionTypes /\ Versions /\ StopOwns /\ NothingWithoutSession /\ StateAskedOnce /\ Removal
        /\ AbortAskedOnce /\ NothingAfterAbort /\ StoppedIsOver /\ Numbers
    BY NumbersAre DEF WorkerInv
  <1>2. /\ o \in Sends /\ send' \in [Sends -> SendRecs]
        /\ send'[o].pc \in {"loading", "resolving"}
        /\ send'[o].at \in {send[o].at, live} /\ send'[o].gen \in Nat
        /\ \A q \in Sends : q # o => send'[q] = send[q]
        /\ holder' = o
        /\ UNCHANGED <<row, turns, live, made, ses, loading, stopper, deleter, pi, opened, wire>>
    <2> DEFINE r == IF live = None THEN [send[o] EXCEPT !.pc = "loading"]
                    ELSE [pc |-> "resolving", at |-> live, gen |-> ses.version]
    <2>1. /\ send' = [send EXCEPT ![o] = r] /\ holder' = o
          /\ UNCHANGED <<row, turns, live, made, ses, loading, stopper, deleter, pi, opened, wire>>
      BY DEF SendBegins, piVars
    <2>2. send \in [Sends -> SendRecs] /\ send[o] \in SendRecs
      BY <1>1 DEF SessionTypes
    <2>3. live \in Nat /\ ses.version \in Nat /\ send[o].gen \in Nat
      BY <1>1 DEF Numbers
    <2>4. r \in SendRecs /\ r.pc \in {"loading", "resolving"} /\ r.at \in {send[o].at, live} /\ r.gen \in Nat
      <3>1. CASE live = None
        <4>1. r = [send[o] EXCEPT !.pc = "loading"]
          BY <3>1
        <4> HIDE DEF r
        <4> QED
          BY <2>2, <2>3, <4>1 DEF SendRecs, SendPcs
      <3>2. CASE live # None
        <4>1. r = [pc |-> "resolving", at |-> live, gen |-> ses.version]
          BY <3>2
        <4> HIDE DEF r
        <4> QED
          BY <2>3, <4>1 DEF SendRecs, SendPcs
      <3> QED
        BY <3>1, <3>2
    <2> HIDE DEF r, SendRecs
    <2>5. /\ send' \in [Sends -> SendRecs] /\ send'[o] = r
          /\ \A q \in Sends : q # o => send'[q] = send[q]
      BY <2>1, <2>2, <2>4
    <2> QED
      BY <2>1, <2>4, <2>5
  <1>3. NothingWithoutSession' /\ StateAskedOnce' /\ Removal' /\ AbortAskedOnce' /\ NothingAfterAbort' /\ StoppedIsOver'
    BY <1>1, <1>2
    DEF NothingWithoutSession, StateAskedOnce, Removal, AbortAskedOnce, NothingAfterAbort, StopIsNewest,
        Current, StoppedIsOver
  <1>4. SessionTypes'
    <2>1. send' \in [Sends -> SendRecs]
      BY <1>1, <1>2 DEF SessionTypes
    <2>2. holder' \in Sends \cup {"none", "stop", "delete"}
      BY <1>1, <1>2 DEF SessionTypes
    <2> QED
      BY <1>1, <1>2, <2>1, <2>2 DEF SessionTypes
  <1>5. Versions'
    <2>1. ses'.accepted <= ses'.version /\ ses'.stream <= ses'.version
      BY <1>1, <1>2 DEF Versions, Numbers, StopOwns
    <2>2. \A g \in ses'.pending : g <= ses'.version
      BY <1>1, <1>2 DEF Versions, Numbers, StopOwns
    <2>3. \A q \in Sends : send'[q].at <= made'
      BY <1>1, <1>2 DEF Versions, Numbers, StopOwns
    <2>4. \A q \in Sends : InFlight(q)' /\ send'[q].at = live' /\ live' # None => send'[q].gen <= ses'.version
      BY <1>1, <1>2 DEF Versions, Numbers, StopOwns, InFlight
    <2>5. stopper'.at <= made'
      BY <1>1, <1>2 DEF Versions, Numbers, StopOwns
    <2> QED
      BY <2>1, <2>2, <2>3, <2>4, <2>5 DEF Versions
  <1>6. StopOwns'
    BY <1>1, <1>2
    DEF Numbers, StopOwns, InFlight, Versions
  <1> QED
    BY <1>1, <1>3, <1>4, <1>5, <1>6 DEF WorkerInv

\* A prompt is lost with its process.
LEMMA UnansweredKeeps ==
    ASSUME WorkerInv, NEW o \in Sends, Unanswered(o)
    PROVE  WorkerInv'
PROOF
  <1>1. /\ SessionTypes /\ Versions /\ StopOwns /\ NothingWithoutSession /\ StateAskedOnce /\ Removal
        /\ AbortAskedOnce /\ NothingAfterAbort /\ StoppedIsOver /\ Numbers
    BY NumbersAre DEF WorkerInv
  <1>2. /\ send[o].pc = "prompting"
        /\ o \in Sends /\ send' \in [Sends -> SendRecs]
        /\ send'[o].pc = "nacked"
        /\ send'[o].at = send[o].at /\ send'[o].gen = send[o].gen
        /\ \A q \in Sends : q # o => send'[q] = send[q]
        /\ UNCHANGED <<row, turns, live, made, ses, loading, stopper, deleter, holder, pi, opened, wire>>
    BY <1>1 DEF Unanswered, SessionTypes, SendRecs, SendPcs, piVars
  <1>3. NothingWithoutSession' /\ StateAskedOnce' /\ Removal' /\ AbortAskedOnce' /\ NothingAfterAbort' /\ StoppedIsOver'
    BY <1>1, <1>2
    DEF NothingWithoutSession, StateAskedOnce, Removal, AbortAskedOnce, NothingAfterAbort, StopIsNewest,
        Current, StoppedIsOver
  <1>4. SessionTypes'
    <2>1. send' \in [Sends -> SendRecs]
      BY <1>1, <1>2 DEF SessionTypes
    <2> QED
      BY <1>1, <1>2, <2>1 DEF SessionTypes
  <1>5. Versions'
    <2>1. ses'.accepted <= ses'.version /\ ses'.stream <= ses'.version
      BY <1>1, <1>2 DEF Versions, Numbers, StopOwns
    <2>2. \A g \in ses'.pending : g <= ses'.version
      BY <1>1, <1>2 DEF Versions, Numbers, StopOwns
    <2>3. \A q \in Sends : send'[q].at <= made'
      BY <1>1, <1>2 DEF Versions, Numbers, StopOwns
    <2>4. \A q \in Sends : InFlight(q)' /\ send'[q].at = live' /\ live' # None => send'[q].gen <= ses'.version
      BY <1>1, <1>2 DEF Versions, Numbers, StopOwns, InFlight
    <2>5. stopper'.at <= made'
      BY <1>1, <1>2 DEF Versions, Numbers, StopOwns
    <2> QED
      BY <2>1, <2>2, <2>3, <2>4, <2>5 DEF Versions
  <1>6. StopOwns'
    BY <1>1, <1>2
    DEF Numbers, StopOwns, InFlight, Versions
  <1> QED
    BY <1>1, <1>3, <1>4, <1>5, <1>6 DEF WorkerInv

\* A prompt that came too late is not sent.
LEMMA StaleKeeps ==
    ASSUME WorkerInv, NEW o \in Sends, Prompts(o), ~Current(send[o].at, send[o].gen)
    PROVE  WorkerInv'
PROOF
  <1>1. /\ SessionTypes /\ Versions /\ StopOwns /\ NothingWithoutSession /\ StateAskedOnce /\ Removal
        /\ AbortAskedOnce /\ NothingAfterAbort /\ StoppedIsOver /\ Numbers
    BY NumbersAre DEF WorkerInv
  <1>2. /\ o \in Sends /\ send' \in [Sends -> SendRecs]
        /\ send'[o].pc = "stale"
        /\ send'[o].at = send[o].at /\ send'[o].gen = send[o].gen
        /\ \A q \in Sends : q # o => send'[q] = send[q]
        /\ holder' \in {holder, "none"}
        /\ UNCHANGED <<row, turns, live, made, ses, loading, stopper, deleter, pi, opened, wire>>
    BY <1>1 DEF Prompts, Ends, SessionTypes, SendRecs, SendPcs, piVars
  <1>3. NothingWithoutSession' /\ StateAskedOnce' /\ Removal' /\ AbortAskedOnce' /\ NothingAfterAbort' /\ StoppedIsOver'
    BY <1>1, <1>2
    DEF NothingWithoutSession, StateAskedOnce, Removal, AbortAskedOnce, NothingAfterAbort, StopIsNewest,
        Current, StoppedIsOver
  <1>4. SessionTypes'
    <2>1. send' \in [Sends -> SendRecs]
      BY <1>1, <1>2 DEF SessionTypes
    <2>2. holder' \in Sends \cup {"none", "stop", "delete"}
      BY <1>1, <1>2 DEF SessionTypes
    <2> QED
      BY <1>1, <1>2, <2>1, <2>2 DEF SessionTypes
  <1>5. Versions'
    <2>1. ses'.accepted <= ses'.version /\ ses'.stream <= ses'.version
      BY <1>1, <1>2 DEF Versions, Numbers, StopOwns
    <2>2. \A g \in ses'.pending : g <= ses'.version
      BY <1>1, <1>2 DEF Versions, Numbers, StopOwns
    <2>3. \A q \in Sends : send'[q].at <= made'
      BY <1>1, <1>2 DEF Versions, Numbers, StopOwns
    <2>4. \A q \in Sends : InFlight(q)' /\ send'[q].at = live' /\ live' # None => send'[q].gen <= ses'.version
      BY <1>1, <1>2 DEF Versions, Numbers, StopOwns, InFlight
    <2>5. stopper'.at <= made'
      BY <1>1, <1>2 DEF Versions, Numbers, StopOwns
    <2> QED
      BY <2>1, <2>2, <2>3, <2>4, <2>5 DEF Versions
  <1>6. StopOwns'
    BY <1>1, <1>2
    DEF Numbers, StopOwns, InFlight, Versions
  <1> QED
    BY <1>1, <1>3, <1>4, <1>5, <1>6 DEF WorkerInv

\* What a prompt that goes out changes.
LEMMA PromptsIs ==
    ASSUME WorkerInv, NEW o \in Sends, Prompts(o), Current(send[o].at, send[o].gen)
    PROVE  /\ o \in Sends /\ send' \in [Sends -> SendRecs]
           /\ send'[o].pc = "prompting"
           /\ send'[o].at = live /\ send'[o].gen = ses.version + 1
           /\ \A q \in Sends : q # o => send'[q] = send[q]
           /\ live # None /\ ses' \in SesRecs /\ ses.version \in Nat
           /\ ses'.version = ses.version + 1 /\ ses'.accepted = ses.version + 1 /\ ses'.stream = ses.stream
           /\ ses'.pending = ses.pending \cup {ses.version + 1} /\ ses'.deaf = ses.deaf
           /\ pi' \in PiRecs /\ pi'.up = pi.up /\ pi'.run = pi.run /\ pi'.turn = pi.turn
           /\ pi'.inbox = Append(pi.inbox, o) /\ o \notin {"state", "abort"}
           /\ UNCHANGED <<row, turns, live, made, loading, stopper, deleter, holder, opened, wire>>
PROOF
  <1>1. /\ SessionTypes /\ Versions /\ StopOwns /\ NothingWithoutSession /\ StateAskedOnce /\ Removal
        /\ AbortAskedOnce /\ NothingAfterAbort /\ StoppedIsOver /\ Numbers
    BY NumbersAre DEF WorkerInv
  <1> QED
    <2>1. /\ ses' = [Begun(ses) EXCEPT !.pending = Begun(ses).pending \cup {ses.version + 1}] /\ pi' = Asked(o)
          /\ send' = [send EXCEPT ![o] = [pc |-> "prompting", at |-> live, gen |-> ses.version + 1]]
          /\ live # None /\ UNCHANGED <<row, turns, live, made, loading, stopper, deleter, holder, opened, wire>>
      BY DEF Prompts, Current
    <2>2. ses \in SesRecs /\ ses.version \in Nat /\ pi \in PiRecs /\ o \in Inputs
      BY <1>1 DEF SessionTypes, SesRecs, Inputs
    <2>3. ses' \in SesRecs /\ ses'.version = ses.version + 1 /\ ses'.accepted = ses.version + 1
          /\ ses'.stream = ses.stream /\ ses'.pending = ses.pending \cup {ses.version + 1} /\ ses'.deaf = ses.deaf
      BY <2>1, <2>2, BegunPendingIs
    <2>6. /\ pi' \in PiRecs /\ pi'.up = pi.up /\ pi'.run = pi.run /\ pi'.turn = pi.turn
          /\ pi'.inbox = Append(pi.inbox, o)
      BY <2>1, <2>2, AskedIs
    <2>7. send' \in [Sends -> SendRecs] /\ send'[o] = [pc |-> "prompting", at |-> live, gen |-> ses.version + 1]
          /\ \A q \in Sends : q # o => send'[q] = send[q]
      BY <1>1, <2>1, <2>2 DEF SessionTypes, SendRecs, SendPcs
    <2> QED
      BY <2>1, <2>2, <2>3, <2>6, <2>7, MessagesAre

\* A prompt goes out with a new generation.
LEMMA PromptsKeeps ==
    ASSUME WorkerInv, NEW o \in Sends, Prompts(o), Current(send[o].at, send[o].gen)
    PROVE  WorkerInv'
PROOF
  <1>1. /\ SessionTypes /\ Versions /\ StopOwns /\ NothingWithoutSession /\ StateAskedOnce /\ Removal
        /\ AbortAskedOnce /\ NothingAfterAbort /\ StoppedIsOver /\ Numbers
    BY NumbersAre DEF WorkerInv
  <1>2. /\ o \in Sends /\ send' \in [Sends -> SendRecs]
        /\ send'[o].pc = "prompting"
        /\ send'[o].at = live /\ send'[o].gen = ses.version + 1
        /\ \A q \in Sends : q # o => send'[q] = send[q]
        /\ live # None /\ ses' \in SesRecs /\ ses.version \in Nat
        /\ ses'.version = ses.version + 1 /\ ses'.accepted = ses.version + 1 /\ ses'.stream = ses.stream
        /\ ses'.pending = ses.pending \cup {ses.version + 1} /\ ses'.deaf = ses.deaf
        /\ pi' \in PiRecs /\ pi'.up = pi.up /\ pi'.run = pi.run /\ pi'.turn = pi.turn
        /\ pi'.inbox = Append(pi.inbox, o) /\ o \notin {"state", "abort"}
        /\ UNCHANGED <<row, turns, live, made, loading, stopper, deleter, holder, opened, wire>>
    BY PromptsIs
  <1>3. SessionTypes'
    <2>1. ses' \in SesRecs
      BY <1>1, <1>2 DEF SessionTypes
    <2>2. send' \in [Sends -> SendRecs]
      BY <1>1, <1>2 DEF SessionTypes
    <2>3. pi' \in PiRecs
      BY <1>1, <1>2 DEF SessionTypes
    <2> QED
      BY <1>1, <1>2, <2>1, <2>2, <2>3 DEF SessionTypes
  <1>4. Versions'
    <2>1. ses'.accepted <= ses'.version /\ ses'.stream <= ses'.version
      BY <1>1, <1>2 DEF Versions, Numbers
    <2>2. \A g \in ses'.pending : g <= ses'.version
      BY <1>1, <1>2 DEF Versions, Numbers
    <2>3. \A q \in Sends : send'[q].at <= made' /\ stopper'.at <= made'
      BY <1>1, <1>2 DEF Versions, Numbers
    <2>4. ASSUME NEW q \in Sends, InFlight(q)', send'[q].at = live' PROVE send'[q].gen <= ses'.version
      <3>1. CASE q = o
        BY <1>2, <3>1
      <3>2. CASE q # o
        BY <1>1, <1>2, <2>4, <3>2 DEF Versions, InFlight, Numbers
      <3> QED
        BY <3>1, <3>2
    <2> QED
      BY <1>1, <1>2, <2>1, <2>2, <2>3, <2>4 DEF Versions
  <1>5. StopOwns'
    BY <1>1, <1>2
    DEF Numbers, StopOwns, InFlight, Versions
  <1>6. NothingWithoutSession'
    BY <1>1, <1>2
    DEF Numbers, NothingWithoutSession
  <1>7. StateAskedOnce'
    BY <1>1, <1>2
    DEF SessionTypes, StateAskedOnce, NothingWithoutSession
  <1>8. Removal'
    BY <1>1, <1>2
    DEF Numbers, Removal, NothingWithoutSession, StateAskedOnce
  <1>9. AbortAskedOnce'
    BY <1>1, <1>2
    DEF SessionTypes, AbortAskedOnce, NothingWithoutSession
  <1>10. NothingAfterAbort'
    BY <1>1, <1>2
    DEF SessionTypes, NothingAfterAbort, StopIsNewest, Current, StopOwns, AbortAskedOnce,
        NothingWithoutSession
  <1>11. StoppedIsOver'
    BY <1>1, <1>2
    DEF SessionTypes, StoppedIsOver, NothingAfterAbort, NothingWithoutSession
  <1> QED
    BY <1>1, <1>3, <1>4, <1>5, <1>6, <1>7, <1>8, <1>9, <1>10, <1>11 DEF WorkerInv

\* A message that was answered has its outcome: the session speaks for it, or for
\* nobody, or for whoever took the generation over.
MessageEnds(o) ==
    /\ InFlight(o) /\ holder' \in {holder, "none"}
    /\ o \in Sends /\ send' \in [Sends -> SendRecs]
    /\ send'[o].pc \in {"accepted", "uncertain", "refused"}
    /\ send'[o].at = send[o].at /\ send'[o].gen = send[o].gen
    /\ \A q \in Sends : q # o => send'[q] = send[q]
    /\ ses' \in SesRecs /\ ses.version \in Nat /\ ses'.deaf = ses.deaf /\ ses'.pending \subseteq ses.pending
    /\ send[o].at = live /\ live # None => ses'.pending = ses.pending \ {send[o].gen}
    /\ \/ /\ ses'.version = ses.version /\ ses'.accepted = ses.accepted /\ ses'.stream = ses.stream
          /\ send'[o].pc = "uncertain"
       \/ /\ ses'.version = ses.version /\ ses'.accepted = ses.version /\ ses'.stream = ses.version
          /\ live # None /\ send[o].at = live /\ send[o].gen = ses.version
          /\ send[o].pc = "acked" /\ send'[o].pc = "accepted"
       \/ /\ ses'.version = ses.version + 1 /\ ses'.accepted = None /\ ses'.stream = ses.stream
          /\ send'[o].pc = "refused"
    /\ UNCHANGED <<row, turns, live, made, loading, stopper, deleter, pi, opened, wire>>

LEMMA AcceptedIs ==
    ASSUME WorkerInv, NEW o \in Sends, Accepted(o)
    PROVE  MessageEnds(o)
PROOF
  <1> DEFINE gens == ses.pending \ {send[o].gen}
             taken == [ses EXCEPT !.pending = gens]
             mine == send[o].at = live /\ live # None
  <1>1. SessionTypes /\ ses \in SesRecs /\ ses.version \in Nat /\ ses.pending \subseteq Nat /\ gens \in SUBSET Nat
    BY DEF WorkerInv, SessionTypes, SesRecs
  <1>2. taken \in SesRecs /\ taken.version = ses.version /\ taken.accepted = ses.accepted
        /\ taken.stream = ses.stream /\ taken.pending = gens
    BY <1>1, SesPendingIs
  <1>3. taken.deaf = ses.deaf
    BY <1>1, DeafIs
  <1>4. live # None => Unpended(send[o].gen) = taken
    BY DEF Unpended
  <1>5. live = None => Unpended(send[o].gen) = ses
    BY <1>1 DEF Unpended, SesRecs
  <1>6. \/ ~Current(send[o].at, send[o].gen) /\ ses' \in {ses, taken} /\ (mine => ses' = taken) /\ Ends(o, "uncertain")
        \/ /\ Current(send[o].at, send[o].gen) /\ Ends(o, "accepted")
           /\ ses' = [taken EXCEPT !.accepted = send[o].gen, !.stream = send[o].gen]
    BY <1>4, <1>5 DEF Accepted, Current
  <1> HIDE DEF taken
  <1>7. InFlight(o) /\ send[o].pc = "acked"
        /\ UNCHANGED <<row, turns, live, made, loading, stopper, deleter, pi, opened, wire>>
    BY DEF Accepted, InFlight, piVars
  <1>8. ASSUME NEW how \in {"accepted", "uncertain", "refused"}, Ends(o, how)
        PROVE  /\ holder' \in {holder, "none"} /\ send' \in [Sends -> SendRecs]
               /\ send'[o].pc = how /\ send'[o].at = send[o].at
               /\ send'[o].gen = send[o].gen /\ \A q \in Sends : q # o => send'[q] = send[q]
    BY <1>1, <1>8, EndsIs DEF SendPcs
  <1>9. gens \subseteq ses.pending
    OBVIOUS
  <1>10. CASE ~Current(send[o].at, send[o].gen) /\ ses' \in {ses, taken} /\ (mine => ses' = taken) /\ Ends(o, "uncertain")
    <2>1. /\ ses' \in SesRecs /\ ses'.deaf = ses.deaf /\ ses'.version = ses.version
          /\ ses'.accepted = ses.accepted /\ ses'.stream = ses.stream
      BY <1>1, <1>2, <1>3, <1>10
    <2>2. ses'.pending \in {ses.pending, gens} /\ (mine => ses'.pending = gens)
      BY <1>2, <1>10
    <2> QED
      BY <1>1, <1>7, <1>8, <1>10, <2>1, <2>2 DEF MessageEnds
  <1>11. CASE /\ Current(send[o].at, send[o].gen) /\ Ends(o, "accepted")
              /\ ses' = [taken EXCEPT !.accepted = send[o].gen, !.stream = send[o].gen]
    <2>1. mine /\ send[o].gen = ses.version
      BY <1>11 DEF Current
    <2>2. ses' \in SesRecs /\ ses'.version = ses.version /\ ses'.accepted = ses.version /\ ses'.stream = ses.version
          /\ ses'.pending = gens
      BY <1>1, <1>2, <1>11, <2>1 DEF SesRecs
    <2>3. ses'.deaf = ses.deaf
      BY <1>2, <1>3, <1>11 DEF SesRecs
    <2> HIDE DEF gens
    <2>4. gens \subseteq ses.pending /\ gens = ses.pending \ {send[o].gen}
      BY DEF gens
    <2> QED
      BY <1>1, <1>7, <1>8, <1>11, <2>1, <2>2, <2>3, <2>4 DEF MessageEnds
  <1> QED
    BY <1>6, <1>10, <1>11

LEMMA RefusedIs ==
    ASSUME WorkerInv, NEW o \in Sends, Refused(o)
    PROVE  MessageEnds(o)
PROOF
  <1> DEFINE gens == ses.pending \ {send[o].gen}
             taken == [ses EXCEPT !.pending = gens]
             mine == send[o].at = live /\ live # None
  <1>1. SessionTypes /\ ses \in SesRecs /\ ses.version \in Nat /\ ses.pending \subseteq Nat /\ gens \in SUBSET Nat
    BY DEF WorkerInv, SessionTypes, SesRecs
  <1>2. taken \in SesRecs /\ taken.version = ses.version /\ taken.accepted = ses.accepted
        /\ taken.stream = ses.stream /\ taken.pending = gens
    BY <1>1, SesPendingIs
  <1>3. taken.deaf = ses.deaf
    BY <1>1, DeafIs
  <1>4. live # None => Unpended(send[o].gen) = taken
    BY DEF Unpended
  <1>5. live = None => Unpended(send[o].gen) = ses
    BY <1>1 DEF Unpended, SesRecs
  <1>6. \/ ~Current(send[o].at, send[o].gen) /\ ses' \in {ses, taken} /\ (mine => ses' = taken) /\ Ends(o, "uncertain")
        \/ /\ Current(send[o].at, send[o].gen) /\ Ends(o, "refused")
           /\ ses' = Invalidated(taken)
    BY <1>4, <1>5 DEF Refused, Current
  <1> HIDE DEF taken
  <1>7. InFlight(o) /\ send[o].pc = "nacked"
        /\ UNCHANGED <<row, turns, live, made, loading, stopper, deleter, pi, opened, wire>>
    BY DEF Refused, InFlight, piVars
  <1>8. ASSUME NEW how \in {"accepted", "uncertain", "refused"}, Ends(o, how)
        PROVE  /\ holder' \in {holder, "none"} /\ send' \in [Sends -> SendRecs]
               /\ send'[o].pc = how /\ send'[o].at = send[o].at
               /\ send'[o].gen = send[o].gen /\ \A q \in Sends : q # o => send'[q] = send[q]
    BY <1>1, <1>8, EndsIs DEF SendPcs
  <1>9. gens \subseteq ses.pending
    OBVIOUS
  <1>10. CASE ~Current(send[o].at, send[o].gen) /\ ses' \in {ses, taken} /\ (mine => ses' = taken) /\ Ends(o, "uncertain")
    <2>1. /\ ses' \in SesRecs /\ ses'.deaf = ses.deaf /\ ses'.version = ses.version
          /\ ses'.accepted = ses.accepted /\ ses'.stream = ses.stream
      BY <1>1, <1>2, <1>3, <1>10
    <2>2. ses'.pending \in {ses.pending, gens} /\ (mine => ses'.pending = gens)
      BY <1>2, <1>10
    <2> QED
      BY <1>1, <1>7, <1>8, <1>10, <2>1, <2>2 DEF MessageEnds
  <1>11. CASE /\ Current(send[o].at, send[o].gen) /\ Ends(o, "refused")
              /\ ses' = Invalidated(taken)
    <2>1. mine /\ send[o].gen = ses.version
      BY <1>11 DEF Current
    <2>2. ses' \in SesRecs /\ ses'.version = ses.version + 1 /\ ses'.accepted = None /\ ses'.stream = ses.stream
          /\ ses'.pending = gens
      BY <1>1, <1>2, <1>11, SesIs
    <2>3. ses'.deaf = ses.deaf
      BY <1>2, <1>3, <1>11, DeafIs
    <2> HIDE DEF gens
    <2>4. gens \subseteq ses.pending /\ gens = ses.pending \ {send[o].gen}
      BY DEF gens
    <2> QED
      BY <1>1, <1>7, <1>8, <1>11, <2>1, <2>2, <2>3, <2>4 DEF MessageEnds
  <1> QED
    BY <1>6, <1>10, <1>11

\* A message comes to its end.
LEMMA MessageEndsKeeps ==
    ASSUME WorkerInv, NEW o \in Sends, MessageEnds(o)
    PROVE  WorkerInv'
PROOF
  <1>1. /\ SessionTypes /\ Versions /\ StopOwns /\ NothingWithoutSession /\ StateAskedOnce /\ Removal
        /\ AbortAskedOnce /\ NothingAfterAbort /\ StoppedIsOver /\ Numbers
    BY NumbersAre DEF WorkerInv
  <1>2. /\ InFlight(o) /\ holder' \in {holder, "none"}
        /\ o \in Sends /\ send' \in [Sends -> SendRecs]
        /\ send'[o].pc \in {"accepted", "uncertain", "refused"}
        /\ send'[o].at = send[o].at /\ send'[o].gen = send[o].gen
        /\ \A q \in Sends : q # o => send'[q] = send[q]
        /\ ses' \in SesRecs /\ ses.version \in Nat /\ ses'.deaf = ses.deaf /\ ses'.pending \subseteq ses.pending
        /\ \/ ses'.version = ses.version /\ ses'.accepted = ses.accepted /\ ses'.stream = ses.stream
           \/ /\ ses'.version = ses.version /\ ses'.accepted = ses.version /\ ses'.stream = ses.version
              /\ live # None /\ send[o].at = live /\ send[o].gen = ses.version
           \/ ses'.version = ses.version + 1 /\ ses'.accepted = None /\ ses'.stream = ses.stream
        /\ UNCHANGED <<row, turns, live, made, loading, stopper, deleter, pi, opened, wire>>
    BY DEF MessageEnds
  <1>3. NothingWithoutSession' /\ StateAskedOnce' /\ AbortAskedOnce' /\ StoppedIsOver'
    BY <1>1, <1>2
    DEF NothingWithoutSession, StateAskedOnce, AbortAskedOnce, StoppedIsOver
  <1>4. SessionTypes'
    <2>1. ses' \in SesRecs
      BY <1>1, <1>2 DEF SessionTypes
    <2>2. send' \in [Sends -> SendRecs]
      BY <1>1, <1>2 DEF SessionTypes
    <2>3. holder' \in Sends \cup {"none", "stop", "delete"}
      BY <1>1, <1>2 DEF SessionTypes
    <2> QED
      BY <1>1, <1>2, <2>1, <2>2, <2>3 DEF SessionTypes
  <1>5. Versions'
    <2>1. ses'.accepted <= ses'.version /\ ses'.stream <= ses'.version
      BY <1>1, <1>2 DEF Versions, Numbers, StopOwns
    <2>2. \A g \in ses'.pending : g <= ses'.version
      BY <1>1, <1>2 DEF Versions, Numbers, StopOwns
    <2>3. \A q \in Sends : send'[q].at <= made'
      BY <1>1, <1>2 DEF Versions, Numbers, StopOwns
    <2>4. \A q \in Sends : InFlight(q)' /\ send'[q].at = live' /\ live' # None => send'[q].gen <= ses'.version
      BY <1>1, <1>2 DEF Versions, Numbers, StopOwns, InFlight
    <2>5. stopper'.at <= made'
      BY <1>1, <1>2 DEF Versions, Numbers, StopOwns
    <2> QED
      BY <2>1, <2>2, <2>3, <2>4, <2>5 DEF Versions
  <1>6. StopOwns'
    BY <1>1, <1>2
    DEF Numbers, StopOwns, InFlight, Versions
  <1>7. Removal'
    BY <1>1, <1>2
    DEF Numbers, Removal, NothingWithoutSession, StateAskedOnce
  <1>8. NothingAfterAbort'
    BY <1>1, <1>2
    DEF SessionTypes, NothingAfterAbort, StopIsNewest, Current, StopOwns, AbortAskedOnce,
        NothingWithoutSession
  <1> QED
    BY <1>1, <1>3, <1>4, <1>5, <1>6, <1>7, <1>8 DEF WorkerInv

\* A message is accepted or refused, or it is not known whether it was.
LEMMA AcceptedKeeps ==
    ASSUME WorkerInv, NEW o \in Sends, Accepted(o) \/ Refused(o)
    PROVE  WorkerInv'
  BY AcceptedIs, RefusedIs, MessageEndsKeeps

\* A load begins.
LEMMA LoadBeginsKeeps ==
    ASSUME WorkerInv, LoadBegins
    PROVE  WorkerInv'
PROOF
  <1>1. /\ SessionTypes /\ Versions /\ StopOwns /\ NothingWithoutSession /\ StateAskedOnce /\ Removal
        /\ AbortAskedOnce /\ NothingAfterAbort /\ StoppedIsOver /\ Numbers
    BY NumbersAre DEF WorkerInv
  <1>2. /\ live = None /\ loading = "none" /\ loading' = "making" /\ deleter = "none" /\ row # "gone" /\ made < MaxSessions
        /\ UNCHANGED <<row, turns, live, made, ses, send, stopper, deleter, holder, pi, opened, wire>>
    BY DEF LoadBegins, piVars, callVars
  <1>3. Versions' /\ StopOwns' /\ AbortAskedOnce' /\ NothingAfterAbort' /\ StoppedIsOver'
    BY <1>1, <1>2
    DEF Versions, InFlight, StopOwns, AbortAskedOnce, NothingAfterAbort, StopIsNewest, Current,
        StoppedIsOver
  <1>4. SessionTypes'
    <2>1. loading' \in {"none", "making", "asking", "idle", "busy"}
      BY <1>1, <1>2 DEF SessionTypes
    <2> QED
      BY <1>1, <1>2, <2>1 DEF SessionTypes
  <1>5. NothingWithoutSession'
    BY <1>1, <1>2
    DEF Numbers, NothingWithoutSession
  <1>6. StateAskedOnce'
    BY <1>1, <1>2
    DEF SessionTypes, StateAskedOnce, NothingWithoutSession
  <1>7. Removal'
    BY <1>1, <1>2
    DEF Numbers, Removal, NothingWithoutSession, StateAskedOnce
  <1> QED
    BY <1>1, <1>3, <1>4, <1>5, <1>6, <1>7 DEF WorkerInv

\* A load fails, and those who wait for it.
LEMMA LoadFailsKeeps ==
    ASSUME WorkerInv, LoadFails
    PROVE  WorkerInv'
PROOF
  <1>1. /\ SessionTypes /\ Versions /\ StopOwns /\ NothingWithoutSession /\ StateAskedOnce /\ Removal
        /\ AbortAskedOnce /\ NothingAfterAbort /\ StoppedIsOver /\ Numbers
    BY NumbersAre DEF WorkerInv
  <1>2. /\ live = None /\ loading \in {"none", "making"} /\ loading' = "none" /\ holder' \in {holder, "none"}
        /\ send' \in [Sends -> SendRecs]
        /\ \A q \in Sends : send'[q].at = send[q].at /\ send'[q].gen = send[q].gen
        /\ \A q \in Sends : send'[q].pc = send[q].pc \/ send'[q].pc = "failed"
        /\ UNCHANGED <<row, turns, live, made, ses, stopper, deleter, pi, opened, wire>>
    <2>1. \A q \in Sends : send[q] \in SendRecs
      BY <1>1 DEF SessionTypes
    <2>3. send' = [o \in Sends |-> IF o \in Waiting THEN [send[o] EXCEPT !.pc = "failed"] ELSE send[o]]
      BY DEF LoadFails, WaitersFail
    <2>4. \A q \in Sends : send'[q] = send[q] \/ send'[q] = [send[q] EXCEPT !.pc = "failed"]
      BY <2>3
    <2>5. ASSUME NEW q \in Sends
          PROVE  send'[q] \in SendRecs /\ send'[q].at = send[q].at /\ send'[q].gen = send[q].gen
                 /\ (send'[q].pc = send[q].pc \/ send'[q].pc = "failed")
      <3>1. send[q] \in SendRecs
        BY <2>1
      <3> QED
        BY <2>4, <3>1 DEF SendRecs, SendPcs
    <2>6. send' \in [Sends -> SendRecs]
      BY <2>3, <2>5
    <2> QED
      BY <2>5, <2>6 DEF LoadFails, WaitersFail, piVars
  <1>3. AbortAskedOnce' /\ NothingAfterAbort' /\ StoppedIsOver'
    BY <1>1, <1>2
    DEF AbortAskedOnce, NothingAfterAbort, StopIsNewest, Current, StoppedIsOver
  <1>4. SessionTypes'
    <2>1. send' \in [Sends -> SendRecs]
      BY <1>1, <1>2 DEF SessionTypes
    <2>2. loading' \in {"none", "making", "asking", "idle", "busy"}
      BY <1>1, <1>2 DEF SessionTypes
    <2>3. holder' \in Sends \cup {"none", "stop", "delete"}
      BY <1>1, <1>2 DEF SessionTypes
    <2> QED
      BY <1>1, <1>2, <2>1, <2>2, <2>3 DEF SessionTypes
  <1>5. Versions'
    <2>1. ses'.accepted <= ses'.version /\ ses'.stream <= ses'.version
      BY <1>1, <1>2 DEF Versions, Numbers, StopOwns
    <2>2. \A g \in ses'.pending : g <= ses'.version
      BY <1>1, <1>2 DEF Versions, Numbers, StopOwns
    <2>3. \A q \in Sends : send'[q].at <= made'
      BY <1>1, <1>2 DEF Versions, Numbers, StopOwns
    <2>4. \A q \in Sends : InFlight(q)' /\ send'[q].at = live' /\ live' # None => send'[q].gen <= ses'.version
      BY <1>1, <1>2 DEF Versions, Numbers, StopOwns, InFlight
    <2>5. stopper'.at <= made'
      BY <1>1, <1>2 DEF Versions, Numbers, StopOwns
    <2> QED
      BY <2>1, <2>2, <2>3, <2>4, <2>5 DEF Versions
  <1>6. StopOwns'
    BY <1>1, <1>2
    DEF Numbers, StopOwns, InFlight, Versions
  <1>7. NothingWithoutSession'
    BY <1>1, <1>2
    DEF Numbers, NothingWithoutSession
  <1>8. StateAskedOnce'
    BY <1>1, <1>2
    DEF SessionTypes, StateAskedOnce, NothingWithoutSession
  <1>9. Removal'
    BY <1>1, <1>2
    DEF Numbers, Removal, NothingWithoutSession, StateAskedOnce
  <1> QED
    BY <1>1, <1>3, <1>4, <1>5, <1>6, <1>7, <1>8, <1>9 DEF WorkerInv

\* A session is made, and its Pi is asked for its state.
LEMMA SessionMadeKeeps ==
    ASSUME WorkerInv, SessionMade
    PROVE  WorkerInv'
PROOF
  <1>1. /\ SessionTypes /\ Versions /\ StopOwns /\ NothingWithoutSession /\ StateAskedOnce /\ Removal
        /\ AbortAskedOnce /\ NothingAfterAbort /\ StoppedIsOver /\ Numbers
    BY NumbersAre DEF WorkerInv
  <1>2. /\ loading = "making" /\ loading' = "asking" /\ deleter = "none" /\ row # "gone" /\ made + 1 \in 0..MaxSessions
        /\ made' = made + 1 /\ live' = made + 1 /\ wire' = <<>>
        /\ ses' \in SesRecs /\ ses'.version = 0 /\ ses'.accepted = 0 /\ ses'.stream = 0 /\ ses'.pending = {}
        /\ pi' \in PiRecs /\ pi'.up /\ ~pi'.run /\ pi'.turn = 0 /\ pi'.inbox = <<"state">>
        /\ UNCHANGED <<row, turns, send, stopper, deleter, holder, opened>>
    <2>1. ses' = NoSession /\ pi' = [NoProcess EXCEPT !.up = TRUE, !.inbox = <<"state">>]
      BY DEF SessionMade
    <2>2. loading = "making" /\ row # "gone" /\ made < MaxSessions
      BY <1>1 DEF SessionMade, Removal, NothingWithoutSession
    <2>3. made + 1 \in 0..MaxSessions
      BY <1>1, <2>2, MessagesAre DEF SessionTypes
    <2> QED
      BY <1>1, <2>1, <2>2, <2>3, SesIs, NoProcessIs DEF SessionMade, callVars, None, SessionTypes
  <1>3. SessionTypes'
    <2>1. made' \in 0..MaxSessions /\ live' \in 0..made'
      BY <1>1, <1>2 DEF SessionTypes
    <2>2. ses' \in SesRecs
      BY <1>1, <1>2 DEF SessionTypes
    <2>3. loading' \in {"none", "making", "asking", "idle", "busy"}
      BY <1>1, <1>2 DEF SessionTypes
    <2>4. pi' \in PiRecs
      BY <1>1, <1>2 DEF SessionTypes
    <2>5. wire' \in Seq(Lines)
      BY <1>1, <1>2 DEF SessionTypes
    <2> QED
      BY <1>1, <1>2, <2>1, <2>2, <2>3, <2>4, <2>5 DEF SessionTypes
  <1>4. Versions'
    <2>1. ses'.accepted <= ses'.version /\ ses'.stream <= ses'.version
      BY <1>1, <1>2 DEF Versions, Numbers, StopOwns
    <2>2. \A g \in ses'.pending : g <= ses'.version
      BY <1>1, <1>2 DEF Versions, Numbers, StopOwns
    <2>3. \A q \in Sends : send'[q].at <= made'
      BY <1>1, <1>2 DEF Versions, Numbers, StopOwns
    <2>4. \A q \in Sends : InFlight(q)' /\ send'[q].at = live' /\ live' # None => send'[q].gen <= ses'.version
      BY <1>1, <1>2 DEF Versions, Numbers, StopOwns, InFlight
    <2>5. stopper'.at <= made'
      BY <1>1, <1>2 DEF Versions, Numbers, StopOwns
    <2> QED
      BY <2>1, <2>2, <2>3, <2>4, <2>5 DEF Versions
  <1>5. StopOwns'
    BY <1>1, <1>2
    DEF Numbers, StopOwns, InFlight, Versions
  <1>6. NothingWithoutSession'
    BY <1>1, <1>2
    DEF Numbers, NothingWithoutSession
  <1>7. StateAskedOnce'
    BY <1>1, <1>2
    DEF SessionTypes, StateAskedOnce, NothingWithoutSession
  <1>8. Removal'
    BY <1>1, <1>2
    DEF Numbers, Removal, NothingWithoutSession, StateAskedOnce
  <1>9. AbortAskedOnce'
    BY <1>1, <1>2
    DEF SessionTypes, AbortAskedOnce, NothingWithoutSession
  <1>10. NothingAfterAbort'
    <2>1. StopIsNewest' => FALSE
      BY <1>1, <1>2 DEF StopIsNewest, Current, StopOwns, Versions, Numbers
    <2>2. CASE ~StopIsNewest'
      BY <2>2 DEF NothingAfterAbort
    <2>3. CASE StopIsNewest'
      BY <1>1, <1>2, <2>1, <2>3 DEF NothingAfterAbort, SessionTypes, NothingWithoutSession
    <2> QED
      BY <2>2, <2>3
  <1>11. StoppedIsOver'
    BY <1>1, <1>2
    DEF SessionTypes, StoppedIsOver, NothingAfterAbort, NothingWithoutSession
  <1> QED
    BY <1>1, <1>3, <1>4, <1>5, <1>6, <1>7, <1>8, <1>9, <1>10, <1>11 DEF WorkerInv

\* A load is done: the turn left open is interrupted, the row says what Pi answered.
LEMMA ResumedKeeps ==
    ASSUME WorkerInv, Resumed
    PROVE  WorkerInv'
PROOF
  <1>1. /\ SessionTypes /\ Versions /\ StopOwns /\ NothingWithoutSession /\ StateAskedOnce /\ Removal
        /\ AbortAskedOnce /\ NothingAfterAbort /\ StoppedIsOver /\ Numbers
    BY NumbersAre DEF WorkerInv
  <1>2. /\ loading' = "none" /\ (loading # "asking" \/ (~pi.up /\ wire = <<>>)) /\ loading # "making"
        /\ row # "gone" /\ row' \in {"idle", "active"}
        /\ turns' \in [1..MaxTurns -> TurnStates]
        /\ \A t \in 1..MaxTurns : turns[t] = "none" => turns'[t] = "none"
        /\ \A t \in 1..MaxTurns : turns'[t] = "stopped" => turns[t] = "stopped"
        /\ UNCHANGED <<live, made, ses, send, stopper, deleter, holder, pi, opened, wire>>
    <2>1. turns' = Marked(LastTurn, "restarted") /\ LastTurn \subseteq OpenTurns
      BY DEF Resumed, LastTurn
    <2>2. row # "gone"
      BY <1>1 DEF Resumed, Removal
    <2>3. row' \in {"idle", "active"}
      BY <2>2 DEF Resumed, AtRest
    <2> QED
      BY <1>1, <2>1, <2>2, <2>3, MarkedIs DEF Resumed, callVars, piVars, TurnStates
  <1>3. Versions' /\ StopOwns' /\ AbortAskedOnce' /\ NothingAfterAbort'
    BY <1>1, <1>2
    DEF Versions, InFlight, StopOwns, AbortAskedOnce, NothingAfterAbort, StopIsNewest, Current
  <1>4. SessionTypes'
    <2>1. row' \in {"idle", "active", "gone"}
      BY <1>1, <1>2 DEF SessionTypes
    <2>2. turns' \in [1..MaxTurns -> TurnStates]
      BY <1>1, <1>2 DEF SessionTypes
    <2>3. loading' \in {"none", "making", "asking", "idle", "busy"}
      BY <1>1, <1>2 DEF SessionTypes
    <2> QED
      BY <1>1, <1>2, <2>1, <2>2, <2>3 DEF SessionTypes
  <1>5. NothingWithoutSession'
    BY <1>1, <1>2
    DEF Numbers, NothingWithoutSession
  <1>6. StateAskedOnce'
    BY <1>1, <1>2
    DEF SessionTypes, StateAskedOnce, NothingWithoutSession
  <1>7. Removal'
    BY <1>1, <1>2
    DEF Numbers, Removal, NothingWithoutSession, StateAskedOnce
  <1>8. StoppedIsOver'
    BY <1>1, <1>2
    DEF SessionTypes, StoppedIsOver, NothingAfterAbort, NothingWithoutSession
  <1> QED
    BY <1>1, <1>3, <1>4, <1>5, <1>6, <1>7, <1>8 DEF WorkerInv

\* What a failed stop changes.
LEMMA StopFailsIs ==
    ASSUME WorkerInv, StopFails
    PROVE  /\ stopper'.pc = "none" /\ stopper'.at = 0 /\ stopper' \in StopRecs /\ holder' \in {holder, "none"}
           /\ stopper.pc = "abortFailed" \/ (stopper.pc = "aborting" /\ (live # stopper.at \/ (~pi.up /\ wire = <<>>)))
           /\ ses' \in SesRecs /\ ses'.stream = ses.stream /\ ses'.pending = ses.pending /\ ses'.deaf = ses.deaf
           /\ \/ ses'.version = ses.version /\ ses'.accepted = ses.accepted
              \/ /\ stopper.at = live /\ live # None /\ ses.version = stopper.gen
                 /\ ses'.version = stopper.wasVersion /\ ses'.accepted = stopper.wasAccepted
           /\ UNCHANGED <<row, turns, live, made, loading, send, deleter, pi, opened, wire>>
PROOF
  <1>1. /\ SessionTypes /\ Versions /\ StopOwns /\ NothingWithoutSession /\ StateAskedOnce /\ Removal
        /\ AbortAskedOnce /\ NothingAfterAbort /\ StoppedIsOver /\ Numbers
    BY NumbersAre DEF WorkerInv
  <1> QED
    <2>1. stopper' = NoStop /\ holder' \in {holder, "none"}
      BY DEF StopFails, StopEnds
    <2>2. stopper'.pc = "none" /\ stopper'.at = 0 /\ stopper' \in StopRecs
      BY <2>1 DEF NoStop, StopRecs, None
    <2>3. stopper.pc = "abortFailed" \/ (stopper.pc = "aborting" /\ (live # stopper.at \/ (~pi.up /\ wire = <<>>)))
      BY DEF StopFails
    <2>4. ses \in SesRecs /\ stopper.wasVersion \in Nat /\ stopper.wasAccepted \in Nat
      BY <1>1 DEF SessionTypes, Numbers
    <2>7. CASE Current(stopper.at, stopper.gen)
      <3>1. ses' = [ses EXCEPT !.version = stopper.wasVersion, !.accepted = stopper.wasAccepted]
        BY <2>7 DEF StopFails
      <3>2. ses'.deaf = ses.deaf
        BY <2>4, <3>1 DEF SesRecs
      <3>3. /\ ses' \in SesRecs /\ ses'.version = stopper.wasVersion /\ ses'.accepted = stopper.wasAccepted
            /\ ses'.stream = ses.stream /\ ses'.pending = ses.pending
        BY <2>4, <3>1 DEF SesRecs
      <3>4. UNCHANGED <<row, turns, live, made, loading, send, deleter, pi, opened, wire>>
        BY DEF StopFails, piVars
      <3> QED
        BY <2>1, <2>2, <2>3, <2>7, <3>2, <3>3, <3>4 DEF Current
    <2>8. CASE ~Current(stopper.at, stopper.gen)
      BY <2>1, <2>2, <2>3, <2>4, <2>8 DEF StopFails, piVars
    <2> QED
      BY <2>7, <2>8

\* A stop fails: unless something newer began, the work is the owner again.
LEMMA StopFailsKeeps ==
    ASSUME WorkerInv, StopFails
    PROVE  WorkerInv'
PROOF
  <1>1. /\ SessionTypes /\ Versions /\ StopOwns /\ NothingWithoutSession /\ StateAskedOnce /\ Removal
        /\ AbortAskedOnce /\ NothingAfterAbort /\ StoppedIsOver /\ Numbers
    BY NumbersAre DEF WorkerInv
  <1>2. /\ stopper'.pc = "none" /\ stopper'.at = 0 /\ stopper' \in StopRecs /\ holder' \in {holder, "none"}
        /\ stopper.pc = "abortFailed" \/ (stopper.pc = "aborting" /\ (live # stopper.at \/ (~pi.up /\ wire = <<>>)))
        /\ ses' \in SesRecs /\ ses'.stream = ses.stream /\ ses'.pending = ses.pending /\ ses'.deaf = ses.deaf
        /\ \/ ses'.version = ses.version /\ ses'.accepted = ses.accepted
           \/ /\ stopper.at = live /\ live # None /\ ses.version = stopper.gen
              /\ ses'.version = stopper.wasVersion /\ ses'.accepted = stopper.wasAccepted
        /\ UNCHANGED <<row, turns, live, made, loading, send, deleter, pi, opened, wire>>
    BY StopFailsIs
  <1>3. NothingWithoutSession' /\ StateAskedOnce' /\ StoppedIsOver'
    BY <1>1, <1>2
    DEF NothingWithoutSession, StateAskedOnce, StoppedIsOver
  <1>4. SessionTypes'
    <2>1. ses' \in SesRecs
      BY <1>1, <1>2 DEF SessionTypes
    <2>2. stopper' \in StopRecs
      BY <1>1, <1>2 DEF SessionTypes
    <2>3. holder' \in Sends \cup {"none", "stop", "delete"}
      BY <1>1, <1>2 DEF SessionTypes
    <2> QED
      BY <1>1, <1>2, <2>1, <2>2, <2>3 DEF SessionTypes
  <1>5. Versions'
    <2>1. ses'.accepted <= ses'.version /\ ses'.stream <= ses'.version
      BY <1>1, <1>2 DEF Versions, Numbers, StopOwns
    <2>2. \A g \in ses'.pending : g <= ses'.version
      BY <1>1, <1>2 DEF Versions, Numbers, StopOwns
    <2>3. \A q \in Sends : send'[q].at <= made'
      BY <1>1, <1>2 DEF Versions, Numbers, StopOwns
    <2>4. \A q \in Sends : InFlight(q)' /\ send'[q].at = live' /\ live' # None => send'[q].gen <= ses'.version
      BY <1>1, <1>2 DEF Versions, Numbers, StopOwns, InFlight
    <2>5. stopper'.at <= made'
      BY <1>1, <1>2 DEF Versions, Numbers, StopOwns
    <2> QED
      BY <2>1, <2>2, <2>3, <2>4, <2>5 DEF Versions
  <1>6. StopOwns'
    BY <1>1, <1>2
    DEF Numbers, StopOwns, InFlight, Versions
  <1>7. Removal'
    BY <1>1, <1>2
    DEF Numbers, Removal, NothingWithoutSession, StateAskedOnce
  <1>8. AbortAskedOnce'
    BY <1>1, <1>2
    DEF SessionTypes, AbortAskedOnce, NothingWithoutSession
  <1>9. NothingAfterAbort'
    BY <1>1, <1>2
    DEF SessionTypes, NothingAfterAbort, StopIsNewest, Current, StopOwns, AbortAskedOnce,
        NothingWithoutSession
  <1> QED
    BY <1>1, <1>3, <1>4, <1>5, <1>6, <1>7, <1>8, <1>9 DEF WorkerInv

\* What a stop that succeeds changes.
LEMMA StopDoneIs ==
    ASSUME WorkerInv, StopDone
    PROVE  /\ stopper'.pc = "none" /\ stopper'.at = 0 /\ stopper' \in StopRecs /\ holder' \in {holder, "none"}
           /\ stopper.pc = "aborted"
           /\ ses' \in SesRecs /\ ses'.version = ses.version /\ ses'.accepted = ses.accepted /\ ses'.deaf = ses.deaf
           /\ ses'.stream \in {0, ses.stream} /\ ses'.pending \subseteq ses.pending
           /\ turns' \in [1..MaxTurns -> TurnStates]
           /\ \A t \in 1..MaxTurns : turns[t] = "none" => turns'[t] = "none"
           /\ \A t \in 1..MaxTurns : turns'[t] = "stopped" => turns[t] = "stopped" \/ StopIsNewest
           /\ row' = row \/ (row # "gone" /\ row' = "idle")
           /\ UNCHANGED <<live, made, loading, send, deleter, pi, opened, wire>>
PROOF
  <1>1. /\ SessionTypes /\ Versions /\ StopOwns /\ NothingWithoutSession /\ StateAskedOnce /\ Removal
        /\ AbortAskedOnce /\ NothingAfterAbort /\ StoppedIsOver /\ Numbers
    BY NumbersAre DEF WorkerInv
  <1> QED
    <2>1. stopper' = NoStop /\ holder' \in {holder, "none"} /\ stopper.pc = "aborted"
      BY DEF StopDone, StopEnds
    <2>2. stopper'.pc = "none" /\ stopper'.at = 0 /\ stopper' \in StopRecs
      BY <2>1 DEF NoStop, StopRecs, None
    <2> DEFINE gens == {g \in ses.pending : g > stopper.gen}
               kept == [ses EXCEPT !.pending = gens]
    <2>3. ses \in SesRecs /\ gens \in SUBSET Nat /\ gens \subseteq ses.pending
      BY <1>1 DEF SessionTypes, Numbers
    <2>4. kept \in SesRecs /\ kept.version = ses.version /\ kept.accepted = ses.accepted
          /\ kept.stream = ses.stream /\ kept.pending = gens
      BY <2>3, SesPendingIs
    <2>5. kept.deaf = ses.deaf
      BY <2>3, DeafIs
    <2>6. /\ turns' = turns /\ row' = row /\ ses' \in {ses, kept}
          \/ /\ turns' = Marked(LastTurn, "stopped") /\ row' = AtRest /\ ses' = [kept EXCEPT !.stream = None]
             /\ Current(stopper.at, stopper.gen)
      BY DEF StopDone
    <2>7. UNCHANGED <<live, made, loading, send, deleter, pi, opened, wire>>
      BY DEF StopDone, piVars
    <2>8. LastTurn \subseteq OpenTurns
      BY DEF LastTurn
    <2> HIDE DEF gens, kept
    <2>9. CASE turns' = turns /\ row' = row /\ ses' \in {ses, kept}
      BY <1>1, <2>1, <2>2, <2>3, <2>4, <2>5, <2>7, <2>9 DEF SessionTypes
    <2>10. CASE /\ turns' = Marked(LastTurn, "stopped") /\ row' = AtRest /\ ses' = [kept EXCEPT !.stream = None]
                /\ Current(stopper.at, stopper.gen)
      <3>1. ses' \in SesRecs /\ ses'.version = ses.version /\ ses'.accepted = ses.accepted
            /\ ses'.stream = 0 /\ ses'.pending = gens
        BY <2>4, <2>10 DEF SesRecs, None
      <3>2. ses'.deaf = ses.deaf
        BY <2>4, <2>5, <2>10 DEF SesRecs
      <3>3. StopIsNewest
        BY <2>1, <2>10 DEF StopIsNewest
      <3>4. turns' \in [1..MaxTurns -> TurnStates] /\ \A t \in 1..MaxTurns : turns[t] = "none" => turns'[t] = "none"
        BY <1>1, <2>8, <2>10, MarkedIs DEF TurnStates
      <3>5. row' = row \/ (row # "gone" /\ row' = "idle")
        BY <2>10 DEF AtRest
      <3> QED
        BY <2>1, <2>2, <2>3, <2>7, <3>1, <3>2, <3>3, <3>4, <3>5
    <2> QED
      BY <2>6, <2>9, <2>10

\* Pi has aborted; unless something newer began, the open turn is interrupted.
LEMMA StopDoneKeeps ==
    ASSUME WorkerInv, StopDone
    PROVE  WorkerInv'
PROOF
  <1>1. /\ SessionTypes /\ Versions /\ StopOwns /\ NothingWithoutSession /\ StateAskedOnce /\ Removal
        /\ AbortAskedOnce /\ NothingAfterAbort /\ StoppedIsOver /\ Numbers
    BY NumbersAre DEF WorkerInv
  <1>2. /\ stopper'.pc = "none" /\ stopper'.at = 0 /\ stopper' \in StopRecs /\ holder' \in {holder, "none"}
        /\ stopper.pc = "aborted"
        /\ ses' \in SesRecs /\ ses'.version = ses.version /\ ses'.accepted = ses.accepted /\ ses'.deaf = ses.deaf
        /\ ses'.stream \in {0, ses.stream} /\ ses'.pending \subseteq ses.pending
        /\ turns' \in [1..MaxTurns -> TurnStates]
        /\ \A t \in 1..MaxTurns : turns[t] = "none" => turns'[t] = "none"
        /\ \A t \in 1..MaxTurns : turns'[t] = "stopped" => turns[t] = "stopped" \/ StopIsNewest
        /\ row' = row \/ (row # "gone" /\ row' = "idle")
        /\ UNCHANGED <<live, made, loading, send, deleter, pi, opened, wire>>
    BY StopDoneIs
  <1>3. NothingWithoutSession' /\ StateAskedOnce'
    BY <1>1, <1>2
    DEF NothingWithoutSession, StateAskedOnce
  <1>4. SessionTypes'
    <2>1. row' \in {"idle", "active", "gone"}
      BY <1>1, <1>2 DEF SessionTypes
    <2>2. turns' \in [1..MaxTurns -> TurnStates]
      BY <1>1, <1>2 DEF SessionTypes
    <2>3. ses' \in SesRecs
      BY <1>1, <1>2 DEF SessionTypes
    <2>4. stopper' \in StopRecs
      BY <1>1, <1>2 DEF SessionTypes
    <2>5. holder' \in Sends \cup {"none", "stop", "delete"}
      BY <1>1, <1>2 DEF SessionTypes
    <2> QED
      BY <1>1, <1>2, <2>1, <2>2, <2>3, <2>4, <2>5 DEF SessionTypes
  <1>5. Versions'
    <2>1. ses'.accepted <= ses'.version /\ ses'.stream <= ses'.version
      BY <1>1, <1>2 DEF Versions, Numbers, StopOwns
    <2>2. \A g \in ses'.pending : g <= ses'.version
      BY <1>1, <1>2 DEF Versions, Numbers, StopOwns
    <2>3. \A q \in Sends : send'[q].at <= made'
      BY <1>1, <1>2 DEF Versions, Numbers, StopOwns
    <2>4. \A q \in Sends : InFlight(q)' /\ send'[q].at = live' /\ live' # None => send'[q].gen <= ses'.version
      BY <1>1, <1>2 DEF Versions, Numbers, StopOwns, InFlight
    <2>5. stopper'.at <= made'
      BY <1>1, <1>2 DEF Versions, Numbers, StopOwns
    <2> QED
      BY <2>1, <2>2, <2>3, <2>4, <2>5 DEF Versions
  <1>6. StopOwns'
    BY <1>1, <1>2
    DEF Numbers, StopOwns, InFlight, Versions
  <1>7. Removal'
    BY <1>1, <1>2
    DEF Numbers, Removal, NothingWithoutSession, StateAskedOnce
  <1>8. AbortAskedOnce'
    BY <1>1, <1>2
    DEF SessionTypes, AbortAskedOnce, NothingWithoutSession
  <1>9. NothingAfterAbort'
    BY <1>1, <1>2
    DEF SessionTypes, NothingAfterAbort, StopIsNewest, Current, StopOwns, AbortAskedOnce,
        NothingWithoutSession
  <1>10. StoppedIsOver'
    BY <1>1, <1>2
    DEF SessionTypes, StoppedIsOver, NothingAfterAbort, NothingWithoutSession, None, Numbers
  <1> QED
    BY <1>1, <1>3, <1>4, <1>5, <1>6, <1>7, <1>8, <1>9, <1>10 DEF WorkerInv

\* What the beginning of a stop changes.
LEMMA StopBeginsIs ==
    ASSUME WorkerInv, StopBegins
    PROVE  /\ live # None /\ stopper.pc = "none" /\ holder' = "stop"
           /\ stopper' \in StopRecs /\ stopper'.pc = "aborting" /\ stopper'.at = live /\ stopper'.gen = ses.version + 1
           /\ stopper'.wasVersion = ses.version /\ stopper'.wasAccepted = ses.accepted
           /\ ses' \in SesRecs /\ ses'.version = ses.version + 1 /\ ses'.accepted = 0 /\ ses'.stream = ses.stream
           /\ ses'.pending = ses.pending /\ ses'.deaf = ses.deaf
           /\ pi' \in PiRecs /\ pi'.up = pi.up /\ pi'.run = pi.run /\ pi'.turn = pi.turn
           /\ pi'.inbox = Append(pi.inbox, "abort")
           /\ UNCHANGED <<row, turns, live, made, loading, send, deleter, opened, wire>>
PROOF
  <1>1. /\ SessionTypes /\ Versions /\ StopOwns /\ NothingWithoutSession /\ StateAskedOnce /\ Removal
        /\ AbortAskedOnce /\ NothingAfterAbort /\ StoppedIsOver /\ Numbers
    BY NumbersAre DEF WorkerInv
  <1> QED
    <2>1. \E bounded \in BOOLEAN : StopStarts(bounded)
      BY DEF StopBegins
    <2>2. UNCHANGED <<row, turns, live, made, loading, send, deleter, opened, wire>>
      BY DEF StopBegins, piVars
    <2>3. PICK bounded \in BOOLEAN : StopStarts(bounded)
      BY <2>1
    <2>4. ses \in SesRecs /\ pi \in PiRecs /\ "abort" \in Inputs
      BY <1>1 DEF SessionTypes, Inputs
    <2>5. ses' \in SesRecs /\ ses'.version = ses.version + 1 /\ ses'.accepted = 0 /\ ses'.stream = ses.stream
          /\ ses'.pending = ses.pending
      BY <2>3, <2>4, SesIs DEF StopStarts, None
    <2>6. ses'.deaf = ses.deaf
      BY <2>3, <2>4, DeafIs DEF StopStarts
    <2>7. /\ pi' \in PiRecs /\ pi'.up = pi.up /\ pi'.run = pi.run /\ pi'.turn = pi.turn
          /\ pi'.inbox = Append(pi.inbox, "abort")
      BY <2>3, <2>4, AskedIs DEF StopStarts
    <2>8. /\ stopper' \in StopRecs /\ stopper'.pc = "aborting" /\ stopper'.at = live /\ stopper'.gen = ses.version + 1
          /\ stopper'.wasVersion = ses.version /\ stopper'.wasAccepted = ses.accepted
      BY <1>1, <2>3 DEF StopStarts, StopRecs, Numbers
    <2> QED
      BY <2>2, <2>3, <2>5, <2>6, <2>7, <2>8 DEF StopStarts

\* The operator stops the Worker.
LEMMA StopBeginsKeeps ==
    ASSUME WorkerInv, StopBegins
    PROVE  WorkerInv'
PROOF
  <1>1. /\ SessionTypes /\ Versions /\ StopOwns /\ NothingWithoutSession /\ StateAskedOnce /\ Removal
        /\ AbortAskedOnce /\ NothingAfterAbort /\ StoppedIsOver /\ Numbers
    BY NumbersAre DEF WorkerInv
  <1>2. /\ live # None /\ stopper.pc = "none" /\ holder' = "stop"
        /\ stopper' \in StopRecs /\ stopper'.pc = "aborting" /\ stopper'.at = live /\ stopper'.gen = ses.version + 1
        /\ stopper'.wasVersion = ses.version /\ stopper'.wasAccepted = ses.accepted
        /\ ses' \in SesRecs /\ ses'.version = ses.version + 1 /\ ses'.accepted = 0 /\ ses'.stream = ses.stream
        /\ ses'.pending = ses.pending /\ ses'.deaf = ses.deaf
        /\ pi' \in PiRecs /\ pi'.up = pi.up /\ pi'.run = pi.run /\ pi'.turn = pi.turn
        /\ pi'.inbox = Append(pi.inbox, "abort")
        /\ UNCHANGED <<row, turns, live, made, loading, send, deleter, opened, wire>>
    BY StopBeginsIs
  <1>3. SessionTypes'
    <2>1. ses' \in SesRecs
      BY <1>1, <1>2 DEF SessionTypes
    <2>2. stopper' \in StopRecs
      BY <1>1, <1>2 DEF SessionTypes
    <2>3. holder' \in Sends \cup {"none", "stop", "delete"}
      BY <1>1, <1>2 DEF SessionTypes
    <2>4. pi' \in PiRecs
      BY <1>1, <1>2 DEF SessionTypes
    <2> QED
      BY <1>1, <1>2, <2>1, <2>2, <2>3, <2>4 DEF SessionTypes
  <1>4. Versions'
    <2>1. ses'.accepted <= ses'.version /\ ses'.stream <= ses'.version
      BY <1>1, <1>2 DEF Versions, Numbers, StopOwns
    <2>2. \A g \in ses'.pending : g <= ses'.version
      BY <1>1, <1>2 DEF Versions, Numbers, StopOwns
    <2>3. \A q \in Sends : send'[q].at <= made'
      BY <1>1, <1>2 DEF Versions, Numbers, StopOwns
    <2>4. \A q \in Sends : InFlight(q)' /\ send'[q].at = live' /\ live' # None => send'[q].gen <= ses'.version
      <3>1. \A q \in Sends : InFlight(q) /\ send[q].at = live /\ live # None => send[q].gen <= ses.version
        BY <1>1 DEF Versions
      <3>2. \A q \in Sends : send[q].gen \in Nat
        BY <1>1 DEF Numbers
      <3>3. ses.version \in Nat /\ ses'.version = ses.version + 1 /\ send' = send /\ live' = live
        BY <1>1, <1>2 DEF Numbers
      <3> QED
        BY <3>1, <3>2, <3>3 DEF InFlight
    <2>5. stopper'.at <= made'
      BY <1>1, <1>2 DEF Versions, Numbers, StopOwns
    <2> QED
      BY <2>1, <2>2, <2>3, <2>4, <2>5 DEF Versions
  <1>5. StopOwns'
    BY <1>1, <1>2
    DEF Numbers, StopOwns, InFlight, Versions
  <1>6. NothingWithoutSession'
    BY <1>1, <1>2
    DEF Numbers, NothingWithoutSession
  <1>7. StateAskedOnce'
    BY <1>1, <1>2
    DEF SessionTypes, StateAskedOnce, NothingWithoutSession
  <1>8. Removal'
    BY <1>1, <1>2
    DEF Numbers, Removal, NothingWithoutSession, StateAskedOnce
  <1>9. AbortAskedOnce'
    BY <1>1, <1>2
    DEF SessionTypes, AbortAskedOnce, NothingWithoutSession
  <1>10. NothingAfterAbort'
    BY <1>1, <1>2
    DEF SessionTypes, NothingAfterAbort, StopIsNewest, Current, StopOwns, AbortAskedOnce,
        NothingWithoutSession
  <1>11. StoppedIsOver'
    BY <1>1, <1>2
    DEF SessionTypes, StoppedIsOver, NothingAfterAbort, NothingWithoutSession
  <1> QED
    BY <1>1, <1>3, <1>4, <1>5, <1>6, <1>7, <1>8, <1>9, <1>10, <1>11 DEF WorkerInv

\* The same, for the stop of a send that timed out.
LEMMA TimeOutStopsIs ==
    ASSUME WorkerInv, NEW o \in Sends, SendTimesOut(o), \E bounded \in BOOLEAN : StopStarts(bounded)
    PROVE  /\ live # None /\ stopper.pc = "none" /\ holder' = "stop"
           /\ stopper' \in StopRecs /\ stopper'.pc = "aborting" /\ stopper'.at = live /\ stopper'.gen = ses.version + 1
           /\ stopper'.wasVersion = ses.version /\ stopper'.wasAccepted = ses.accepted
           /\ ses' \in SesRecs /\ ses'.version = ses.version + 1 /\ ses'.accepted = 0 /\ ses'.stream = ses.stream
           /\ ses'.pending = ses.pending /\ ses'.deaf = ses.deaf
           /\ pi' \in PiRecs /\ pi'.up = pi.up /\ pi'.run = pi.run /\ pi'.turn = pi.turn
           /\ pi'.inbox = Append(pi.inbox, "abort")
           /\ UNCHANGED <<row, turns, live, made, loading, send, deleter, opened, wire>>
PROOF
  <1>1. /\ SessionTypes /\ Versions /\ StopOwns /\ NothingWithoutSession /\ StateAskedOnce /\ Removal
        /\ AbortAskedOnce /\ NothingAfterAbort /\ StoppedIsOver /\ Numbers
    BY NumbersAre DEF WorkerInv
  <1> QED
    <2>1. \E bounded \in BOOLEAN : StopStarts(bounded)
      BY DEF SendTimesOut, StopStarts
    <2>2. UNCHANGED <<row, turns, live, made, loading, send, deleter, opened, wire>>
      BY DEF SendTimesOut, StopStarts, piVars
    <2>3. PICK bounded \in BOOLEAN : StopStarts(bounded)
      BY <2>1
    <2>4. ses \in SesRecs /\ pi \in PiRecs /\ "abort" \in Inputs
      BY <1>1 DEF SessionTypes, Inputs
    <2>5. ses' \in SesRecs /\ ses'.version = ses.version + 1 /\ ses'.accepted = 0 /\ ses'.stream = ses.stream
          /\ ses'.pending = ses.pending
      BY <2>3, <2>4, SesIs DEF StopStarts, None
    <2>6. ses'.deaf = ses.deaf
      BY <2>3, <2>4, DeafIs DEF StopStarts
    <2>7. /\ pi' \in PiRecs /\ pi'.up = pi.up /\ pi'.run = pi.run /\ pi'.turn = pi.turn
          /\ pi'.inbox = Append(pi.inbox, "abort")
      BY <2>3, <2>4, AskedIs DEF StopStarts
    <2>8. /\ stopper' \in StopRecs /\ stopper'.pc = "aborting" /\ stopper'.at = live /\ stopper'.gen = ses.version + 1
          /\ stopper'.wasVersion = ses.version /\ stopper'.wasAccepted = ses.accepted
      BY <1>1, <2>3 DEF StopStarts, StopRecs, Numbers
    <2> QED
      BY <2>2, <2>3, <2>5, <2>6, <2>7, <2>8 DEF StopStarts

\* A message that takes too long stops the Worker.
LEMMA TimeOutStopsKeeps ==
    ASSUME WorkerInv, NEW o \in Sends, SendTimesOut(o), \E bounded \in BOOLEAN : StopStarts(bounded)
    PROVE  WorkerInv'
PROOF
  <1>1. /\ SessionTypes /\ Versions /\ StopOwns /\ NothingWithoutSession /\ StateAskedOnce /\ Removal
        /\ AbortAskedOnce /\ NothingAfterAbort /\ StoppedIsOver /\ Numbers
    BY NumbersAre DEF WorkerInv
  <1>2. /\ live # None /\ stopper.pc = "none" /\ holder' = "stop"
        /\ stopper' \in StopRecs /\ stopper'.pc = "aborting" /\ stopper'.at = live /\ stopper'.gen = ses.version + 1
        /\ stopper'.wasVersion = ses.version /\ stopper'.wasAccepted = ses.accepted
        /\ ses' \in SesRecs /\ ses'.version = ses.version + 1 /\ ses'.accepted = 0 /\ ses'.stream = ses.stream
        /\ ses'.pending = ses.pending /\ ses'.deaf = ses.deaf
        /\ pi' \in PiRecs /\ pi'.up = pi.up /\ pi'.run = pi.run /\ pi'.turn = pi.turn
        /\ pi'.inbox = Append(pi.inbox, "abort")
        /\ UNCHANGED <<row, turns, live, made, loading, send, deleter, opened, wire>>
    BY TimeOutStopsIs
  <1>3. SessionTypes'
    <2>1. ses' \in SesRecs
      BY <1>1, <1>2 DEF SessionTypes
    <2>2. stopper' \in StopRecs
      BY <1>1, <1>2 DEF SessionTypes
    <2>3. holder' \in Sends \cup {"none", "stop", "delete"}
      BY <1>1, <1>2 DEF SessionTypes
    <2>4. pi' \in PiRecs
      BY <1>1, <1>2 DEF SessionTypes
    <2> QED
      BY <1>1, <1>2, <2>1, <2>2, <2>3, <2>4 DEF SessionTypes
  <1>4. Versions'
    <2>1. ses'.accepted <= ses'.version /\ ses'.stream <= ses'.version
      BY <1>1, <1>2 DEF Versions, Numbers, StopOwns
    <2>2. \A g \in ses'.pending : g <= ses'.version
      BY <1>1, <1>2 DEF Versions, Numbers, StopOwns
    <2>3. \A q \in Sends : send'[q].at <= made'
      BY <1>1, <1>2 DEF Versions, Numbers, StopOwns
    <2>4. \A q \in Sends : InFlight(q)' /\ send'[q].at = live' /\ live' # None => send'[q].gen <= ses'.version
      <3>1. \A q \in Sends : InFlight(q) /\ send[q].at = live /\ live # None => send[q].gen <= ses.version
        BY <1>1 DEF Versions
      <3>2. \A q \in Sends : send[q].gen \in Nat
        BY <1>1 DEF Numbers
      <3>3. ses.version \in Nat /\ ses'.version = ses.version + 1 /\ send' = send /\ live' = live
        BY <1>1, <1>2 DEF Numbers
      <3> QED
        BY <3>1, <3>2, <3>3 DEF InFlight
    <2>5. stopper'.at <= made'
      BY <1>1, <1>2 DEF Versions, Numbers, StopOwns
    <2> QED
      BY <2>1, <2>2, <2>3, <2>4, <2>5 DEF Versions
  <1>5. StopOwns'
    BY <1>1, <1>2
    DEF Numbers, StopOwns, InFlight, Versions
  <1>6. NothingWithoutSession'
    BY <1>1, <1>2
    DEF Numbers, NothingWithoutSession
  <1>7. StateAskedOnce'
    BY <1>1, <1>2
    DEF SessionTypes, StateAskedOnce, NothingWithoutSession
  <1>8. Removal'
    BY <1>1, <1>2
    DEF Numbers, Removal, NothingWithoutSession, StateAskedOnce
  <1>9. AbortAskedOnce'
    BY <1>1, <1>2
    DEF SessionTypes, AbortAskedOnce, NothingWithoutSession
  <1>10. NothingAfterAbort'
    BY <1>1, <1>2
    DEF SessionTypes, NothingAfterAbort, StopIsNewest, Current, StopOwns, AbortAskedOnce,
        NothingWithoutSession
  <1>11. StoppedIsOver'
    BY <1>1, <1>2
    DEF SessionTypes, StoppedIsOver, NothingAfterAbort, NothingWithoutSession
  <1> QED
    BY <1>1, <1>3, <1>4, <1>5, <1>6, <1>7, <1>8, <1>9, <1>10, <1>11 DEF WorkerInv

\* The lock is let go of, or the watchdog makes up its mind.
LEMMA LockMovesKeeps ==
    ASSUME WorkerInv, UNCHANGED <<row, turns, live, made, ses, loading, send, stopper, deleter, pi, opened, wire>>, holder' \in {holder, "none"}
    PROVE  WorkerInv'
PROOF
  <1>1. /\ SessionTypes /\ Versions /\ StopOwns /\ NothingWithoutSession /\ StateAskedOnce /\ Removal
        /\ AbortAskedOnce /\ NothingAfterAbort /\ StoppedIsOver /\ Numbers
    BY NumbersAre DEF WorkerInv
  <1>2. /\ holder' \in {holder, "none"}
        /\ UNCHANGED <<row, turns, live, made, ses, loading, send, stopper, deleter, pi, opened, wire>>
    OBVIOUS
  <1>3. Versions' /\ StopOwns' /\ NothingWithoutSession' /\ StateAskedOnce' /\ Removal' /\ AbortAskedOnce' /\ NothingAfterAbort' /\ StoppedIsOver'
    BY <1>1, <1>2
    DEF Versions, InFlight, StopOwns, NothingWithoutSession, StateAskedOnce, Removal, AbortAskedOnce,
        NothingAfterAbort, StopIsNewest, Current, StoppedIsOver
  <1>4. SessionTypes'
    <2>1. holder' \in Sends \cup {"none", "stop", "delete"}
      BY <1>1, <1>2 DEF SessionTypes
    <2> QED
      BY <1>1, <1>2, <2>1 DEF SessionTypes
  <1> QED
    BY <1>1, <1>3, <1>4 DEF WorkerInv

\* A deletion takes the lock or leaves it alone.
LEMMA DeleteBeginsKeeps ==
    ASSUME WorkerInv, DeleteBegins
    PROVE  WorkerInv'
PROOF
  <1>1. /\ SessionTypes /\ Versions /\ StopOwns /\ NothingWithoutSession /\ StateAskedOnce /\ Removal
        /\ AbortAskedOnce /\ NothingAfterAbort /\ StoppedIsOver /\ Numbers
    BY NumbersAre DEF WorkerInv
  <1>2. /\ holder' \in {holder, "delete"} /\ deleter' = "waiting" /\ row # "gone"
        /\ UNCHANGED <<row, turns, live, made, ses, loading, send, stopper, pi, opened, wire>>
    BY DEF DeleteBegins, piVars
  <1>3. Versions' /\ StopOwns' /\ NothingWithoutSession' /\ StateAskedOnce' /\ AbortAskedOnce' /\ NothingAfterAbort' /\ StoppedIsOver'
    BY <1>1, <1>2
    DEF Versions, InFlight, StopOwns, NothingWithoutSession, StateAskedOnce, AbortAskedOnce,
        NothingAfterAbort, StopIsNewest, Current, StoppedIsOver
  <1>4. SessionTypes'
    <2>1. deleter' \in {"none", "waiting", "removing", "stopping"}
      BY <1>1, <1>2 DEF SessionTypes
    <2>2. holder' \in Sends \cup {"none", "stop", "delete"}
      BY <1>1, <1>2 DEF SessionTypes
    <2> QED
      BY <1>1, <1>2, <2>1, <2>2 DEF SessionTypes
  <1>5. Removal'
    BY <1>1, <1>2
    DEF Numbers, Removal, NothingWithoutSession, StateAskedOnce
  <1> QED
    BY <1>1, <1>3, <1>4, <1>5 DEF WorkerInv

\* What the deletion takes from the session.
LEMMA DeleteProceedsIs ==
    ASSUME WorkerInv, DeleteProceeds
    PROVE  /\ deleter = "waiting" /\ deleter' = "removing" /\ loading = "none"
           /\ ses' \in SesRecs /\ ses'.stream = ses.stream /\ ses'.pending = ses.pending /\ ses'.deaf = ses.deaf
           /\ \/ ses'.version = ses.version /\ ses'.accepted = ses.accepted
              \/ ses'.version = ses.version + 1 /\ ses'.accepted = 0
           /\ UNCHANGED <<row, turns, live, made, loading, send, stopper, holder, pi, opened, wire>>
PROOF
  <1>1. /\ SessionTypes /\ Versions /\ StopOwns /\ NothingWithoutSession /\ StateAskedOnce /\ Removal
        /\ AbortAskedOnce /\ NothingAfterAbort /\ StoppedIsOver /\ Numbers
    BY NumbersAre DEF WorkerInv
  <1> QED
    <2>1. ses \in SesRecs
      BY <1>1 DEF SessionTypes
    <2>2. ses' \in {ses, Invalidated(ses)} /\ deleter = "waiting" /\ deleter' = "removing" /\ loading = "none"
      BY DEF DeleteProceeds
    <2>3. ses'.deaf = ses.deaf
      BY <2>1, <2>2, DeafIs
    <2>4. UNCHANGED <<row, turns, live, made, loading, send, stopper, holder, pi, opened, wire>>
      BY DEF DeleteProceeds, piVars
    <2> QED
      BY <2>1, <2>2, <2>3, <2>4, SesIs DEF None

\* The deletion goes on once no load is under way.
LEMMA DeleteProceedsKeeps ==
    ASSUME WorkerInv, DeleteProceeds
    PROVE  WorkerInv'
PROOF
  <1>1. /\ SessionTypes /\ Versions /\ StopOwns /\ NothingWithoutSession /\ StateAskedOnce /\ Removal
        /\ AbortAskedOnce /\ NothingAfterAbort /\ StoppedIsOver /\ Numbers
    BY NumbersAre DEF WorkerInv
  <1>2. /\ deleter = "waiting" /\ deleter' = "removing" /\ loading = "none"
        /\ ses' \in SesRecs /\ ses'.stream = ses.stream /\ ses'.pending = ses.pending /\ ses'.deaf = ses.deaf
        /\ \/ ses'.version = ses.version /\ ses'.accepted = ses.accepted
           \/ ses'.version = ses.version + 1 /\ ses'.accepted = 0
        /\ UNCHANGED <<row, turns, live, made, loading, send, stopper, holder, pi, opened, wire>>
    BY DeleteProceedsIs
  <1>3. NothingWithoutSession' /\ StateAskedOnce' /\ AbortAskedOnce' /\ StoppedIsOver'
    BY <1>1, <1>2
    DEF NothingWithoutSession, StateAskedOnce, AbortAskedOnce, StoppedIsOver
  <1>4. SessionTypes'
    <2>1. ses' \in SesRecs
      BY <1>1, <1>2 DEF SessionTypes
    <2>2. deleter' \in {"none", "waiting", "removing", "stopping"}
      BY <1>1, <1>2 DEF SessionTypes
    <2> QED
      BY <1>1, <1>2, <2>1, <2>2 DEF SessionTypes
  <1>5. Versions'
    <2>1. ses'.accepted <= ses'.version /\ ses'.stream <= ses'.version
      BY <1>1, <1>2 DEF Versions, Numbers, StopOwns
    <2>2. \A g \in ses'.pending : g <= ses'.version
      BY <1>1, <1>2 DEF Versions, Numbers, StopOwns
    <2>3. \A q \in Sends : send'[q].at <= made'
      BY <1>1, <1>2 DEF Versions, Numbers, StopOwns
    <2>4. \A q \in Sends : InFlight(q)' /\ send'[q].at = live' /\ live' # None => send'[q].gen <= ses'.version
      BY <1>1, <1>2 DEF Versions, Numbers, StopOwns, InFlight
    <2>5. stopper'.at <= made'
      BY <1>1, <1>2 DEF Versions, Numbers, StopOwns
    <2> QED
      BY <2>1, <2>2, <2>3, <2>4, <2>5 DEF Versions
  <1>6. StopOwns'
    BY <1>1, <1>2
    DEF Numbers, StopOwns, InFlight, Versions
  <1>7. Removal'
    BY <1>1, <1>2
    DEF Numbers, Removal, NothingWithoutSession, StateAskedOnce
  <1>8. NothingAfterAbort'
    <2>1. StopIsNewest' => StopIsNewest
      BY <1>1, <1>2 DEF StopIsNewest, Current, StopOwns, Numbers
    <2>2. CASE ~StopIsNewest'
      BY <2>2 DEF NothingAfterAbort
    <2>3. CASE StopIsNewest'
      BY <1>1, <1>2, <2>1, <2>3 DEF NothingAfterAbort, SessionTypes, NothingWithoutSession
    <2> QED
      BY <2>2, <2>3
  <1> QED
    BY <1>1, <1>3, <1>4, <1>5, <1>6, <1>7, <1>8 DEF WorkerInv

\* What the end the watchdog puts to a turn changes.
LEMMA ReconcilesIs ==
    ASSUME WorkerInv, Reconciles
    PROVE  /\ ses' \in SesRecs /\ ses'.stream = ses.stream /\ ses'.pending = ses.pending /\ ses'.deaf = ses.deaf
           /\ \/ ses'.version = ses.version /\ ses'.accepted = ses.accepted
              \/ ses'.version = ses.version + 1 /\ ses'.accepted = 0
           /\ turns' \in [1..MaxTurns -> TurnStates]
           /\ \A t \in 1..MaxTurns : turns[t] = "none" => turns'[t] = "none"
           /\ \A t \in 1..MaxTurns : turns'[t] = "stopped" => turns[t] = "stopped"
           /\ row' = row \/ (row # "gone" /\ row' = "idle")
           /\ UNCHANGED <<live, made, loading, send, stopper, deleter, holder, pi, opened, wire>>
PROOF
  <1>1. /\ SessionTypes /\ Versions /\ StopOwns /\ NothingWithoutSession /\ StateAskedOnce /\ Removal
        /\ AbortAskedOnce /\ NothingAfterAbort /\ StoppedIsOver /\ Numbers
    BY NumbersAre DEF WorkerInv
  <1> QED
    <2>1. ses \in SesRecs
      BY <1>1 DEF SessionTypes
    <2>2. ses' \in {ses, Invalidated(ses)} /\ turns' = Marked(OpenTurns, "presumed") /\ row' = AtRest
      BY DEF Reconciles
    <2>3. ses'.deaf = ses.deaf
      BY <2>1, <2>2, DeafIs
    <2>4. UNCHANGED <<live, made, loading, send, stopper, deleter, holder, pi, opened, wire>>
      BY DEF Reconciles, piVars
    <2>5. row' = row \/ (row # "gone" /\ row' = "idle")
      BY <2>2 DEF AtRest
    <2>6. /\ turns' \in [1..MaxTurns -> TurnStates]
          /\ \A t \in 1..MaxTurns : turns[t] = "none" => turns'[t] = "none"
          /\ \A t \in 1..MaxTurns : turns'[t] = "stopped" => turns[t] = "stopped"
      BY <1>1, <2>2, MarkedIs DEF TurnStates
    <2> QED
      BY <2>1, <2>2, <2>3, <2>4, <2>5, <2>6, SesIs DEF None

\* The watchdog ends the work of a Worker that Pi calls idle.
LEMMA ReconcilesKeeps ==
    ASSUME WorkerInv, Reconciles
    PROVE  WorkerInv'
PROOF
  <1>1. /\ SessionTypes /\ Versions /\ StopOwns /\ NothingWithoutSession /\ StateAskedOnce /\ Removal
        /\ AbortAskedOnce /\ NothingAfterAbort /\ StoppedIsOver /\ Numbers
    BY NumbersAre DEF WorkerInv
  <1>2. /\ ses' \in SesRecs /\ ses'.stream = ses.stream /\ ses'.pending = ses.pending /\ ses'.deaf = ses.deaf
        /\ \/ ses'.version = ses.version /\ ses'.accepted = ses.accepted
           \/ ses'.version = ses.version + 1 /\ ses'.accepted = 0
        /\ turns' \in [1..MaxTurns -> TurnStates]
        /\ \A t \in 1..MaxTurns : turns[t] = "none" => turns'[t] = "none"
        /\ \A t \in 1..MaxTurns : turns'[t] = "stopped" => turns[t] = "stopped"
        /\ row' = row \/ (row # "gone" /\ row' = "idle")
        /\ UNCHANGED <<live, made, loading, send, stopper, deleter, holder, pi, opened, wire>>
    BY ReconcilesIs
  <1>3. NothingWithoutSession' /\ StateAskedOnce' /\ AbortAskedOnce'
    BY <1>1, <1>2
    DEF NothingWithoutSession, StateAskedOnce, AbortAskedOnce
  <1>4. SessionTypes'
    <2>1. row' \in {"idle", "active", "gone"}
      BY <1>1, <1>2 DEF SessionTypes
    <2>2. turns' \in [1..MaxTurns -> TurnStates]
      BY <1>1, <1>2 DEF SessionTypes
    <2>3. ses' \in SesRecs
      BY <1>1, <1>2 DEF SessionTypes
    <2> QED
      BY <1>1, <1>2, <2>1, <2>2, <2>3 DEF SessionTypes
  <1>5. Versions'
    <2>1. ses'.accepted <= ses'.version /\ ses'.stream <= ses'.version
      BY <1>1, <1>2 DEF Versions, Numbers, StopOwns
    <2>2. \A g \in ses'.pending : g <= ses'.version
      BY <1>1, <1>2 DEF Versions, Numbers, StopOwns
    <2>3. \A q \in Sends : send'[q].at <= made'
      BY <1>1, <1>2 DEF Versions, Numbers, StopOwns
    <2>4. \A q \in Sends : InFlight(q)' /\ send'[q].at = live' /\ live' # None => send'[q].gen <= ses'.version
      BY <1>1, <1>2 DEF Versions, Numbers, StopOwns, InFlight
    <2>5. stopper'.at <= made'
      BY <1>1, <1>2 DEF Versions, Numbers, StopOwns
    <2> QED
      BY <2>1, <2>2, <2>3, <2>4, <2>5 DEF Versions
  <1>6. StopOwns'
    BY <1>1, <1>2
    DEF Numbers, StopOwns, InFlight, Versions
  <1>7. Removal'
    BY <1>1, <1>2
    DEF Numbers, Removal, NothingWithoutSession, StateAskedOnce
  <1>8. NothingAfterAbort'
    <2>1. StopIsNewest' => StopIsNewest
      BY <1>1, <1>2 DEF StopIsNewest, Current, StopOwns, Numbers
    <2>2. CASE ~StopIsNewest'
      BY <2>2 DEF NothingAfterAbort
    <2>3. CASE StopIsNewest'
      <3>1. pi' = pi /\ wire' = wire /\ stopper' = stopper
        BY <1>2
      <3>2. StopIsNewest
        BY <2>1, <2>3
      <3> QED
        BY <1>1, <3>1, <3>2 DEF NothingAfterAbort
    <2> QED
      BY <2>2, <2>3
  <1>9. StoppedIsOver'
    BY <1>1, <1>2
    DEF SessionTypes, StoppedIsOver, NothingAfterAbort, NothingWithoutSession
  <1> QED
    BY <1>1, <1>3, <1>4, <1>5, <1>6, <1>7, <1>8, <1>9 DEF WorkerInv

\* What the removal of the thread leaves of the session.
LEMMA RemovedIs ==
    ASSUME WorkerInv, Removed
    PROVE  /\ deleter = "removing" /\ row' = "gone" /\ holder' \in {holder, "none"}
           /\ (live = None /\ deleter' = "none") \/ (live # None /\ deleter' = "stopping")
           /\ turns' \in [1..MaxTurns -> TurnStates] /\ \A t \in 1..MaxTurns : turns'[t] = "none"
           /\ ses' \in SesRecs /\ ses'.version = ses.version /\ ses'.accepted = ses.accepted /\ ses'.stream = ses.stream
           /\ ses'.pending \subseteq ses.pending
           /\ live # None => ses'.deaf
           /\ UNCHANGED <<live, made, loading, send, stopper, pi, opened, wire>>
PROOF
  <1>1. /\ SessionTypes /\ Versions /\ StopOwns /\ NothingWithoutSession /\ StateAskedOnce /\ Removal
        /\ AbortAskedOnce /\ NothingAfterAbort /\ StoppedIsOver /\ Numbers
    BY NumbersAre DEF WorkerInv
  <1> QED
    <2>1. ses \in SesRecs
      BY <1>1 DEF SessionTypes
    <2>2. turns' \in [1..MaxTurns -> TurnStates] /\ \A t \in 1..MaxTurns : turns'[t] = "none"
      BY DEF Removed, TurnStates
    <2>3. CASE live = None
      BY <2>1, <2>2, <2>3 DEF Removed, DeleteEnds, piVars
    <2>4. CASE live # None
      <3>1. ses' = [ses EXCEPT !.pending = {}, !.deaf = TRUE] /\ deleter' = "stopping" /\ UNCHANGED holder
        BY <2>4 DEF Removed
      <3>2. ses'.version = ses.version /\ ses'.accepted = ses.accepted /\ ses'.stream = ses.stream /\ ses'.pending = {}
        BY <2>1, <3>1 DEF SesRecs
      <3>3. ses' \in SesRecs /\ ses'.deaf
        BY <2>1, <3>1 DEF SesRecs
      <3> QED
        BY <2>2, <2>4, <3>1, <3>2, <3>3 DEF Removed, piVars
    <2> QED
      BY <2>3, <2>4

\* The thread is removed from the store; its session is deaf from now on.
LEMMA RemovedKeeps ==
    ASSUME WorkerInv, Removed
    PROVE  WorkerInv'
PROOF
  <1>1. /\ SessionTypes /\ Versions /\ StopOwns /\ NothingWithoutSession /\ StateAskedOnce /\ Removal
        /\ AbortAskedOnce /\ NothingAfterAbort /\ StoppedIsOver /\ Numbers
    BY NumbersAre DEF WorkerInv
  <1>2. /\ deleter = "removing" /\ row' = "gone" /\ holder' \in {holder, "none"}
        /\ (live = None /\ deleter' = "none") \/ (live # None /\ deleter' = "stopping")
        /\ turns' \in [1..MaxTurns -> TurnStates] /\ \A t \in 1..MaxTurns : turns'[t] = "none"
        /\ ses' \in SesRecs /\ ses'.version = ses.version /\ ses'.accepted = ses.accepted /\ ses'.stream = ses.stream
        /\ ses'.pending \subseteq ses.pending
        /\ live # None => ses'.deaf
        /\ UNCHANGED <<live, made, loading, send, stopper, pi, opened, wire>>
    BY RemovedIs
  <1>3. NothingWithoutSession' /\ StateAskedOnce' /\ AbortAskedOnce'
    BY <1>1, <1>2
    DEF NothingWithoutSession, StateAskedOnce, AbortAskedOnce
  <1>4. SessionTypes'
    <2>1. row' \in {"idle", "active", "gone"}
      BY <1>1, <1>2 DEF SessionTypes
    <2>2. turns' \in [1..MaxTurns -> TurnStates]
      BY <1>1, <1>2 DEF SessionTypes
    <2>3. ses' \in SesRecs
      BY <1>1, <1>2 DEF SessionTypes
    <2>4. deleter' \in {"none", "waiting", "removing", "stopping"}
      BY <1>1, <1>2 DEF SessionTypes
    <2>5. holder' \in Sends \cup {"none", "stop", "delete"}
      BY <1>1, <1>2 DEF SessionTypes
    <2> QED
      BY <1>1, <1>2, <2>1, <2>2, <2>3, <2>4, <2>5 DEF SessionTypes
  <1>5. Versions'
    <2>1. ses'.accepted <= ses'.version /\ ses'.stream <= ses'.version
      BY <1>1, <1>2 DEF Versions, Numbers, StopOwns
    <2>2. \A g \in ses'.pending : g <= ses'.version
      BY <1>1, <1>2 DEF Versions, Numbers, StopOwns
    <2>3. \A q \in Sends : send'[q].at <= made'
      BY <1>1, <1>2 DEF Versions, Numbers, StopOwns
    <2>4. \A q \in Sends : InFlight(q)' /\ send'[q].at = live' /\ live' # None => send'[q].gen <= ses'.version
      BY <1>1, <1>2 DEF Versions, Numbers, StopOwns, InFlight
    <2>5. stopper'.at <= made'
      BY <1>1, <1>2 DEF Versions, Numbers, StopOwns
    <2> QED
      BY <2>1, <2>2, <2>3, <2>4, <2>5 DEF Versions
  <1>6. StopOwns'
    BY <1>1, <1>2
    DEF Numbers, StopOwns, InFlight, Versions
  <1>7. Removal'
    BY <1>1, <1>2
    DEF Numbers, Removal, NothingWithoutSession, StateAskedOnce
  <1>8. NothingAfterAbort'
    BY <1>1, <1>2
    DEF SessionTypes, NothingAfterAbort, StopIsNewest, Current, StopOwns, AbortAskedOnce,
        NothingWithoutSession
  <1>9. StoppedIsOver'
    BY <1>1, <1>2
    DEF SessionTypes, StoppedIsOver, NothingAfterAbort, NothingWithoutSession
  <1> QED
    BY <1>1, <1>3, <1>4, <1>5, <1>6, <1>7, <1>8, <1>9 DEF WorkerInv

\* The thread could not be removed.
LEMMA RemoveFailsKeeps ==
    ASSUME WorkerInv, RemoveFails
    PROVE  WorkerInv'
PROOF
  <1>1. /\ SessionTypes /\ Versions /\ StopOwns /\ NothingWithoutSession /\ StateAskedOnce /\ Removal
        /\ AbortAskedOnce /\ NothingAfterAbort /\ StoppedIsOver /\ Numbers
    BY NumbersAre DEF WorkerInv
  <1>2. /\ deleter = "removing" /\ deleter' = "none" /\ holder' \in {holder, "none"}
        /\ UNCHANGED <<row, turns, live, made, ses, loading, send, stopper, pi, opened, wire>>
    BY DEF RemoveFails, DeleteEnds, piVars
  <1>3. Versions' /\ StopOwns' /\ NothingWithoutSession' /\ StateAskedOnce' /\ AbortAskedOnce' /\ NothingAfterAbort' /\ StoppedIsOver'
    BY <1>1, <1>2
    DEF Versions, InFlight, StopOwns, NothingWithoutSession, StateAskedOnce, AbortAskedOnce,
        NothingAfterAbort, StopIsNewest, Current, StoppedIsOver
  <1>4. SessionTypes'
    <2>1. deleter' \in {"none", "waiting", "removing", "stopping"}
      BY <1>1, <1>2 DEF SessionTypes
    <2>2. holder' \in Sends \cup {"none", "stop", "delete"}
      BY <1>1, <1>2 DEF SessionTypes
    <2> QED
      BY <1>1, <1>2, <2>1, <2>2 DEF SessionTypes
  <1>5. Removal'
    BY <1>1, <1>2
    DEF Numbers, Removal, NothingWithoutSession, StateAskedOnce
  <1> QED
    BY <1>1, <1>3, <1>4, <1>5 DEF WorkerInv

\* The session of a deleted job is stopped.
LEMMA SessionStoppedKeeps ==
    ASSUME WorkerInv, SessionStopped
    PROVE  WorkerInv'
PROOF
  <1>1. /\ SessionTypes /\ Versions /\ StopOwns /\ NothingWithoutSession /\ StateAskedOnce /\ Removal
        /\ AbortAskedOnce /\ NothingAfterAbort /\ StoppedIsOver /\ Numbers
    BY NumbersAre DEF WorkerInv
  <1>2. /\ deleter = "stopping" /\ deleter' = "none" /\ holder' \in {holder, "none"}
        /\ live' = 0 /\ wire' = <<>>
        /\ ses' \in SesRecs /\ ses'.version = 0 /\ ses'.accepted = 0 /\ ses'.stream = 0 /\ ses'.pending = {}
        /\ pi' \in PiRecs /\ ~pi'.up /\ ~pi'.run /\ pi'.turn = 0 /\ pi'.inbox = <<>>
        /\ UNCHANGED <<row, turns, made, loading, send, stopper, opened>>
    BY SesIs, NoProcessIs, <1>1 DEF SessionStopped, SessionGone, DeleteEnds, None, SessionTypes
  <1>3. SessionTypes'
    <2>1. made' \in 0..MaxSessions /\ live' \in 0..made'
      BY <1>1, <1>2 DEF SessionTypes
    <2>2. ses' \in SesRecs
      BY <1>1, <1>2 DEF SessionTypes
    <2>3. deleter' \in {"none", "waiting", "removing", "stopping"}
      BY <1>1, <1>2 DEF SessionTypes
    <2>4. holder' \in Sends \cup {"none", "stop", "delete"}
      BY <1>1, <1>2 DEF SessionTypes
    <2>5. pi' \in PiRecs
      BY <1>1, <1>2 DEF SessionTypes
    <2>6. wire' \in Seq(Lines)
      BY <1>1, <1>2 DEF SessionTypes
    <2> QED
      BY <1>1, <1>2, <2>1, <2>2, <2>3, <2>4, <2>5, <2>6 DEF SessionTypes
  <1>4. Versions'
    <2>1. ses'.accepted <= ses'.version /\ ses'.stream <= ses'.version
      BY <1>1, <1>2 DEF Versions, Numbers, StopOwns
    <2>2. \A g \in ses'.pending : g <= ses'.version
      BY <1>1, <1>2 DEF Versions, Numbers, StopOwns
    <2>3. \A q \in Sends : send'[q].at <= made'
      BY <1>1, <1>2 DEF Versions, Numbers, StopOwns
    <2>4. \A q \in Sends : InFlight(q)' /\ send'[q].at = live' /\ live' # None => send'[q].gen <= ses'.version
      BY <1>1, <1>2 DEF Versions, Numbers, StopOwns, InFlight
    <2>5. stopper'.at <= made'
      BY <1>1, <1>2 DEF Versions, Numbers, StopOwns
    <2> QED
      BY <2>1, <2>2, <2>3, <2>4, <2>5 DEF Versions
  <1>5. StopOwns'
    BY <1>1, <1>2
    DEF Numbers, StopOwns, InFlight, Versions
  <1>6. NothingWithoutSession'
    BY <1>1, <1>2
    DEF Numbers, NothingWithoutSession
  <1>7. StateAskedOnce'
    BY <1>1, <1>2
    DEF SessionTypes, StateAskedOnce, NothingWithoutSession
  <1>8. Removal'
    BY <1>1, <1>2
    DEF Numbers, Removal, NothingWithoutSession, StateAskedOnce
  <1>9. AbortAskedOnce'
    BY <1>1, <1>2
    DEF SessionTypes, AbortAskedOnce, NothingWithoutSession
  <1>10. NothingAfterAbort'
    BY <1>1, <1>2
    DEF SessionTypes, NothingAfterAbort, StopIsNewest, Current, StopOwns, AbortAskedOnce,
        NothingWithoutSession
  <1>11. StoppedIsOver'
    BY <1>1, <1>2
    DEF SessionTypes, StoppedIsOver, NothingAfterAbort, NothingWithoutSession
  <1> QED
    BY <1>1, <1>3, <1>4, <1>5, <1>6, <1>7, <1>8, <1>9, <1>10, <1>11 DEF WorkerInv

\* The transport of a dead Pi is closed.
LEMMA TransportClosedKeeps ==
    ASSUME WorkerInv, TransportClosed
    PROVE  WorkerInv'
PROOF
  <1>1. /\ SessionTypes /\ Versions /\ StopOwns /\ NothingWithoutSession /\ StateAskedOnce /\ Removal
        /\ AbortAskedOnce /\ NothingAfterAbort /\ StoppedIsOver /\ Numbers
    BY NumbersAre DEF WorkerInv
  <1>2. /\ live' = 0 /\ wire' = <<>>
        /\ ses' \in SesRecs /\ ses'.version = 0 /\ ses'.accepted = 0 /\ ses'.stream = 0 /\ ses'.pending = {}
        /\ pi' \in PiRecs /\ ~pi'.up /\ ~pi'.run /\ pi'.turn = 0 /\ pi'.inbox = <<>>
        /\ live # None
        /\ turns' \in [1..MaxTurns -> TurnStates]
        /\ \A t \in 1..MaxTurns : turns[t] = "none" => turns'[t] = "none"
        /\ \A t \in 1..MaxTurns : turns'[t] = "stopped" => turns[t] = "stopped"
        /\ row' = row \/ (row # "gone" /\ row' = "idle")
        /\ UNCHANGED <<made, loading, send, stopper, deleter, holder, opened>>
    <2>1. turns' = Marked(LastTurn, "presumed") /\ LastTurn \subseteq OpenTurns /\ row' = AtRest
      BY DEF TransportClosed, LastTurn
    <2>2. /\ turns' \in [1..MaxTurns -> TurnStates]
          /\ \A t \in 1..MaxTurns : turns[t] = "none" => turns'[t] = "none"
          /\ \A t \in 1..MaxTurns : turns'[t] = "stopped" => turns[t] = "stopped"
      BY <1>1, <2>1, MarkedIs DEF TurnStates
    <2>3. row' = row \/ (row # "gone" /\ row' = "idle")
      BY <2>1 DEF AtRest
    <2>4. SessionGone /\ live # None /\ UNCHANGED <<made, loading, send, stopper, deleter, holder, opened>>
      BY DEF TransportClosed
    <2>5. ses \in SesRecs /\ ses' = NoSession /\ pi' = NoProcess /\ live' = None /\ wire' = <<>>
      BY <1>1, <2>4 DEF SessionTypes, SessionGone
    <2>6. ses' \in SesRecs /\ ses'.version = 0 /\ ses'.accepted = 0 /\ ses'.stream = 0 /\ ses'.pending = {}
      BY <2>5, SesIs DEF None
    <2>7. pi' \in PiRecs /\ ~pi'.up /\ ~pi'.run /\ pi'.turn = 0 /\ pi'.inbox = <<>>
      BY <2>5, NoProcessIs DEF None
    <2> QED
      BY <2>2, <2>3, <2>4, <2>5, <2>6, <2>7 DEF None
  <1>3. SessionTypes'
    <2>1. row' \in {"idle", "active", "gone"}
      BY <1>1, <1>2 DEF SessionTypes
    <2>2. turns' \in [1..MaxTurns -> TurnStates]
      BY <1>1, <1>2 DEF SessionTypes
    <2>3. made' \in 0..MaxSessions /\ live' \in 0..made'
      BY <1>1, <1>2 DEF SessionTypes
    <2>4. ses' \in SesRecs
      BY <1>1, <1>2 DEF SessionTypes
    <2>5. pi' \in PiRecs
      BY <1>1, <1>2 DEF SessionTypes
    <2>6. wire' \in Seq(Lines)
      BY <1>1, <1>2 DEF SessionTypes
    <2> QED
      BY <1>1, <1>2, <2>1, <2>2, <2>3, <2>4, <2>5, <2>6 DEF SessionTypes
  <1>4. Versions'
    <2>1. ses'.accepted <= ses'.version /\ ses'.stream <= ses'.version
      BY <1>1, <1>2 DEF Versions, Numbers, StopOwns
    <2>2. \A g \in ses'.pending : g <= ses'.version
      BY <1>1, <1>2 DEF Versions, Numbers, StopOwns
    <2>3. \A q \in Sends : send'[q].at <= made'
      BY <1>1, <1>2 DEF Versions, Numbers, StopOwns
    <2>4. \A q \in Sends : InFlight(q)' /\ send'[q].at = live' /\ live' # None => send'[q].gen <= ses'.version
      BY <1>1, <1>2 DEF Versions, Numbers, StopOwns, InFlight
    <2>5. stopper'.at <= made'
      BY <1>1, <1>2 DEF Versions, Numbers, StopOwns
    <2> QED
      BY <2>1, <2>2, <2>3, <2>4, <2>5 DEF Versions
  <1>5. StopOwns'
    BY <1>1, <1>2
    DEF Numbers, StopOwns, InFlight, Versions
  <1>6. NothingWithoutSession'
    BY <1>1, <1>2
    DEF Numbers, NothingWithoutSession
  <1>7. StateAskedOnce'
    BY <1>1, <1>2
    DEF SessionTypes, StateAskedOnce, NothingWithoutSession
  <1>8. Removal'
    BY <1>1, <1>2
    DEF Numbers, Removal, NothingWithoutSession, StateAskedOnce
  <1>9. AbortAskedOnce'
    BY <1>1, <1>2
    DEF SessionTypes, AbortAskedOnce, NothingWithoutSession
  <1>10. NothingAfterAbort'
    BY <1>1, <1>2
    DEF SessionTypes, NothingAfterAbort, StopIsNewest, Current, StopOwns, AbortAskedOnce,
        NothingWithoutSession
  <1>11. StoppedIsOver'
    BY <1>1, <1>2
    DEF SessionTypes, StoppedIsOver, NothingAfterAbort, NothingWithoutSession
  <1> QED
    BY <1>1, <1>3, <1>4, <1>5, <1>6, <1>7, <1>8, <1>9, <1>10, <1>11 DEF WorkerInv

\* The watchdog asks Pi.
LEMMA ProbeKeeps ==
    ASSUME WorkerInv, WatchAsks, live # None, watch' = "asking"
    PROVE  WorkerInv'
PROOF
  <1>1. /\ SessionTypes /\ Versions /\ StopOwns /\ NothingWithoutSession /\ StateAskedOnce /\ Removal
        /\ AbortAskedOnce /\ NothingAfterAbort /\ StoppedIsOver /\ Numbers
    BY NumbersAre DEF WorkerInv
  <1>2. /\ live # None
        /\ pi' \in PiRecs /\ pi'.up = pi.up /\ pi'.run = pi.run /\ pi'.turn = pi.turn
        /\ pi'.inbox = Append(pi.inbox, "probe") /\ "probe" \notin Sends
        /\ UNCHANGED <<row, turns, live, made, ses, loading, send, stopper, deleter, holder, opened, wire>>
    <2>1. pi \in PiRecs /\ "probe" \in Inputs
      BY <1>1 DEF SessionTypes, Inputs
    <2>2. pi' = Asked("probe") /\ UNCHANGED <<row, turns, live, made, ses, loading, send, stopper, deleter, holder, opened, wire>>
      BY DEF WatchAsks
    <2> QED
      BY <2>1, <2>2, AskedIs, MessagesAre
  <1>3. Versions' /\ StopOwns' /\ Removal'
    BY <1>1, <1>2
    DEF Versions, InFlight, StopOwns, Removal
  <1>4. SessionTypes'
    <2>1. pi' \in PiRecs
      BY <1>1, <1>2 DEF SessionTypes
    <2> QED
      BY <1>1, <1>2, <2>1 DEF SessionTypes
  <1>5. NothingWithoutSession'
    BY <1>1, <1>2
    DEF Numbers, NothingWithoutSession
  <1>6. StateAskedOnce'
    BY <1>1, <1>2
    DEF SessionTypes, StateAskedOnce, NothingWithoutSession
  <1>7. AbortAskedOnce'
    BY <1>1, <1>2
    DEF SessionTypes, AbortAskedOnce, NothingWithoutSession
  <1>8. NothingAfterAbort'
    BY <1>1, <1>2
    DEF SessionTypes, NothingAfterAbort, StopIsNewest, Current, StopOwns, AbortAskedOnce,
        NothingWithoutSession
  <1>9. StoppedIsOver'
    BY <1>1, <1>2
    DEF SessionTypes, StoppedIsOver, NothingAfterAbort, NothingWithoutSession
  <1> QED
    BY <1>1, <1>3, <1>4, <1>5, <1>6, <1>7, <1>8, <1>9 DEF WorkerInv

\* Pi dies.
LEMMA PiDiesKeeps ==
    ASSUME WorkerInv, PiDies
    PROVE  WorkerInv'
PROOF
  <1>1. /\ SessionTypes /\ Versions /\ StopOwns /\ NothingWithoutSession /\ StateAskedOnce /\ Removal
        /\ AbortAskedOnce /\ NothingAfterAbort /\ StoppedIsOver /\ Numbers
    BY NumbersAre DEF WorkerInv
  <1>2. /\ pi' \in PiRecs /\ ~pi'.up /\ ~pi'.run /\ pi'.turn = 0 /\ pi'.inbox = <<>>
        /\ UNCHANGED <<row, turns, live, made, ses, loading, send, stopper, deleter, holder, opened, wire>>
    BY NoProcessIs DEF PiDies, None, clientVars, callVars
  <1>3. Versions' /\ StopOwns' /\ Removal'
    BY <1>1, <1>2
    DEF Versions, InFlight, StopOwns, Removal
  <1>4. SessionTypes'
    <2>1. pi' \in PiRecs
      BY <1>1, <1>2 DEF SessionTypes
    <2> QED
      BY <1>1, <1>2, <2>1 DEF SessionTypes
  <1>5. NothingWithoutSession'
    BY <1>1, <1>2
    DEF Numbers, NothingWithoutSession
  <1>6. StateAskedOnce'
    BY <1>1, <1>2
    DEF SessionTypes, StateAskedOnce, NothingWithoutSession
  <1>7. AbortAskedOnce'
    BY <1>1, <1>2
    DEF SessionTypes, AbortAskedOnce, NothingWithoutSession
  <1>8. NothingAfterAbort'
    BY <1>1, <1>2
    DEF SessionTypes, NothingAfterAbort, StopIsNewest, Current, StopOwns, AbortAskedOnce,
        NothingWithoutSession
  <1>9. StoppedIsOver'
    BY <1>1, <1>2
    DEF SessionTypes, StoppedIsOver, NothingAfterAbort, NothingWithoutSession
  <1> QED
    BY <1>1, <1>3, <1>4, <1>5, <1>6, <1>7, <1>8, <1>9 DEF WorkerInv

\* What the answer to a message changes.
LEMMA PromptAnsweredIs ==
    ASSUME WorkerInv, Hears, wire[1].k \in {"ack", "nack"}
    PROVE  /\ HeardFacts
           /\ send' \in [Sends -> SendRecs]
           /\ \A q \in Sends : send'[q].at = send[q].at /\ send'[q].gen = send[q].gen
           /\ \A q \in Sends : send'[q].pc = send[q].pc
                 \/ (send[q].pc = "prompting" /\ send'[q].pc \in {"acked", "nacked"})
           /\ UNCHANGED <<row, turns, live, made, ses, loading, stopper, deleter, holder, pi, opened>>
PROOF
  <1>1. /\ SessionTypes /\ Versions /\ StopOwns /\ NothingWithoutSession /\ StateAskedOnce /\ Removal
        /\ AbortAskedOnce /\ NothingAfterAbort /\ StoppedIsOver /\ Numbers
    BY NumbersAre DEF WorkerInv
  <1> QED
    <2>1. HeardFacts
      BY HeardIs
    <2>2. /\ UNCHANGED <<row, turns, live, made, ses, loading, stopper, deleter, holder, pi, opened>>
          /\ send' = [send EXCEPT ![wire[1].v].pc = IF @ # "prompting" THEN @
                                                   ELSE IF wire[1].k = "ack" THEN "acked" ELSE "nacked"]
      BY <2>1 DEF Hears, Answers, Events, HeardFacts
    <2> DEFINE v == wire[1].v
    <2>3. send \in [Sends -> SendRecs]
      BY <1>1 DEF SessionTypes
    <2>4. ASSUME NEW q \in Sends
          PROVE  /\ send'[q] \in SendRecs /\ send'[q].at = send[q].at /\ send'[q].gen = send[q].gen
                 /\ send'[q].pc = send[q].pc \/ (send[q].pc = "prompting" /\ send'[q].pc \in {"acked", "nacked"})
      <3>1. send[q] \in SendRecs
        BY <2>3
      <3>2. send'[q] = send[q] \/ send'[q] = [send[q] EXCEPT !.pc = IF @ # "prompting" THEN @
                                                   ELSE IF wire[1].k = "ack" THEN "acked" ELSE "nacked"]
        BY <2>2, <2>3
      <3> QED
        BY <3>1, <3>2 DEF SendRecs, SendPcs
    <2>5. send' \in [Sends -> SendRecs]
      BY <2>2, <2>3, <2>4
    <2> QED
      BY <2>1, <2>2, <2>4, <2>5

\* Pi has answered a prompt.
LEMMA PromptAnsweredKeeps ==
    ASSUME WorkerInv, Hears, wire[1].k \in {"ack", "nack"}
    PROVE  WorkerInv'
PROOF
  <1>1. /\ SessionTypes /\ Versions /\ StopOwns /\ NothingWithoutSession /\ StateAskedOnce /\ Removal
        /\ AbortAskedOnce /\ NothingAfterAbort /\ StoppedIsOver /\ Numbers
    BY NumbersAre DEF WorkerInv
  <1>2. /\ HeardFacts
        /\ send' \in [Sends -> SendRecs]
        /\ \A q \in Sends : send'[q].at = send[q].at /\ send'[q].gen = send[q].gen
        /\ \A q \in Sends : send'[q].pc = send[q].pc
              \/ (send[q].pc = "prompting" /\ send'[q].pc \in {"acked", "nacked"})
        /\ UNCHANGED <<row, turns, live, made, ses, loading, stopper, deleter, holder, pi, opened>>
    BY PromptAnsweredIs
  <1>3. Removal'
    BY <1>1, <1>2
    DEF Removal, HeardFacts
  <1>4. SessionTypes'
    <2>1. send' \in [Sends -> SendRecs]
      BY <1>1, <1>2 DEF SessionTypes, HeardFacts
    <2>2. wire' \in Seq(Lines)
      BY <1>1, <1>2 DEF SessionTypes, HeardFacts
    <2> QED
      BY <1>1, <1>2, <2>1, <2>2 DEF SessionTypes, HeardFacts
  <1>5. Versions'
    <2>1. ses'.accepted <= ses'.version /\ ses'.stream <= ses'.version
      BY <1>1, <1>2 DEF Versions, Numbers, StopOwns, HeardFacts
    <2>2. \A g \in ses'.pending : g <= ses'.version
      BY <1>1, <1>2 DEF Versions, Numbers, StopOwns, HeardFacts
    <2>3. \A q \in Sends : send'[q].at <= made'
      BY <1>1, <1>2 DEF Versions, Numbers, StopOwns, HeardFacts
    <2>4. \A q \in Sends : InFlight(q)' /\ send'[q].at = live' /\ live' # None => send'[q].gen <= ses'.version
      BY <1>1, <1>2 DEF Versions, Numbers, StopOwns, HeardFacts, InFlight
    <2>5. stopper'.at <= made'
      BY <1>1, <1>2 DEF Versions, Numbers, StopOwns, HeardFacts
    <2> QED
      BY <2>1, <2>2, <2>3, <2>4, <2>5 DEF Versions, HeardFacts
  <1>6. StopOwns'
    BY <1>1, <1>2
    DEF HeardFacts, Numbers, StopOwns, InFlight, Versions
  <1>7. NothingWithoutSession'
    BY <1>1, <1>2 DEF NothingWithoutSession, HeardFacts
  <1>8. StateAskedOnce'
    <2>1. \A i \in 1..Len(wire') : wire'[i].k # "state"
      BY <1>2 DEF HeardFacts
    <2>2. pi'.up => \A i \in 1..Len(pi'.inbox) : pi'.inbox[i] # "state"
      BY <1>1, <1>2 DEF HeardFacts, StateAskedOnce
    <2> QED
      BY <2>1, <2>2 DEF StateAskedOnce
  <1>9. AbortAskedOnce'
    <2>1. pi'.up => \A i \in 1..Len(pi'.inbox) : pi'.inbox[i] = "abort" =>
             /\ stopper'.pc = "aborting" /\ stopper'.at = live'
             /\ \A j \in 1..Len(pi'.inbox) : pi'.inbox[j] = "abort" => j = i
             /\ \A j \in 1..Len(wire') : wire'[j].k \notin {"aborted", "abortFailed"}
      BY <1>1, <1>2 DEF HeardFacts, AbortAskedOnce
    <2>2. ASSUME NEW i \in 1..Len(wire'), wire'[i].k \in {"aborted", "abortFailed"}
          PROVE  /\ stopper'.pc = "aborting" /\ stopper'.at = live'
                 /\ \A j \in 1..Len(wire') : wire'[j].k \in {"aborted", "abortFailed"} => j = i
      <3>1. i + 1 \in 1..Len(wire) /\ wire[i + 1].k \in {"aborted", "abortFailed"}
        BY <1>2, <2>2 DEF HeardFacts
      <3>2. stopper.pc = "aborting" /\ stopper.at = live
        BY <1>1, <3>1 DEF AbortAskedOnce
      <3>3. \A j \in 1..Len(wire) : wire[j].k \in {"aborted", "abortFailed"} => j = i + 1
        BY <1>1, <3>1 DEF AbortAskedOnce
      <3>4. \A j \in 1..Len(wire') : wire'[j].k \in {"aborted", "abortFailed"} => j = i
        BY <1>2, <3>3 DEF HeardFacts
      <3> QED
        BY <1>2, <3>2, <3>4 DEF HeardFacts
    <2> QED
      BY <2>1, <2>2 DEF AbortAskedOnce
  <1>10. NothingAfterAbort'
    <2> SUFFICES ASSUME StopIsNewest' PROVE NothingAfterAbort'
      BY DEF NothingAfterAbort
    <2>1. StopIsNewest
      BY <1>1, <1>2 DEF StopIsNewest, Current, HeardFacts
    <2>2. pi'.up => \A i, j \in 1..Len(pi'.inbox) : pi'.inbox[i] = "abort" /\ i < j => pi'.inbox[j] \notin Sends
      BY <1>1, <1>2, <2>1 DEF HeardFacts, NothingAfterAbort
    <2>3. ASSUME NEW i \in 1..Len(wire'), wire'[i].k = "aborted"
          PROVE  /\ ~pi'.run /\ \A j \in 1..Len(pi'.inbox) : pi'.inbox[j] \notin Sends
                 /\ \A j \in 1..Len(wire') : i < j => wire'[j].k \notin {"open", "close"}
      <3>1. i + 1 \in 1..Len(wire) /\ wire[i + 1].k = "aborted"
        BY <1>2, <2>3 DEF HeardFacts
      <3>2. /\ ~pi.run /\ \A j \in 1..Len(pi.inbox) : pi.inbox[j] \notin Sends
            /\ \A j \in 1..Len(wire) : i + 1 < j => wire[j].k \notin {"open", "close"}
        BY <1>1, <2>1, <3>1 DEF NothingAfterAbort
      <3>3. \A j \in 1..Len(wire') : i < j => wire'[j].k \notin {"open", "close"}
        BY <1>2, <3>2 DEF HeardFacts
      <3> QED
        BY <1>2, <3>2, <3>3 DEF HeardFacts
    <2>4. stopper'.pc = "aborted" =>
              /\ ~pi'.run /\ \A j \in 1..Len(pi'.inbox) : pi'.inbox[j] \notin Sends
              /\ \A j \in 1..Len(wire') : wire'[j].k \notin {"open", "close"}
      BY <1>1, <1>2, <2>1 DEF NothingAfterAbort, HeardFacts
    <2> QED
      BY <2>2, <2>3, <2>4 DEF NothingAfterAbort
  <1>11. StoppedIsOver'
    <2>1. \A t \in 1..MaxTurns : opened' < t => turns'[t] = "none"
      BY <1>1, <1>2 DEF StoppedIsOver, HeardFacts, Numbers
    <2>2. \A i \in 1..Len(wire') : wire'[i].k \in {"open", "close"} => wire'[i].v \in 1..opened'
      BY <1>1, <1>2 DEF StoppedIsOver, HeardFacts
    <2>3. ASSUME NEW t \in 1..MaxTurns, turns'[t] = "stopped"
          PROVE  /\ pi'.turn # t
                 /\ \A i \in 1..Len(wire') : wire'[i].k \in {"open", "close"} => wire'[i].v # t
      <3>1. turns[t] = "stopped"
        BY <1>2, <2>3
      <3> QED
        BY <1>1, <1>2, <3>1 DEF StoppedIsOver, HeardFacts
    <2> QED
      BY <2>1, <2>2, <2>3 DEF StoppedIsOver
  <1> QED
    BY <1>1, <1>3, <1>4, <1>5, <1>6, <1>7, <1>8, <1>9, <1>10, <1>11 DEF WorkerInv

\* What the answer to an abort changes.
LEMMA StopAnsweredIs ==
    ASSUME WorkerInv, Hears, wire[1].k \in {"aborted", "abortFailed"}
    PROVE  /\ HeardFacts
           /\ stopper.pc = "aborting" /\ stopper.at = live /\ stopper'.pc = wire[1].k /\ wire[1].k \in {"aborted", "abortFailed"}
           /\ stopper' \in StopRecs /\ stopper'.at = stopper.at /\ stopper'.gen = stopper.gen
           /\ stopper'.wasVersion = stopper.wasVersion /\ stopper'.wasAccepted = stopper.wasAccepted
           /\ \A i \in 1..Len(wire') : wire'[i].k \notin {"aborted", "abortFailed"}
           /\ pi.up => \A i \in 1..Len(pi.inbox) : pi.inbox[i] # "abort"
           /\ UNCHANGED <<row, turns, live, made, ses, loading, send, deleter, holder, pi, opened>>
PROOF
  <1>1. /\ SessionTypes /\ Versions /\ StopOwns /\ NothingWithoutSession /\ StateAskedOnce /\ Removal
        /\ AbortAskedOnce /\ NothingAfterAbort /\ StoppedIsOver /\ Numbers
    BY NumbersAre DEF WorkerInv
  <1> QED
    <2>1. HeardFacts
      BY HeardIs
    <2>2. /\ UNCHANGED <<row, turns, live, made, ses, loading, send, deleter, holder, pi, opened>>
          /\ stopper' = [stopper EXCEPT !.pc = IF @ = "aborting" THEN wire[1].k ELSE @]
      BY <2>1 DEF Hears, Answers, Events, HeardFacts
    <2>3. 1 \in 1..Len(wire) /\ stopper \in StopRecs
      BY <1>1, <2>1 DEF HeardFacts, SessionTypes
    <2>4. /\ stopper.pc = "aborting" /\ stopper.at = live
          /\ \A j \in 1..Len(wire) : wire[j].k \in {"aborted", "abortFailed"} => j = 1
      BY <1>1, <2>3 DEF AbortAskedOnce
    <2>5. \A i \in 1..Len(wire') : wire'[i].k \notin {"aborted", "abortFailed"}
      BY <2>1, <2>4 DEF HeardFacts
    <2>6. pi.up => \A i \in 1..Len(pi.inbox) : pi.inbox[i] # "abort"
      BY <1>1, <2>3 DEF AbortAskedOnce
    <2>7. stopper' = [stopper EXCEPT !.pc = wire[1].k]
      BY <2>2, <2>3, <2>4 DEF StopRecs
    <2>8. /\ stopper'.pc = wire[1].k /\ stopper'.at = stopper.at /\ stopper'.gen = stopper.gen
          /\ stopper'.wasVersion = stopper.wasVersion /\ stopper'.wasAccepted = stopper.wasAccepted
      BY <2>3, <2>7 DEF StopRecs
    <2>9. stopper' \in StopRecs
      BY <2>3, <2>7 DEF StopRecs
    <2> QED
      BY <2>1, <2>2, <2>4, <2>5, <2>6, <2>8, <2>9

\* Pi has answered the abort.
LEMMA StopAnsweredKeeps ==
    ASSUME WorkerInv, Hears, wire[1].k \in {"aborted", "abortFailed"}
    PROVE  WorkerInv'
PROOF
  <1>1. /\ SessionTypes /\ Versions /\ StopOwns /\ NothingWithoutSession /\ StateAskedOnce /\ Removal
        /\ AbortAskedOnce /\ NothingAfterAbort /\ StoppedIsOver /\ Numbers
    BY NumbersAre DEF WorkerInv
  <1>2. /\ HeardFacts
        /\ stopper.pc = "aborting" /\ stopper.at = live /\ stopper'.pc = wire[1].k /\ wire[1].k \in {"aborted", "abortFailed"}
        /\ stopper' \in StopRecs /\ stopper'.at = stopper.at /\ stopper'.gen = stopper.gen
        /\ stopper'.wasVersion = stopper.wasVersion /\ stopper'.wasAccepted = stopper.wasAccepted
        /\ \A i \in 1..Len(wire') : wire'[i].k \notin {"aborted", "abortFailed"}
        /\ pi.up => \A i \in 1..Len(pi.inbox) : pi.inbox[i] # "abort"
        /\ UNCHANGED <<row, turns, live, made, ses, loading, send, deleter, holder, pi, opened>>
    BY StopAnsweredIs
  <1>3. Removal'
    BY <1>1, <1>2
    DEF Removal, HeardFacts
  <1>4. SessionTypes'
    <2>1. stopper' \in StopRecs
      BY <1>1, <1>2 DEF SessionTypes, HeardFacts
    <2>2. wire' \in Seq(Lines)
      BY <1>1, <1>2 DEF SessionTypes, HeardFacts
    <2> QED
      BY <1>1, <1>2, <2>1, <2>2 DEF SessionTypes, HeardFacts
  <1>5. Versions'
    <2>1. ses'.accepted <= ses'.version /\ ses'.stream <= ses'.version
      BY <1>1, <1>2 DEF Versions, Numbers, StopOwns, HeardFacts
    <2>2. \A g \in ses'.pending : g <= ses'.version
      BY <1>1, <1>2 DEF Versions, Numbers, StopOwns, HeardFacts
    <2>3. \A q \in Sends : send'[q].at <= made'
      BY <1>1, <1>2 DEF Versions, Numbers, StopOwns, HeardFacts
    <2>4. \A q \in Sends : InFlight(q)' /\ send'[q].at = live' /\ live' # None => send'[q].gen <= ses'.version
      BY <1>1, <1>2 DEF Versions, Numbers, StopOwns, HeardFacts, InFlight
    <2>5. stopper'.at <= made'
      BY <1>1, <1>2 DEF Versions, Numbers, StopOwns, HeardFacts
    <2> QED
      BY <2>1, <2>2, <2>3, <2>4, <2>5 DEF Versions, HeardFacts
  <1>6. StopOwns'
    BY <1>1, <1>2
    DEF HeardFacts, Numbers, StopOwns, InFlight, Versions
  <1>7. NothingWithoutSession'
    BY <1>1, <1>2 DEF NothingWithoutSession, HeardFacts
  <1>8. StateAskedOnce'
    <2>1. \A i \in 1..Len(wire') : wire'[i].k # "state"
      BY <1>2 DEF HeardFacts
    <2>2. pi'.up => \A i \in 1..Len(pi'.inbox) : pi'.inbox[i] # "state"
      BY <1>1, <1>2 DEF HeardFacts, StateAskedOnce
    <2> QED
      BY <2>1, <2>2 DEF StateAskedOnce
  <1>9. AbortAskedOnce'
    BY <1>2 DEF AbortAskedOnce
  <1>10. NothingAfterAbort'
    <2> SUFFICES ASSUME StopIsNewest' PROVE NothingAfterAbort'
      BY DEF NothingAfterAbort
    <2>1. StopIsNewest
      BY <1>1, <1>2 DEF StopIsNewest, Current
    <2>2. 1 \in 1..Len(wire)
      BY <1>2 DEF HeardFacts
    <2>3. wire[1].k = "aborted" =>
              /\ ~pi.run /\ \A j \in 1..Len(pi.inbox) : pi.inbox[j] \notin Sends
              /\ \A j \in 1..Len(wire) : 1 < j => wire[j].k \notin {"open", "close"}
      BY <1>1, <2>1, <2>2 DEF NothingAfterAbort
    <2>4. wire[1].k = "aborted" => \A j \in 1..Len(wire') : wire'[j].k \notin {"open", "close"}
      BY <1>2, <2>3 DEF HeardFacts
    <2> QED
      BY <1>2, <2>3, <2>4 DEF NothingAfterAbort
  <1>11. StoppedIsOver'
    <2>1. \A t \in 1..MaxTurns : opened' < t => turns'[t] = "none"
      BY <1>1, <1>2 DEF StoppedIsOver, HeardFacts, Numbers
    <2>2. \A i \in 1..Len(wire') : wire'[i].k \in {"open", "close"} => wire'[i].v \in 1..opened'
      BY <1>1, <1>2 DEF StoppedIsOver, HeardFacts
    <2>3. ASSUME NEW t \in 1..MaxTurns, turns'[t] = "stopped"
          PROVE  /\ pi'.turn # t
                 /\ \A i \in 1..Len(wire') : wire'[i].k \in {"open", "close"} => wire'[i].v # t
      <3>1. turns[t] = "stopped"
        BY <1>2, <2>3
      <3> QED
        BY <1>1, <1>2, <3>1 DEF StoppedIsOver, HeardFacts
    <2> QED
      BY <2>1, <2>2, <2>3 DEF StoppedIsOver
  <1> QED
    BY <1>1, <1>3, <1>4, <1>5, <1>6, <1>7, <1>8, <1>9, <1>10, <1>11 DEF WorkerInv

\* Pi has said what it is doing.
LEMMA StateHeardKeeps ==
    ASSUME WorkerInv, Hears, wire[1].k = "state"
    PROVE  WorkerInv'
PROOF
  <1>1. /\ SessionTypes /\ Versions /\ StopOwns /\ NothingWithoutSession /\ StateAskedOnce /\ Removal
        /\ AbortAskedOnce /\ NothingAfterAbort /\ StoppedIsOver /\ Numbers
    BY NumbersAre DEF WorkerInv
  <1>2. /\ HeardFacts
        /\ loading = "asking" /\ loading' \in {"idle", "busy"}
        /\ UNCHANGED <<row, turns, live, made, ses, send, stopper, deleter, holder, pi, opened>>
    <2>1. HeardFacts
      BY HeardIs
    <2>2. /\ UNCHANGED <<row, turns, live, made, ses, send, stopper, deleter, holder, pi, opened>> /\ loading' = wire[1].v
      BY <2>1 DEF Hears, Answers, Events, HeardFacts
    <2>3. 1 \in 1..Len(wire)
      BY <2>1 DEF HeardFacts
    <2>4. loading = "asking" /\ wire[1].v \in {"idle", "busy"}
      BY <1>1, <2>3 DEF StateAskedOnce
    <2> QED
      BY <2>1, <2>2, <2>4
  <1>3. Versions' /\ StopOwns'
    BY <1>1, <1>2
    DEF Versions, InFlight, StopOwns, HeardFacts
  <1>4. SessionTypes'
    <2>1. loading' \in {"none", "making", "asking", "idle", "busy"}
      BY <1>1, <1>2 DEF SessionTypes, HeardFacts
    <2>2. wire' \in Seq(Lines)
      BY <1>1, <1>2 DEF SessionTypes, HeardFacts
    <2> QED
      BY <1>1, <1>2, <2>1, <2>2 DEF SessionTypes, HeardFacts
  <1>5. NothingWithoutSession'
    BY <1>1, <1>2 DEF NothingWithoutSession, HeardFacts
  <1>6. StateAskedOnce'
    <2>1. \A i \in 1..Len(wire') : wire'[i].k # "state"
      BY <1>2 DEF HeardFacts
    <2>2. pi'.up => \A i \in 1..Len(pi'.inbox) : pi'.inbox[i] # "state"
      BY <1>1, <1>2 DEF HeardFacts, StateAskedOnce
    <2> QED
      BY <2>1, <2>2 DEF StateAskedOnce
  <1>7. Removal'
    BY <1>1, <1>2 DEF Removal, HeardFacts
  <1>8. AbortAskedOnce'
    <2>1. pi'.up => \A i \in 1..Len(pi'.inbox) : pi'.inbox[i] = "abort" =>
             /\ stopper'.pc = "aborting" /\ stopper'.at = live'
             /\ \A j \in 1..Len(pi'.inbox) : pi'.inbox[j] = "abort" => j = i
             /\ \A j \in 1..Len(wire') : wire'[j].k \notin {"aborted", "abortFailed"}
      BY <1>1, <1>2 DEF HeardFacts, AbortAskedOnce
    <2>2. ASSUME NEW i \in 1..Len(wire'), wire'[i].k \in {"aborted", "abortFailed"}
          PROVE  /\ stopper'.pc = "aborting" /\ stopper'.at = live'
                 /\ \A j \in 1..Len(wire') : wire'[j].k \in {"aborted", "abortFailed"} => j = i
      <3>1. i + 1 \in 1..Len(wire) /\ wire[i + 1].k \in {"aborted", "abortFailed"}
        BY <1>2, <2>2 DEF HeardFacts
      <3>2. stopper.pc = "aborting" /\ stopper.at = live
        BY <1>1, <3>1 DEF AbortAskedOnce
      <3>3. \A j \in 1..Len(wire) : wire[j].k \in {"aborted", "abortFailed"} => j = i + 1
        BY <1>1, <3>1 DEF AbortAskedOnce
      <3>4. \A j \in 1..Len(wire') : wire'[j].k \in {"aborted", "abortFailed"} => j = i
        BY <1>2, <3>3 DEF HeardFacts
      <3> QED
        BY <1>2, <3>2, <3>4 DEF HeardFacts
    <2> QED
      BY <2>1, <2>2 DEF AbortAskedOnce
  <1>9. NothingAfterAbort'
    <2> SUFFICES ASSUME StopIsNewest' PROVE NothingAfterAbort'
      BY DEF NothingAfterAbort
    <2>1. StopIsNewest
      BY <1>1, <1>2 DEF StopIsNewest, Current, HeardFacts
    <2>2. pi'.up => \A i, j \in 1..Len(pi'.inbox) : pi'.inbox[i] = "abort" /\ i < j => pi'.inbox[j] \notin Sends
      BY <1>1, <1>2, <2>1 DEF HeardFacts, NothingAfterAbort
    <2>3. ASSUME NEW i \in 1..Len(wire'), wire'[i].k = "aborted"
          PROVE  /\ ~pi'.run /\ \A j \in 1..Len(pi'.inbox) : pi'.inbox[j] \notin Sends
                 /\ \A j \in 1..Len(wire') : i < j => wire'[j].k \notin {"open", "close"}
      <3>1. i + 1 \in 1..Len(wire) /\ wire[i + 1].k = "aborted"
        BY <1>2, <2>3 DEF HeardFacts
      <3>2. /\ ~pi.run /\ \A j \in 1..Len(pi.inbox) : pi.inbox[j] \notin Sends
            /\ \A j \in 1..Len(wire) : i + 1 < j => wire[j].k \notin {"open", "close"}
        BY <1>1, <2>1, <3>1 DEF NothingAfterAbort
      <3>3. \A j \in 1..Len(wire') : i < j => wire'[j].k \notin {"open", "close"}
        BY <1>2, <3>2 DEF HeardFacts
      <3> QED
        BY <1>2, <3>2, <3>3 DEF HeardFacts
    <2>4. stopper'.pc = "aborted" =>
              /\ ~pi'.run /\ \A j \in 1..Len(pi'.inbox) : pi'.inbox[j] \notin Sends
              /\ \A j \in 1..Len(wire') : wire'[j].k \notin {"open", "close"}
      BY <1>1, <1>2, <2>1 DEF NothingAfterAbort, HeardFacts
    <2> QED
      BY <2>2, <2>3, <2>4 DEF NothingAfterAbort
  <1>10. StoppedIsOver'
    <2>1. \A t \in 1..MaxTurns : opened' < t => turns'[t] = "none"
      BY <1>1, <1>2 DEF StoppedIsOver, HeardFacts, Numbers
    <2>2. \A i \in 1..Len(wire') : wire'[i].k \in {"open", "close"} => wire'[i].v \in 1..opened'
      BY <1>1, <1>2 DEF StoppedIsOver, HeardFacts
    <2>3. ASSUME NEW t \in 1..MaxTurns, turns'[t] = "stopped"
          PROVE  /\ pi'.turn # t
                 /\ \A i \in 1..Len(wire') : wire'[i].k \in {"open", "close"} => wire'[i].v # t
      <3>1. turns[t] = "stopped"
        BY <1>2, <2>3
      <3> QED
        BY <1>1, <1>2, <3>1 DEF StoppedIsOver, HeardFacts
    <2> QED
      BY <2>1, <2>2, <2>3 DEF StoppedIsOver
  <1> QED
    BY <1>1, <1>3, <1>4, <1>5, <1>6, <1>7, <1>8, <1>9, <1>10 DEF WorkerInv

\* A line is read that changes nothing but the watchdog, or is not listened to.
LEMMA NothingHeardKeeps ==
    ASSUME WorkerInv, Hears, wire[1].k = "probe" \/ (wire[1].k \in {"start", "open", "close", "settled"} /\ ses.deaf)
    PROVE  WorkerInv'
PROOF
  <1>1. /\ SessionTypes /\ Versions /\ StopOwns /\ NothingWithoutSession /\ StateAskedOnce /\ Removal
        /\ AbortAskedOnce /\ NothingAfterAbort /\ StoppedIsOver /\ Numbers
    BY NumbersAre DEF WorkerInv
  <1>2. /\ HeardFacts
        /\ UNCHANGED <<row, turns, live, made, ses, loading, send, stopper, deleter, holder, pi, opened>>
    <2>1. HeardFacts
      BY HeardIs
    <2>2. UNCHANGED <<row, turns, live, made, ses, loading, send, stopper, deleter, holder, pi, opened>>
      BY <2>1 DEF Hears, Answers, Events, HeardFacts
    <2> QED
      BY <2>1, <2>2
  <1>3. Versions' /\ StopOwns' /\ Removal'
    BY <1>1, <1>2
    DEF Versions, InFlight, StopOwns, Removal, HeardFacts
  <1>4. SessionTypes'
    <2>1. wire' \in Seq(Lines)
      BY <1>1, <1>2 DEF SessionTypes, HeardFacts
    <2> QED
      BY <1>1, <1>2, <2>1 DEF SessionTypes, HeardFacts
  <1>5. NothingWithoutSession'
    BY <1>1, <1>2 DEF NothingWithoutSession, HeardFacts
  <1>6. StateAskedOnce'
    <2>1. \A i \in 1..Len(wire') : wire'[i].k # "state"
      BY <1>2 DEF HeardFacts
    <2>2. pi'.up => \A i \in 1..Len(pi'.inbox) : pi'.inbox[i] # "state"
      BY <1>1, <1>2 DEF HeardFacts, StateAskedOnce
    <2> QED
      BY <2>1, <2>2 DEF StateAskedOnce
  <1>7. AbortAskedOnce'
    <2>1. pi'.up => \A i \in 1..Len(pi'.inbox) : pi'.inbox[i] = "abort" =>
             /\ stopper'.pc = "aborting" /\ stopper'.at = live'
             /\ \A j \in 1..Len(pi'.inbox) : pi'.inbox[j] = "abort" => j = i
             /\ \A j \in 1..Len(wire') : wire'[j].k \notin {"aborted", "abortFailed"}
      BY <1>1, <1>2 DEF HeardFacts, AbortAskedOnce
    <2>2. ASSUME NEW i \in 1..Len(wire'), wire'[i].k \in {"aborted", "abortFailed"}
          PROVE  /\ stopper'.pc = "aborting" /\ stopper'.at = live'
                 /\ \A j \in 1..Len(wire') : wire'[j].k \in {"aborted", "abortFailed"} => j = i
      <3>1. i + 1 \in 1..Len(wire) /\ wire[i + 1].k \in {"aborted", "abortFailed"}
        BY <1>2, <2>2 DEF HeardFacts
      <3>2. stopper.pc = "aborting" /\ stopper.at = live
        BY <1>1, <3>1 DEF AbortAskedOnce
      <3>3. \A j \in 1..Len(wire) : wire[j].k \in {"aborted", "abortFailed"} => j = i + 1
        BY <1>1, <3>1 DEF AbortAskedOnce
      <3>4. \A j \in 1..Len(wire') : wire'[j].k \in {"aborted", "abortFailed"} => j = i
        BY <1>2, <3>3 DEF HeardFacts
      <3> QED
        BY <1>2, <3>2, <3>4 DEF HeardFacts
    <2> QED
      BY <2>1, <2>2 DEF AbortAskedOnce
  <1>8. NothingAfterAbort'
    <2> SUFFICES ASSUME StopIsNewest' PROVE NothingAfterAbort'
      BY DEF NothingAfterAbort
    <2>1. StopIsNewest
      BY <1>1, <1>2 DEF StopIsNewest, Current, HeardFacts
    <2>2. pi'.up => \A i, j \in 1..Len(pi'.inbox) : pi'.inbox[i] = "abort" /\ i < j => pi'.inbox[j] \notin Sends
      BY <1>1, <1>2, <2>1 DEF HeardFacts, NothingAfterAbort
    <2>3. ASSUME NEW i \in 1..Len(wire'), wire'[i].k = "aborted"
          PROVE  /\ ~pi'.run /\ \A j \in 1..Len(pi'.inbox) : pi'.inbox[j] \notin Sends
                 /\ \A j \in 1..Len(wire') : i < j => wire'[j].k \notin {"open", "close"}
      <3>1. i + 1 \in 1..Len(wire) /\ wire[i + 1].k = "aborted"
        BY <1>2, <2>3 DEF HeardFacts
      <3>2. /\ ~pi.run /\ \A j \in 1..Len(pi.inbox) : pi.inbox[j] \notin Sends
            /\ \A j \in 1..Len(wire) : i + 1 < j => wire[j].k \notin {"open", "close"}
        BY <1>1, <2>1, <3>1 DEF NothingAfterAbort
      <3>3. \A j \in 1..Len(wire') : i < j => wire'[j].k \notin {"open", "close"}
        BY <1>2, <3>2 DEF HeardFacts
      <3> QED
        BY <1>2, <3>2, <3>3 DEF HeardFacts
    <2>4. stopper'.pc = "aborted" =>
              /\ ~pi'.run /\ \A j \in 1..Len(pi'.inbox) : pi'.inbox[j] \notin Sends
              /\ \A j \in 1..Len(wire') : wire'[j].k \notin {"open", "close"}
      BY <1>1, <1>2, <2>1 DEF NothingAfterAbort, HeardFacts
    <2> QED
      BY <2>2, <2>3, <2>4 DEF NothingAfterAbort
  <1>9. StoppedIsOver'
    <2>1. \A t \in 1..MaxTurns : opened' < t => turns'[t] = "none"
      BY <1>1, <1>2 DEF StoppedIsOver, HeardFacts, Numbers
    <2>2. \A i \in 1..Len(wire') : wire'[i].k \in {"open", "close"} => wire'[i].v \in 1..opened'
      BY <1>1, <1>2 DEF StoppedIsOver, HeardFacts
    <2>3. ASSUME NEW t \in 1..MaxTurns, turns'[t] = "stopped"
          PROVE  /\ pi'.turn # t
                 /\ \A i \in 1..Len(wire') : wire'[i].k \in {"open", "close"} => wire'[i].v # t
      <3>1. turns[t] = "stopped"
        BY <1>2, <2>3
      <3> QED
        BY <1>1, <1>2, <3>1 DEF StoppedIsOver, HeardFacts
    <2> QED
      BY <2>1, <2>2, <2>3 DEF StoppedIsOver
  <1> QED
    BY <1>1, <1>3, <1>4, <1>5, <1>6, <1>7, <1>8, <1>9 DEF WorkerInv

\* The generations after a start.
LEMMA AgentStartIs ==
    ASSUME WorkerInv, Hears, wire[1].k = "start", ~ses.deaf
    PROVE  /\ HeardFacts
           /\ ses' \in SesRecs /\ ses'.version = ses.version /\ ses'.accepted = ses.accepted /\ ses'.deaf = ses.deaf
           /\ ses'.pending \subseteq ses.pending /\ (ses'.stream = ses.accepted \/ ses'.stream \in ses.pending)
           /\ row # "gone" /\ row' \in {"active", row}
           /\ UNCHANGED <<turns, live, made, loading, send, stopper, deleter, holder, pi, opened>>
PROOF
  <1>1. /\ SessionTypes /\ Versions /\ StopOwns /\ NothingWithoutSession /\ StateAskedOnce /\ Removal
        /\ AbortAskedOnce /\ NothingAfterAbort /\ StoppedIsOver /\ Numbers
    BY NumbersAre DEF WorkerInv
  <1> QED
    <2>1. HeardFacts
      BY HeardIs
    <2>2. AgentStart /\ UNCHANGED <<live, made, loading, send, stopper, deleter, holder, pi, opened>>
      BY <2>1 DEF Hears, Answers, Events, HeardFacts
    <2>3. PICK gen \in IF ses.pending = {} THEN {ses.accepted} ELSE Oldest(ses.pending) :
            ses' = [ses EXCEPT !.stream = gen, !.pending = @ \ {gen}] /\ row' \in {"active", row} /\ UNCHANGED turns
      BY <2>2 DEF AgentStart
    <2>4. gen = ses.accepted \/ gen \in ses.pending
      BY <2>3 DEF Oldest
    <2>5. ses \in SesRecs /\ gen \in Nat
      BY <1>1, <2>4 DEF SessionTypes, Numbers
    <2>6. /\ ses'.version = ses.version /\ ses'.accepted = ses.accepted /\ ses'.stream = gen
          /\ ses'.pending = ses.pending \ {gen}
      BY <2>3, <2>5 DEF SesRecs
    <2>7. ses' \in SesRecs
      BY <2>3, <2>5 DEF SesRecs
    <2>8. ses'.deaf = ses.deaf
      BY <2>3, <2>5 DEF SesRecs
    <2>9. row # "gone"
      BY <1>1, <2>1 DEF Removal, HeardFacts
    <2> QED
      BY <2>1, <2>2, <2>3, <2>4, <2>6, <2>7, <2>8, <2>9

\* Pi's run begins: the events speak for the oldest prompt not yet answered.
LEMMA AgentStartKeeps ==
    ASSUME WorkerInv, Hears, wire[1].k = "start", ~ses.deaf
    PROVE  WorkerInv'
PROOF
  <1>1. /\ SessionTypes /\ Versions /\ StopOwns /\ NothingWithoutSession /\ StateAskedOnce /\ Removal
        /\ AbortAskedOnce /\ NothingAfterAbort /\ StoppedIsOver /\ Numbers
    BY NumbersAre DEF WorkerInv
  <1>2. /\ HeardFacts
        /\ ses' \in SesRecs /\ ses'.version = ses.version /\ ses'.accepted = ses.accepted /\ ses'.deaf = ses.deaf
        /\ ses'.pending \subseteq ses.pending /\ (ses'.stream = ses.accepted \/ ses'.stream \in ses.pending)
        /\ row # "gone" /\ row' \in {"active", row}
        /\ UNCHANGED <<turns, live, made, loading, send, stopper, deleter, holder, pi, opened>>
    BY AgentStartIs
  <1>3. SessionTypes'
    <2>1. row' \in {"idle", "active", "gone"}
      BY <1>1, <1>2 DEF SessionTypes, HeardFacts
    <2>2. ses' \in SesRecs
      BY <1>1, <1>2 DEF SessionTypes, HeardFacts
    <2>3. wire' \in Seq(Lines)
      BY <1>1, <1>2 DEF SessionTypes, HeardFacts
    <2> QED
      BY <1>1, <1>2, <2>1, <2>2, <2>3 DEF SessionTypes, HeardFacts
  <1>4. Versions'
    <2>1. ses'.accepted <= ses'.version /\ ses'.stream <= ses'.version
      BY <1>1, <1>2 DEF Versions, Numbers, StopOwns, HeardFacts
    <2>2. \A g \in ses'.pending : g <= ses'.version
      BY <1>1, <1>2 DEF Versions, Numbers, StopOwns, HeardFacts
    <2>3. \A q \in Sends : send'[q].at <= made'
      BY <1>1, <1>2 DEF Versions, Numbers, StopOwns, HeardFacts
    <2>4. \A q \in Sends : InFlight(q)' /\ send'[q].at = live' /\ live' # None => send'[q].gen <= ses'.version
      BY <1>1, <1>2 DEF Versions, Numbers, StopOwns, HeardFacts, InFlight
    <2>5. stopper'.at <= made'
      BY <1>1, <1>2 DEF Versions, Numbers, StopOwns, HeardFacts
    <2> QED
      BY <2>1, <2>2, <2>3, <2>4, <2>5 DEF Versions, HeardFacts
  <1>5. StopOwns'
    BY <1>1, <1>2
    DEF HeardFacts, Numbers, StopOwns, InFlight, Versions
  <1>6. NothingWithoutSession'
    BY <1>1, <1>2 DEF NothingWithoutSession, HeardFacts
  <1>7. StateAskedOnce'
    <2>1. \A i \in 1..Len(wire') : wire'[i].k # "state"
      BY <1>2 DEF HeardFacts
    <2>2. pi'.up => \A i \in 1..Len(pi'.inbox) : pi'.inbox[i] # "state"
      BY <1>1, <1>2 DEF HeardFacts, StateAskedOnce
    <2> QED
      BY <2>1, <2>2 DEF StateAskedOnce
  <1>8. Removal'
    BY <1>1, <1>2 DEF Removal, HeardFacts
  <1>9. AbortAskedOnce'
    <2>1. pi'.up => \A i \in 1..Len(pi'.inbox) : pi'.inbox[i] = "abort" =>
             /\ stopper'.pc = "aborting" /\ stopper'.at = live'
             /\ \A j \in 1..Len(pi'.inbox) : pi'.inbox[j] = "abort" => j = i
             /\ \A j \in 1..Len(wire') : wire'[j].k \notin {"aborted", "abortFailed"}
      BY <1>1, <1>2 DEF HeardFacts, AbortAskedOnce
    <2>2. ASSUME NEW i \in 1..Len(wire'), wire'[i].k \in {"aborted", "abortFailed"}
          PROVE  /\ stopper'.pc = "aborting" /\ stopper'.at = live'
                 /\ \A j \in 1..Len(wire') : wire'[j].k \in {"aborted", "abortFailed"} => j = i
      <3>1. i + 1 \in 1..Len(wire) /\ wire[i + 1].k \in {"aborted", "abortFailed"}
        BY <1>2, <2>2 DEF HeardFacts
      <3>2. stopper.pc = "aborting" /\ stopper.at = live
        BY <1>1, <3>1 DEF AbortAskedOnce
      <3>3. \A j \in 1..Len(wire) : wire[j].k \in {"aborted", "abortFailed"} => j = i + 1
        BY <1>1, <3>1 DEF AbortAskedOnce
      <3>4. \A j \in 1..Len(wire') : wire'[j].k \in {"aborted", "abortFailed"} => j = i
        BY <1>2, <3>3 DEF HeardFacts
      <3> QED
        BY <1>2, <3>2, <3>4 DEF HeardFacts
    <2> QED
      BY <2>1, <2>2 DEF AbortAskedOnce
  <1>10. NothingAfterAbort'
    <2> SUFFICES ASSUME StopIsNewest' PROVE NothingAfterAbort'
      BY DEF NothingAfterAbort
    <2>1. StopIsNewest
      BY <1>1, <1>2 DEF StopIsNewest, Current, HeardFacts
    <2>2. pi'.up => \A i, j \in 1..Len(pi'.inbox) : pi'.inbox[i] = "abort" /\ i < j => pi'.inbox[j] \notin Sends
      BY <1>1, <1>2, <2>1 DEF HeardFacts, NothingAfterAbort
    <2>3. ASSUME NEW i \in 1..Len(wire'), wire'[i].k = "aborted"
          PROVE  /\ ~pi'.run /\ \A j \in 1..Len(pi'.inbox) : pi'.inbox[j] \notin Sends
                 /\ \A j \in 1..Len(wire') : i < j => wire'[j].k \notin {"open", "close"}
      <3>1. i + 1 \in 1..Len(wire) /\ wire[i + 1].k = "aborted"
        BY <1>2, <2>3 DEF HeardFacts
      <3>2. /\ ~pi.run /\ \A j \in 1..Len(pi.inbox) : pi.inbox[j] \notin Sends
            /\ \A j \in 1..Len(wire) : i + 1 < j => wire[j].k \notin {"open", "close"}
        BY <1>1, <2>1, <3>1 DEF NothingAfterAbort
      <3>3. \A j \in 1..Len(wire') : i < j => wire'[j].k \notin {"open", "close"}
        BY <1>2, <3>2 DEF HeardFacts
      <3> QED
        BY <1>2, <3>2, <3>3 DEF HeardFacts
    <2>4. stopper'.pc = "aborted" =>
              /\ ~pi'.run /\ \A j \in 1..Len(pi'.inbox) : pi'.inbox[j] \notin Sends
              /\ \A j \in 1..Len(wire') : wire'[j].k \notin {"open", "close"}
      BY <1>1, <1>2, <2>1 DEF NothingAfterAbort, HeardFacts
    <2> QED
      BY <2>2, <2>3, <2>4 DEF NothingAfterAbort
  <1>11. StoppedIsOver'
    <2>1. \A t \in 1..MaxTurns : opened' < t => turns'[t] = "none"
      BY <1>1, <1>2 DEF StoppedIsOver, HeardFacts, Numbers
    <2>2. \A i \in 1..Len(wire') : wire'[i].k \in {"open", "close"} => wire'[i].v \in 1..opened'
      BY <1>1, <1>2 DEF StoppedIsOver, HeardFacts
    <2>3. ASSUME NEW t \in 1..MaxTurns, turns'[t] = "stopped"
          PROVE  /\ pi'.turn # t
                 /\ \A i \in 1..Len(wire') : wire'[i].k \in {"open", "close"} => wire'[i].v # t
      <3>1. turns[t] = "stopped"
        BY <1>2, <2>3
      <3> QED
        BY <1>1, <1>2, <3>1 DEF StoppedIsOver, HeardFacts
    <2> QED
      BY <2>1, <2>2, <2>3 DEF StoppedIsOver
  <1> QED
    BY <1>1, <1>3, <1>4, <1>5, <1>6, <1>7, <1>8, <1>9, <1>10, <1>11 DEF WorkerInv

\* Pi opens or closes a turn.
LEMMA TurnEventKeeps ==
    ASSUME WorkerInv, Hears, wire[1].k \in {"open", "close"}, ~ses.deaf
    PROVE  WorkerInv'
PROOF
  <1>1. /\ SessionTypes /\ Versions /\ StopOwns /\ NothingWithoutSession /\ StateAskedOnce /\ Removal
        /\ AbortAskedOnce /\ NothingAfterAbort /\ StoppedIsOver /\ Numbers
    BY NumbersAre DEF WorkerInv
  <1>2. /\ HeardFacts
        /\ turns' \in [1..MaxTurns -> TurnStates]
        /\ \A t \in 1..MaxTurns : turns[t] = "none" /\ opened < t => turns'[t] = "none"
        /\ \A t \in 1..MaxTurns : (turns'[t] = "stopped") <=> (turns[t] = "stopped")
        /\ UNCHANGED <<row, live, made, ses, loading, send, stopper, deleter, holder, pi, opened>>
    <2>1. HeardFacts
      BY HeardIs
    <2>2. TurnEvent(wire[1]) /\ UNCHANGED <<live, made, loading, send, stopper, deleter, holder, pi, opened>>
      BY <2>1 DEF Hears, Answers, Events, HeardFacts
    <2>3. 1 \in 1..Len(wire)
      BY <2>1 DEF HeardFacts
    <2>4. wire[1].v \in 1..opened /\ \A t \in 1..MaxTurns : turns[t] = "stopped" => wire[1].v # t
      BY <1>1, <2>3 DEF StoppedIsOver
    <2>5. turns' = turns \/ \E how \in {"open", "completed"} : turns' = [turns EXCEPT ![wire[1].v] = how]
      BY <2>2 DEF TurnEvent
    <2>6. turns' \in [1..MaxTurns -> TurnStates]
      BY <1>1, <2>5 DEF SessionTypes, TurnStates
    <2>7. ASSUME NEW t \in 1..MaxTurns, turns[t] = "none", opened < t PROVE turns'[t] = "none"
      <3>1. t # wire[1].v
        BY <1>1, <2>4, <2>7, MessagesAre DEF Numbers
      <3> QED
        BY <1>1, <2>5, <2>7, <3>1 DEF SessionTypes
    <2>8. \A t \in 1..MaxTurns : (turns'[t] = "stopped") <=> (turns[t] = "stopped")
      BY <1>1, <2>4, <2>5 DEF SessionTypes
    <2> QED
      BY <2>1, <2>2, <2>6, <2>7, <2>8 DEF TurnEvent
  <1>3. Versions' /\ StopOwns' /\ Removal'
    BY <1>1, <1>2
    DEF Versions, InFlight, StopOwns, Removal, HeardFacts
  <1>4. SessionTypes'
    <2>1. turns' \in [1..MaxTurns -> TurnStates]
      BY <1>1, <1>2 DEF SessionTypes, HeardFacts
    <2>2. wire' \in Seq(Lines)
      BY <1>1, <1>2 DEF SessionTypes, HeardFacts
    <2> QED
      BY <1>1, <1>2, <2>1, <2>2 DEF SessionTypes, HeardFacts
  <1>5. NothingWithoutSession'
    BY <1>1, <1>2 DEF NothingWithoutSession, HeardFacts
  <1>6. StateAskedOnce'
    <2>1. \A i \in 1..Len(wire') : wire'[i].k # "state"
      BY <1>2 DEF HeardFacts
    <2>2. pi'.up => \A i \in 1..Len(pi'.inbox) : pi'.inbox[i] # "state"
      BY <1>1, <1>2 DEF HeardFacts, StateAskedOnce
    <2> QED
      BY <2>1, <2>2 DEF StateAskedOnce
  <1>7. AbortAskedOnce'
    <2>1. pi'.up => \A i \in 1..Len(pi'.inbox) : pi'.inbox[i] = "abort" =>
             /\ stopper'.pc = "aborting" /\ stopper'.at = live'
             /\ \A j \in 1..Len(pi'.inbox) : pi'.inbox[j] = "abort" => j = i
             /\ \A j \in 1..Len(wire') : wire'[j].k \notin {"aborted", "abortFailed"}
      BY <1>1, <1>2 DEF HeardFacts, AbortAskedOnce
    <2>2. ASSUME NEW i \in 1..Len(wire'), wire'[i].k \in {"aborted", "abortFailed"}
          PROVE  /\ stopper'.pc = "aborting" /\ stopper'.at = live'
                 /\ \A j \in 1..Len(wire') : wire'[j].k \in {"aborted", "abortFailed"} => j = i
      <3>1. i + 1 \in 1..Len(wire) /\ wire[i + 1].k \in {"aborted", "abortFailed"}
        BY <1>2, <2>2 DEF HeardFacts
      <3>2. stopper.pc = "aborting" /\ stopper.at = live
        BY <1>1, <3>1 DEF AbortAskedOnce
      <3>3. \A j \in 1..Len(wire) : wire[j].k \in {"aborted", "abortFailed"} => j = i + 1
        BY <1>1, <3>1 DEF AbortAskedOnce
      <3>4. \A j \in 1..Len(wire') : wire'[j].k \in {"aborted", "abortFailed"} => j = i
        BY <1>2, <3>3 DEF HeardFacts
      <3> QED
        BY <1>2, <3>2, <3>4 DEF HeardFacts
    <2> QED
      BY <2>1, <2>2 DEF AbortAskedOnce
  <1>8. NothingAfterAbort'
    <2> SUFFICES ASSUME StopIsNewest' PROVE NothingAfterAbort'
      BY DEF NothingAfterAbort
    <2>1. StopIsNewest
      BY <1>1, <1>2 DEF StopIsNewest, Current, HeardFacts
    <2>2. pi'.up => \A i, j \in 1..Len(pi'.inbox) : pi'.inbox[i] = "abort" /\ i < j => pi'.inbox[j] \notin Sends
      BY <1>1, <1>2, <2>1 DEF HeardFacts, NothingAfterAbort
    <2>3. ASSUME NEW i \in 1..Len(wire'), wire'[i].k = "aborted"
          PROVE  /\ ~pi'.run /\ \A j \in 1..Len(pi'.inbox) : pi'.inbox[j] \notin Sends
                 /\ \A j \in 1..Len(wire') : i < j => wire'[j].k \notin {"open", "close"}
      <3>1. i + 1 \in 1..Len(wire) /\ wire[i + 1].k = "aborted"
        BY <1>2, <2>3 DEF HeardFacts
      <3>2. /\ ~pi.run /\ \A j \in 1..Len(pi.inbox) : pi.inbox[j] \notin Sends
            /\ \A j \in 1..Len(wire) : i + 1 < j => wire[j].k \notin {"open", "close"}
        BY <1>1, <2>1, <3>1 DEF NothingAfterAbort
      <3>3. \A j \in 1..Len(wire') : i < j => wire'[j].k \notin {"open", "close"}
        BY <1>2, <3>2 DEF HeardFacts
      <3> QED
        BY <1>2, <3>2, <3>3 DEF HeardFacts
    <2>4. stopper'.pc = "aborted" =>
              /\ ~pi'.run /\ \A j \in 1..Len(pi'.inbox) : pi'.inbox[j] \notin Sends
              /\ \A j \in 1..Len(wire') : wire'[j].k \notin {"open", "close"}
      BY <1>1, <1>2, <2>1 DEF NothingAfterAbort, HeardFacts
    <2> QED
      BY <2>2, <2>3, <2>4 DEF NothingAfterAbort
  <1>9. StoppedIsOver'
    <2>1. \A t \in 1..MaxTurns : opened' < t => turns'[t] = "none"
      BY <1>1, <1>2 DEF StoppedIsOver, HeardFacts, Numbers
    <2>2. \A i \in 1..Len(wire') : wire'[i].k \in {"open", "close"} => wire'[i].v \in 1..opened'
      BY <1>1, <1>2 DEF StoppedIsOver, HeardFacts
    <2>3. ASSUME NEW t \in 1..MaxTurns, turns'[t] = "stopped"
          PROVE  /\ pi'.turn # t
                 /\ \A i \in 1..Len(wire') : wire'[i].k \in {"open", "close"} => wire'[i].v # t
      <3>1. turns[t] = "stopped"
        BY <1>2, <2>3
      <3> QED
        BY <1>1, <1>2, <3>1 DEF StoppedIsOver, HeardFacts
    <2> QED
      BY <2>1, <2>2, <2>3 DEF StoppedIsOver
  <1> QED
    BY <1>1, <1>3, <1>4, <1>5, <1>6, <1>7, <1>8, <1>9 DEF WorkerInv

\* The generations after the end of a run.
LEMMA AgentSettledIs ==
    ASSUME WorkerInv, Hears, wire[1].k = "settled", ~ses.deaf
    PROVE  /\ HeardFacts
           /\ ses' \in SesRecs /\ ses'.version = ses.version /\ ses'.deaf = ses.deaf /\ ses'.pending = ses.pending
           /\ ses'.stream \in {0, ses.stream} /\ ses'.accepted \in {0, ses.accepted}
           /\ turns' \in [1..MaxTurns -> TurnStates]
           /\ \A t \in 1..MaxTurns : turns[t] = "none" => turns'[t] = "none"
           /\ \A t \in 1..MaxTurns : (turns'[t] = "stopped") <=> (turns[t] = "stopped")
           /\ row' = row \/ (row # "gone" /\ row' = "idle")
           /\ UNCHANGED <<live, made, loading, send, stopper, deleter, holder, pi, opened>>
PROOF
  <1>1. /\ SessionTypes /\ Versions /\ StopOwns /\ NothingWithoutSession /\ StateAskedOnce /\ Removal
        /\ AbortAskedOnce /\ NothingAfterAbort /\ StoppedIsOver /\ Numbers
    BY NumbersAre DEF WorkerInv
  <1> QED
    <2>1. HeardFacts
      BY HeardIs
    <2>2. AgentSettled /\ UNCHANGED <<live, made, loading, send, stopper, deleter, holder, pi, opened>>
      BY <2>1 DEF Hears, Answers, Events, HeardFacts
    <2>3. ses \in SesRecs
      BY <1>1 DEF SessionTypes
    <2>4. \/ turns' = turns /\ row' = row /\ ses' = ses
          \/ /\ \E how \in {"completed", "interrupted"} : turns' = Marked(OpenTurns, how)
             /\ row' = AtRest /\ ses' = [ses EXCEPT !.stream = None, !.accepted = None]
      BY <2>2 DEF AgentSettled
    <2>5. CASE turns' = turns /\ row' = row /\ ses' = ses
      BY <1>1, <2>1, <2>2, <2>3, <2>5 DEF SessionTypes
    <2>6. CASE /\ \E how \in {"completed", "interrupted"} : turns' = Marked(OpenTurns, how)
               /\ row' = AtRest /\ ses' = [ses EXCEPT !.stream = None, !.accepted = None]
      <3>1. ses'.version = ses.version /\ ses'.pending = ses.pending /\ ses'.stream = 0 /\ ses'.accepted = 0
        BY <2>3, <2>6 DEF SesRecs, None
      <3>2. ses' \in SesRecs
        BY <2>3, <2>6 DEF SesRecs, None
      <3>3. ses'.deaf = ses.deaf
        BY <2>3, <2>6 DEF SesRecs
      <3>4. PICK how \in {"completed", "interrupted"} : turns' = Marked(OpenTurns, how)
        BY <2>6
      <3>5. /\ turns' \in [1..MaxTurns -> TurnStates]
            /\ \A t \in 1..MaxTurns : turns[t] = "none" => turns'[t] = "none"
            /\ \A t \in 1..MaxTurns : turns'[t] = "stopped" => turns[t] = "stopped" \/ how = "stopped"
            /\ \A t \in 1..MaxTurns : turns[t] = "stopped" => turns'[t] = "stopped"
        BY <1>1, <3>4, MarkedIs DEF TurnStates
      <3>6. row' = row \/ (row # "gone" /\ row' = "idle")
        BY <2>6 DEF AtRest
      <3> QED
        BY <2>1, <2>2, <3>1, <3>2, <3>3, <3>5, <3>6
    <2> QED
      BY <2>4, <2>5, <2>6

\* Pi's run is over.
LEMMA AgentSettledKeeps ==
    ASSUME WorkerInv, Hears, wire[1].k = "settled", ~ses.deaf
    PROVE  WorkerInv'
PROOF
  <1>1. /\ SessionTypes /\ Versions /\ StopOwns /\ NothingWithoutSession /\ StateAskedOnce /\ Removal
        /\ AbortAskedOnce /\ NothingAfterAbort /\ StoppedIsOver /\ Numbers
    BY NumbersAre DEF WorkerInv
  <1>2. /\ HeardFacts
        /\ ses' \in SesRecs /\ ses'.version = ses.version /\ ses'.deaf = ses.deaf /\ ses'.pending = ses.pending
        /\ ses'.stream \in {0, ses.stream} /\ ses'.accepted \in {0, ses.accepted}
        /\ turns' \in [1..MaxTurns -> TurnStates]
        /\ \A t \in 1..MaxTurns : turns[t] = "none" => turns'[t] = "none"
        /\ \A t \in 1..MaxTurns : (turns'[t] = "stopped") <=> (turns[t] = "stopped")
        /\ row' = row \/ (row # "gone" /\ row' = "idle")
        /\ UNCHANGED <<live, made, loading, send, stopper, deleter, holder, pi, opened>>
    BY AgentSettledIs
  <1>3. SessionTypes'
    <2>1. row' \in {"idle", "active", "gone"}
      BY <1>1, <1>2 DEF SessionTypes, HeardFacts
    <2>2. turns' \in [1..MaxTurns -> TurnStates]
      BY <1>1, <1>2 DEF SessionTypes, HeardFacts
    <2>3. ses' \in SesRecs
      BY <1>1, <1>2 DEF SessionTypes, HeardFacts
    <2>4. wire' \in Seq(Lines)
      BY <1>1, <1>2 DEF SessionTypes, HeardFacts
    <2> QED
      BY <1>1, <1>2, <2>1, <2>2, <2>3, <2>4 DEF SessionTypes, HeardFacts
  <1>4. Versions'
    <2>1. ses'.accepted <= ses'.version /\ ses'.stream <= ses'.version
      BY <1>1, <1>2 DEF Versions, Numbers, StopOwns, HeardFacts
    <2>2. \A g \in ses'.pending : g <= ses'.version
      BY <1>1, <1>2 DEF Versions, Numbers, StopOwns, HeardFacts
    <2>3. \A q \in Sends : send'[q].at <= made'
      BY <1>1, <1>2 DEF Versions, Numbers, StopOwns, HeardFacts
    <2>4. \A q \in Sends : InFlight(q)' /\ send'[q].at = live' /\ live' # None => send'[q].gen <= ses'.version
      BY <1>1, <1>2 DEF Versions, Numbers, StopOwns, HeardFacts, InFlight
    <2>5. stopper'.at <= made'
      BY <1>1, <1>2 DEF Versions, Numbers, StopOwns, HeardFacts
    <2> QED
      BY <2>1, <2>2, <2>3, <2>4, <2>5 DEF Versions, HeardFacts
  <1>5. StopOwns'
    BY <1>1, <1>2
    DEF HeardFacts, Numbers, StopOwns, InFlight, Versions
  <1>6. NothingWithoutSession'
    BY <1>1, <1>2 DEF NothingWithoutSession, HeardFacts
  <1>7. StateAskedOnce'
    <2>1. \A i \in 1..Len(wire') : wire'[i].k # "state"
      BY <1>2 DEF HeardFacts
    <2>2. pi'.up => \A i \in 1..Len(pi'.inbox) : pi'.inbox[i] # "state"
      BY <1>1, <1>2 DEF HeardFacts, StateAskedOnce
    <2> QED
      BY <2>1, <2>2 DEF StateAskedOnce
  <1>8. Removal'
    BY <1>1, <1>2 DEF Removal, HeardFacts
  <1>9. AbortAskedOnce'
    <2>1. pi'.up => \A i \in 1..Len(pi'.inbox) : pi'.inbox[i] = "abort" =>
             /\ stopper'.pc = "aborting" /\ stopper'.at = live'
             /\ \A j \in 1..Len(pi'.inbox) : pi'.inbox[j] = "abort" => j = i
             /\ \A j \in 1..Len(wire') : wire'[j].k \notin {"aborted", "abortFailed"}
      BY <1>1, <1>2 DEF HeardFacts, AbortAskedOnce
    <2>2. ASSUME NEW i \in 1..Len(wire'), wire'[i].k \in {"aborted", "abortFailed"}
          PROVE  /\ stopper'.pc = "aborting" /\ stopper'.at = live'
                 /\ \A j \in 1..Len(wire') : wire'[j].k \in {"aborted", "abortFailed"} => j = i
      <3>1. i + 1 \in 1..Len(wire) /\ wire[i + 1].k \in {"aborted", "abortFailed"}
        BY <1>2, <2>2 DEF HeardFacts
      <3>2. stopper.pc = "aborting" /\ stopper.at = live
        BY <1>1, <3>1 DEF AbortAskedOnce
      <3>3. \A j \in 1..Len(wire) : wire[j].k \in {"aborted", "abortFailed"} => j = i + 1
        BY <1>1, <3>1 DEF AbortAskedOnce
      <3>4. \A j \in 1..Len(wire') : wire'[j].k \in {"aborted", "abortFailed"} => j = i
        BY <1>2, <3>3 DEF HeardFacts
      <3> QED
        BY <1>2, <3>2, <3>4 DEF HeardFacts
    <2> QED
      BY <2>1, <2>2 DEF AbortAskedOnce
  <1>10. NothingAfterAbort'
    <2> SUFFICES ASSUME StopIsNewest' PROVE NothingAfterAbort'
      BY DEF NothingAfterAbort
    <2>1. StopIsNewest
      BY <1>1, <1>2 DEF StopIsNewest, Current, HeardFacts
    <2>2. pi'.up => \A i, j \in 1..Len(pi'.inbox) : pi'.inbox[i] = "abort" /\ i < j => pi'.inbox[j] \notin Sends
      BY <1>1, <1>2, <2>1 DEF HeardFacts, NothingAfterAbort
    <2>3. ASSUME NEW i \in 1..Len(wire'), wire'[i].k = "aborted"
          PROVE  /\ ~pi'.run /\ \A j \in 1..Len(pi'.inbox) : pi'.inbox[j] \notin Sends
                 /\ \A j \in 1..Len(wire') : i < j => wire'[j].k \notin {"open", "close"}
      <3>1. i + 1 \in 1..Len(wire) /\ wire[i + 1].k = "aborted"
        BY <1>2, <2>3 DEF HeardFacts
      <3>2. /\ ~pi.run /\ \A j \in 1..Len(pi.inbox) : pi.inbox[j] \notin Sends
            /\ \A j \in 1..Len(wire) : i + 1 < j => wire[j].k \notin {"open", "close"}
        BY <1>1, <2>1, <3>1 DEF NothingAfterAbort
      <3>3. \A j \in 1..Len(wire') : i < j => wire'[j].k \notin {"open", "close"}
        BY <1>2, <3>2 DEF HeardFacts
      <3> QED
        BY <1>2, <3>2, <3>3 DEF HeardFacts
    <2>4. stopper'.pc = "aborted" =>
              /\ ~pi'.run /\ \A j \in 1..Len(pi'.inbox) : pi'.inbox[j] \notin Sends
              /\ \A j \in 1..Len(wire') : wire'[j].k \notin {"open", "close"}
      BY <1>1, <1>2, <2>1 DEF NothingAfterAbort, HeardFacts
    <2> QED
      BY <2>2, <2>3, <2>4 DEF NothingAfterAbort
  <1>11. StoppedIsOver'
    <2>1. \A t \in 1..MaxTurns : opened' < t => turns'[t] = "none"
      BY <1>1, <1>2 DEF StoppedIsOver, HeardFacts, Numbers
    <2>2. \A i \in 1..Len(wire') : wire'[i].k \in {"open", "close"} => wire'[i].v \in 1..opened'
      BY <1>1, <1>2 DEF StoppedIsOver, HeardFacts
    <2>3. ASSUME NEW t \in 1..MaxTurns, turns'[t] = "stopped"
          PROVE  /\ pi'.turn # t
                 /\ \A i \in 1..Len(wire') : wire'[i].k \in {"open", "close"} => wire'[i].v # t
      <3>1. turns[t] = "stopped"
        BY <1>2, <2>3
      <3> QED
        BY <1>1, <1>2, <3>1 DEF StoppedIsOver, HeardFacts
    <2> QED
      BY <2>1, <2>2, <2>3 DEF StoppedIsOver
  <1> QED
    BY <1>1, <1>3, <1>4, <1>5, <1>6, <1>7, <1>8, <1>9, <1>10, <1>11 DEF WorkerInv

\* What Pi says to a message that starts no run.
LEMMA PromptReadIs ==
    ASSUME WorkerInv, PiReads, pi.inbox[1] \in Sends, pi' = [pi EXCEPT !.inbox = Tail(pi.inbox)],
           NEW k \in {"ack", "nack"}, wire' = Append(wire, Says(k, pi.inbox[1]))
    PROVE  /\ SaidFacts /\ Rest(1)
           /\ 1 \in 1..Len(pi.inbox)
           /\ Len(wire') = Len(wire) + 1
           /\ pi'.run = pi.run /\ pi'.turn = pi.turn
           /\ \A i \in 1..Len(wire') : i \notin 1..Len(wire) => wire'[i].k \in {"ack", "nack"}
           /\ UNCHANGED <<row, turns, live, made, ses, loading, send, stopper, deleter, holder, opened>>
PROOF
  <1>1. /\ SessionTypes /\ Versions /\ StopOwns /\ NothingWithoutSession /\ StateAskedOnce /\ Removal
        /\ AbortAskedOnce /\ NothingAfterAbort /\ StoppedIsOver /\ Numbers
    BY NumbersAre DEF WorkerInv
  <1> QED
    <2> DEFINE p == [pi EXCEPT !.inbox = Tail(pi.inbox)]
    <2>1. /\ Len(pi.inbox) \in Nat /\ Len(pi.inbox) >= 1 /\ Head(pi.inbox) = pi.inbox[1]
          /\ pi.inbox[1] \in Inputs /\ live # None /\ pi.turn <= opened
          /\ p \in PiRecs /\ p.up /\ p.run = pi.run /\ p.turn = pi.turn
          /\ Len(p.inbox) = Len(pi.inbox) - 1
          /\ \A i \in 1..Len(p.inbox) :
                i + 1 \in 1..Len(pi.inbox) /\ p.inbox[i] = pi.inbox[i + 1] /\ p.inbox[i] # "state"
      BY ReadIs DEF PiReads
    <2>2. /\ pi.up /\ pi' = p /\ wire' = Append(wire, Says(k, pi.inbox[1]))
          /\ UNCHANGED <<row, turns, live, made, ses, loading, send, stopper, deleter, holder, opened>>
      BY <2>1, MessagesAre DEF PiReads, clientVars, callVars
    <2> HIDE DEF p
    <2>3. Rest(1) /\ 1 \in 1..Len(pi.inbox) /\ pi'.run = pi.run /\ pi'.turn = pi.turn
      <3>1. pi.up /\ pi'.up /\ pi'.run = pi.run /\ pi'.turn = pi.turn
        BY <2>1, <2>2
      <3>2. pi' \in PiRecs /\ Len(pi.inbox) \in Nat /\ Len(pi'.inbox) = Len(pi.inbox) - 1
        BY <2>1, <2>2
      <3>3. \A i \in 1..Len(pi'.inbox) :
               i + 1 \in 1..Len(pi.inbox) /\ pi'.inbox[i] = pi.inbox[i + 1] /\ pi'.inbox[i] # "state"
        BY <2>1, <2>2
      <3>4. 1 \in 1..Len(pi.inbox)
        BY <2>1
      <3> QED
        BY <3>1, <3>2, <3>3, <3>4 DEF Rest
    <2>4. Says(k, pi.inbox[1]) \in Lines /\ Says(k, pi.inbox[1]).k = k
      BY <2>1, LineIs DEF LineKinds, None, Inputs
    <2>5. SaidFacts /\ \A i \in 1..Len(wire') : i \notin 1..Len(wire) => i = Len(wire) + 1 /\ wire'[i] = Says(k, pi.inbox[1])
      BY <1>1, <2>2, <2>4, SaysIs
    <2>6. Len(wire') = Len(wire) + 1
      BY <1>1, <2>2, <2>4, LinesAre DEF SessionTypes
    <2> QED
      BY <2>2, <2>3, <2>4, <2>5, <2>6

\* Pi steers a prompt into the run under way, or refuses it.
LEMMA PromptReadKeeps ==
    ASSUME WorkerInv, PiReads, pi.inbox[1] \in Sends, pi' = [pi EXCEPT !.inbox = Tail(pi.inbox)],
           NEW k \in {"ack", "nack"}, wire' = Append(wire, Says(k, pi.inbox[1]))
    PROVE  WorkerInv'
PROOF
  <1>1. /\ SessionTypes /\ Versions /\ StopOwns /\ NothingWithoutSession /\ StateAskedOnce /\ Removal
        /\ AbortAskedOnce /\ NothingAfterAbort /\ StoppedIsOver /\ Numbers
    BY NumbersAre DEF WorkerInv
  <1>2. /\ SaidFacts /\ Rest(1)
        /\ 1 \in 1..Len(pi.inbox)
        /\ Len(wire') = Len(wire) + 1
        /\ pi'.run = pi.run /\ pi'.turn = pi.turn
        /\ \A i \in 1..Len(wire') : i \notin 1..Len(wire) => wire'[i].k \in {"ack", "nack"}
        /\ UNCHANGED <<row, turns, live, made, ses, loading, send, stopper, deleter, holder, opened>>
    BY PromptReadIs
  <1>3. Versions' /\ StopOwns' /\ Removal'
    BY <1>1, <1>2
    DEF Versions, InFlight, StopOwns, Removal
  <1>4. SessionTypes'
    BY <1>1, <1>2, MessagesAre DEF SessionTypes, SaidFacts, Rest, Numbers
  <1>5. NothingWithoutSession'
    BY <1>1, <1>2 DEF NothingWithoutSession, Rest, Numbers, None
  <1>6. StateAskedOnce'
    <2>1. \A i \in 1..Len(pi'.inbox) : pi'.inbox[i] # "state"
      BY <1>2 DEF Rest
    <2>2. ASSUME NEW i \in 1..Len(wire'), wire'[i].k = "state"
          PROVE  i = 1 /\ loading = "asking" /\ wire'[i].v \in {"idle", "busy"}
      <3>1. i \in 1..Len(wire) /\ wire'[i] = wire[i]
        BY <1>2, <2>2 DEF SaidFacts
      <3> QED
        BY <1>1, <2>2, <3>1 DEF StateAskedOnce
    <2> QED
      BY <1>2, <2>1, <2>2 DEF StateAskedOnce
  <1>7. AbortAskedOnce'
    <2>1. ASSUME NEW i \in 1..Len(pi'.inbox), pi'.inbox[i] = "abort"
          PROVE  /\ stopper.pc = "aborting" /\ stopper.at = live
                 /\ \A j \in 1..Len(pi'.inbox) : pi'.inbox[j] = "abort" => j = i
                 /\ \A j \in 1..Len(wire') : wire'[j].k \notin {"aborted", "abortFailed"}
      <3>1. i + 1 \in 1..Len(pi.inbox) /\ pi.inbox[i + 1] = "abort" /\ pi.up
        BY <1>2, <2>1 DEF Rest
      <3>2. /\ stopper.pc = "aborting" /\ stopper.at = live
            /\ \A j \in 1..Len(pi.inbox) : pi.inbox[j] = "abort" => j = i + 1
            /\ \A j \in 1..Len(wire) : wire[j].k \notin {"aborted", "abortFailed"}
        BY <1>1, <3>1 DEF AbortAskedOnce
      <3>3. \A j \in 1..Len(pi'.inbox) : pi'.inbox[j] = "abort" => j = i
        BY <1>2, <3>2 DEF Rest
      <3>4. \A j \in 1..Len(wire') : wire'[j].k \notin {"aborted", "abortFailed"}
        BY <1>2, <3>2 DEF SaidFacts
      <3> QED
        BY <3>2, <3>3, <3>4
    <2>2. ASSUME NEW i \in 1..Len(wire'), wire'[i].k \in {"aborted", "abortFailed"}
          PROVE  /\ stopper.pc = "aborting" /\ stopper.at = live
                 /\ \A j \in 1..Len(wire') : wire'[j].k \in {"aborted", "abortFailed"} => j = i
      <3>1. i \in 1..Len(wire) /\ wire[i].k \in {"aborted", "abortFailed"}
        BY <1>2, <2>2 DEF SaidFacts
      <3>2. /\ stopper.pc = "aborting" /\ stopper.at = live
            /\ \A j \in 1..Len(wire) : wire[j].k \in {"aborted", "abortFailed"} => j = i
        BY <1>1, <3>1 DEF AbortAskedOnce
      <3> QED
        BY <1>2, <3>2 DEF SaidFacts
    <2> QED
      BY <1>2, <2>1, <2>2 DEF AbortAskedOnce
  <1>8. NothingAfterAbort'
    <2> SUFFICES ASSUME StopIsNewest' PROVE NothingAfterAbort'
      BY DEF NothingAfterAbort
    <2>1. StopIsNewest
      BY <1>2 DEF StopIsNewest, Current
    <2>2. ASSUME NEW i \in 1..Len(pi'.inbox), NEW j \in 1..Len(pi'.inbox), pi'.inbox[i] = "abort", i < j
          PROVE  pi'.inbox[j] \notin Sends
      <3>1. /\ i + 1 \in 1..Len(pi.inbox) /\ pi.inbox[i + 1] = "abort" /\ i + 1 < j + 1
            /\ j + 1 \in 1..Len(pi.inbox) /\ pi.inbox[j + 1] = pi'.inbox[j] /\ pi.up
        BY <1>2, <2>2 DEF Rest
      <3> QED
        BY <1>1, <2>1, <3>1 DEF NothingAfterAbort
    <2>3. ASSUME NEW i \in 1..Len(wire'), wire'[i].k = "aborted"
          PROVE  /\ ~pi'.run /\ \A j \in 1..Len(pi'.inbox) : pi'.inbox[j] \notin Sends
                 /\ \A j \in 1..Len(wire') : i < j => wire'[j].k \notin {"open", "close"}
      <3>1. i \in 1..Len(wire) /\ wire[i].k = "aborted"
        BY <1>2, <2>3 DEF SaidFacts
      <3>2. /\ ~pi.run /\ \A j \in 1..Len(pi.inbox) : pi.inbox[j] \notin Sends
            /\ \A j \in 1..Len(wire) : i < j => wire[j].k \notin {"open", "close"}
        BY <1>1, <2>1, <3>1 DEF NothingAfterAbort
      <3>3. ~pi'.run /\ \A j \in 1..Len(pi'.inbox) : pi'.inbox[j] \notin Sends
        BY <1>2, <3>2 DEF Rest
      <3>4. \A j \in 1..Len(wire') : i < j => wire'[j].k \notin {"open", "close"}
        BY <1>2, <3>2 DEF SaidFacts
      <3> QED
        BY <3>3, <3>4
    <2>4. ASSUME stopper'.pc = "aborted"
          PROVE  /\ ~pi'.run /\ \A j \in 1..Len(pi'.inbox) : pi'.inbox[j] \notin Sends
                 /\ \A j \in 1..Len(wire') : wire'[j].k \notin {"open", "close"}
      <3>1. /\ ~pi.run /\ \A j \in 1..Len(pi.inbox) : pi.inbox[j] \notin Sends
            /\ \A j \in 1..Len(wire) : wire[j].k \notin {"open", "close"}
        BY <1>1, <1>2, <2>1, <2>4 DEF NothingAfterAbort
      <3>2. ~pi'.run /\ \A j \in 1..Len(pi'.inbox) : pi'.inbox[j] \notin Sends
        BY <1>2, <3>1 DEF Rest
      <3>3. \A j \in 1..Len(wire') : wire'[j].k \notin {"open", "close"}
        BY <1>2, <3>1 DEF SaidFacts
      <3> QED
        BY <3>2, <3>3
    <2> QED
      BY <2>2, <2>3, <2>4 DEF NothingAfterAbort
  <1>9. StoppedIsOver'
    <2>1. \A t \in 1..MaxTurns : opened' < t => turns'[t] = "none"
      BY <1>1, <1>2, MessagesAre DEF StoppedIsOver, Numbers
    <2>2. ASSUME NEW i \in 1..Len(wire'), wire'[i].k \in {"open", "close"}
          PROVE  wire'[i].v \in 1..opened' /\ \A t \in 1..MaxTurns : turns'[t] = "stopped" => wire'[i].v # t
      <3>1. CASE i \in 1..Len(wire)
        <4>1. wire[i].k \in {"open", "close"} /\ wire'[i] = wire[i]
          BY <1>2, <2>2, <3>1 DEF SaidFacts
        <4>2. wire[i].v \in 1..opened /\ \A t \in 1..MaxTurns : turns[t] = "stopped" => wire[i].v # t
          BY <1>1, <3>1, <4>1 DEF StoppedIsOver
        <4> QED
          BY <1>1, <1>2, <4>1, <4>2 DEF Numbers
      <3>2. CASE i \notin 1..Len(wire)
        <4>1. pi.turn \in Nat /\ pi.turn <= opened
          BY <1>1 DEF SessionTypes, PiRecs, NothingWithoutSession
        <4>2. wire'[i].v \in 1..opened' /\ (wire'[i].v = pi.turn \/ wire'[i].v = opened + 1)
          BY <1>1, <1>2, <2>2, <3>2, <4>1 DEF Numbers, None
        <4>3. ASSUME NEW t \in 1..MaxTurns, turns[t] = "stopped" PROVE pi.turn # t /\ t <= opened
          <5>1. pi.turn # t /\ ~(opened < t)
            BY <1>1, <4>3 DEF StoppedIsOver
          <5> QED
            BY <1>1, <5>1, MessagesAre DEF Numbers
        <4>4. ASSUME NEW t \in 1..MaxTurns, turns'[t] = "stopped" PROVE wire'[i].v # t
          <5>1. turns[t] = "stopped"
            BY <1>2, <4>4
          <5>2. pi.turn # t /\ t <= opened
            BY <4>3, <5>1
          <5>3. opened \in Nat /\ t \in Nat
            BY <1>1, MessagesAre DEF Numbers
          <5> QED
            BY <4>2, <5>2, <5>3
        <4> QED
          BY <4>2, <4>4
      <3> QED
        BY <3>1, <3>2
    <2>3. \A t \in 1..MaxTurns : turns'[t] = "stopped" => pi'.turn # t
      BY <1>1, <1>2, MessagesAre DEF StoppedIsOver, Numbers, None
    <2> QED
      BY <2>1, <2>2, <2>3 DEF StoppedIsOver
  <1> QED
    BY <1>1, <1>3, <1>4, <1>5, <1>6, <1>7, <1>8, <1>9 DEF WorkerInv

\* What it says to an abort it does not carry out.
LEMMA AbortRefusedIs ==
    ASSUME WorkerInv, PiReads, pi.inbox[1] = "abort", pi' = [pi EXCEPT !.inbox = Tail(pi.inbox)],
           wire' = Append(wire, Says("abortFailed", None))
    PROVE  /\ SaidFacts /\ Rest(1)
           /\ pi.inbox[1] = "abort" /\ 1 \in 1..Len(pi.inbox)
           /\ Len(wire') = Len(wire) + 1
           /\ pi'.run = pi.run /\ pi'.turn = pi.turn
           /\ \A i \in 1..Len(wire') : i \notin 1..Len(wire) => i = Len(wire) + 1 /\ wire'[i].k = "abortFailed"
           /\ UNCHANGED <<row, turns, live, made, ses, loading, send, stopper, deleter, holder, opened>>
PROOF
  <1>1. /\ SessionTypes /\ Versions /\ StopOwns /\ NothingWithoutSession /\ StateAskedOnce /\ Removal
        /\ AbortAskedOnce /\ NothingAfterAbort /\ StoppedIsOver /\ Numbers
    BY NumbersAre DEF WorkerInv
  <1> QED
    <2> DEFINE p == [pi EXCEPT !.inbox = Tail(pi.inbox)]
    <2>1. /\ Len(pi.inbox) \in Nat /\ Len(pi.inbox) >= 1 /\ Head(pi.inbox) = pi.inbox[1]
          /\ pi.inbox[1] \in Inputs /\ live # None /\ pi.turn <= opened
          /\ p \in PiRecs /\ p.up /\ p.run = pi.run /\ p.turn = pi.turn
          /\ Len(p.inbox) = Len(pi.inbox) - 1
          /\ \A i \in 1..Len(p.inbox) :
                i + 1 \in 1..Len(pi.inbox) /\ p.inbox[i] = pi.inbox[i + 1] /\ p.inbox[i] # "state"
      BY ReadIs DEF PiReads
    <2>2. /\ pi.up /\ pi' = p /\ wire' = Append(wire, Says("abortFailed", None))
          /\ UNCHANGED <<row, turns, live, made, ses, loading, send, stopper, deleter, holder, opened>>
      BY <2>1, MessagesAre DEF PiReads, clientVars, callVars
    <2> HIDE DEF p
    <2>3. Rest(1) /\ 1 \in 1..Len(pi.inbox) /\ pi'.run = pi.run /\ pi'.turn = pi.turn
      <3>1. pi.up /\ pi'.up /\ pi'.run = pi.run /\ pi'.turn = pi.turn
        BY <2>1, <2>2
      <3>2. pi' \in PiRecs /\ Len(pi.inbox) \in Nat /\ Len(pi'.inbox) = Len(pi.inbox) - 1
        BY <2>1, <2>2
      <3>3. \A i \in 1..Len(pi'.inbox) :
               i + 1 \in 1..Len(pi.inbox) /\ pi'.inbox[i] = pi.inbox[i + 1] /\ pi'.inbox[i] # "state"
        BY <2>1, <2>2
      <3>4. 1 \in 1..Len(pi.inbox)
        BY <2>1
      <3> QED
        BY <3>1, <3>2, <3>3, <3>4 DEF Rest
    <2>4. Says("abortFailed", None) \in Lines /\ Says("abortFailed", None).k = "abortFailed"
      BY <2>1, LineIs DEF LineKinds, None, Inputs
    <2>5. SaidFacts /\ \A i \in 1..Len(wire') : i \notin 1..Len(wire) => i = Len(wire) + 1 /\ wire'[i] = Says("abortFailed", None)
      BY <1>1, <2>2, <2>4, SaysIs
    <2>6. Len(wire') = Len(wire) + 1
      BY <1>1, <2>2, <2>4, LinesAre DEF SessionTypes
    <2> QED
      BY <2>2, <2>3, <2>4, <2>5, <2>6

\* Pi cannot abort its run.
LEMMA AbortRefusedKeeps ==
    ASSUME WorkerInv, PiReads, pi.inbox[1] = "abort", pi' = [pi EXCEPT !.inbox = Tail(pi.inbox)],
           wire' = Append(wire, Says("abortFailed", None))
    PROVE  WorkerInv'
PROOF
  <1>1. /\ SessionTypes /\ Versions /\ StopOwns /\ NothingWithoutSession /\ StateAskedOnce /\ Removal
        /\ AbortAskedOnce /\ NothingAfterAbort /\ StoppedIsOver /\ Numbers
    BY NumbersAre DEF WorkerInv
  <1>2. /\ SaidFacts /\ Rest(1)
        /\ pi.inbox[1] = "abort" /\ 1 \in 1..Len(pi.inbox)
        /\ Len(wire') = Len(wire) + 1
        /\ pi'.run = pi.run /\ pi'.turn = pi.turn
        /\ \A i \in 1..Len(wire') : i \notin 1..Len(wire) => i = Len(wire) + 1 /\ wire'[i].k = "abortFailed"
        /\ UNCHANGED <<row, turns, live, made, ses, loading, send, stopper, deleter, holder, opened>>
    BY AbortRefusedIs
  <1>3. Versions' /\ StopOwns' /\ Removal'
    BY <1>1, <1>2
    DEF Versions, InFlight, StopOwns, Removal
  <1>4. SessionTypes'
    BY <1>1, <1>2, MessagesAre DEF SessionTypes, SaidFacts, Rest, Numbers
  <1>5. NothingWithoutSession'
    BY <1>1, <1>2 DEF NothingWithoutSession, Rest, Numbers, None
  <1>6. StateAskedOnce'
    <2>1. \A i \in 1..Len(pi'.inbox) : pi'.inbox[i] # "state"
      BY <1>2 DEF Rest
    <2>2. ASSUME NEW i \in 1..Len(wire'), wire'[i].k = "state"
          PROVE  i = 1 /\ loading = "asking" /\ wire'[i].v \in {"idle", "busy"}
      <3>1. i \in 1..Len(wire) /\ wire'[i] = wire[i]
        BY <1>2, <2>2 DEF SaidFacts
      <3> QED
        BY <1>1, <2>2, <3>1 DEF StateAskedOnce
    <2> QED
      BY <1>2, <2>1, <2>2 DEF StateAskedOnce
  <1>7. AbortAskedOnce'
    <2>1. /\ stopper.pc = "aborting" /\ stopper.at = live
          /\ \A j \in 1..Len(pi.inbox) : pi.inbox[j] = "abort" => j = 1
          /\ \A j \in 1..Len(wire) : wire[j].k \notin {"aborted", "abortFailed"}
      BY <1>1, <1>2 DEF AbortAskedOnce, Rest
    <2>2. \A i \in 1..Len(pi'.inbox) : pi'.inbox[i] # "abort"
      BY <1>2, <2>1 DEF Rest
    <2>3. \A i \in 1..Len(wire') : wire'[i].k \in {"aborted", "abortFailed"} => i = Len(wire')
      BY <1>2, <2>1 DEF SaidFacts
    <2> QED
      BY <1>2, <2>1, <2>2, <2>3 DEF AbortAskedOnce
  <1>8. NothingAfterAbort'
    <2> SUFFICES ASSUME StopIsNewest' PROVE NothingAfterAbort'
      BY DEF NothingAfterAbort
    <2>1. StopIsNewest
      BY <1>2 DEF StopIsNewest, Current
    <2>2. /\ stopper.pc = "aborting"
          /\ \A j \in 1..Len(pi.inbox) : pi.inbox[j] = "abort" => j = 1
          /\ \A j \in 1..Len(wire) : wire[j].k \notin {"aborted", "abortFailed"}
      BY <1>1, <1>2 DEF AbortAskedOnce, Rest
    <2>3. \A i \in 1..Len(pi'.inbox) : pi'.inbox[i] # "abort"
      BY <1>2, <2>2 DEF Rest
    <2>4. \A i \in 1..Len(wire') : wire'[i].k # "aborted"
      BY <1>2, <2>2 DEF SaidFacts
    <2> QED
      BY <1>2, <2>2, <2>3, <2>4 DEF NothingAfterAbort
  <1>9. StoppedIsOver'
    <2>1. \A t \in 1..MaxTurns : opened' < t => turns'[t] = "none"
      BY <1>1, <1>2, MessagesAre DEF StoppedIsOver, Numbers
    <2>2. ASSUME NEW i \in 1..Len(wire'), wire'[i].k \in {"open", "close"}
          PROVE  wire'[i].v \in 1..opened' /\ \A t \in 1..MaxTurns : turns'[t] = "stopped" => wire'[i].v # t
      <3>1. CASE i \in 1..Len(wire)
        <4>1. wire[i].k \in {"open", "close"} /\ wire'[i] = wire[i]
          BY <1>2, <2>2, <3>1 DEF SaidFacts
        <4>2. wire[i].v \in 1..opened /\ \A t \in 1..MaxTurns : turns[t] = "stopped" => wire[i].v # t
          BY <1>1, <3>1, <4>1 DEF StoppedIsOver
        <4> QED
          BY <1>1, <1>2, <4>1, <4>2 DEF Numbers
      <3>2. CASE i \notin 1..Len(wire)
        <4>1. pi.turn \in Nat /\ pi.turn <= opened
          BY <1>1 DEF SessionTypes, PiRecs, NothingWithoutSession
        <4>2. wire'[i].v \in 1..opened' /\ (wire'[i].v = pi.turn \/ wire'[i].v = opened + 1)
          BY <1>1, <1>2, <2>2, <3>2, <4>1 DEF Numbers, None
        <4>3. ASSUME NEW t \in 1..MaxTurns, turns[t] = "stopped" PROVE pi.turn # t /\ t <= opened
          <5>1. pi.turn # t /\ ~(opened < t)
            BY <1>1, <4>3 DEF StoppedIsOver
          <5> QED
            BY <1>1, <5>1, MessagesAre DEF Numbers
        <4>4. ASSUME NEW t \in 1..MaxTurns, turns'[t] = "stopped" PROVE wire'[i].v # t
          <5>1. turns[t] = "stopped"
            BY <1>2, <4>4
          <5>2. pi.turn # t /\ t <= opened
            BY <4>3, <5>1
          <5>3. opened \in Nat /\ t \in Nat
            BY <1>1, MessagesAre DEF Numbers
          <5> QED
            BY <4>2, <5>2, <5>3
        <4> QED
          BY <4>2, <4>4
      <3> QED
        BY <3>1, <3>2
    <2>3. \A t \in 1..MaxTurns : turns'[t] = "stopped" => pi'.turn # t
      BY <1>1, <1>2, MessagesAre DEF StoppedIsOver, Numbers, None
    <2> QED
      BY <2>1, <2>2, <2>3 DEF StoppedIsOver
  <1> QED
    BY <1>1, <1>3, <1>4, <1>5, <1>6, <1>7, <1>8, <1>9 DEF WorkerInv

\* What it says to a request for its state.
LEMMA StateSaidIs ==
    ASSUME WorkerInv, PiReads, pi.inbox[1] \in {"state", "probe"}, pi' = [pi EXCEPT !.inbox = Tail(pi.inbox)],
           NEW v \in {"idle", "busy"}, wire' = Append(wire, Says(pi.inbox[1], v))
    PROVE  /\ SaidFacts /\ Rest(1)
           /\ pi.inbox[1] \in {"state", "probe"} /\ 1 \in 1..Len(pi.inbox)
           /\ Len(wire') = Len(wire) + 1
           /\ pi'.run = pi.run /\ pi'.turn = pi.turn
           /\ \A i \in 1..Len(wire') : i \notin 1..Len(wire) => i = Len(wire) + 1 /\ wire'[i].k = pi.inbox[1] /\ wire'[i].v \in {"idle", "busy"}
           /\ UNCHANGED <<row, turns, live, made, ses, loading, send, stopper, deleter, holder, opened>>
PROOF
  <1>1. /\ SessionTypes /\ Versions /\ StopOwns /\ NothingWithoutSession /\ StateAskedOnce /\ Removal
        /\ AbortAskedOnce /\ NothingAfterAbort /\ StoppedIsOver /\ Numbers
    BY NumbersAre DEF WorkerInv
  <1> QED
    <2> DEFINE p == [pi EXCEPT !.inbox = Tail(pi.inbox)]
    <2>1. /\ Len(pi.inbox) \in Nat /\ Len(pi.inbox) >= 1 /\ Head(pi.inbox) = pi.inbox[1]
          /\ pi.inbox[1] \in Inputs /\ live # None /\ pi.turn <= opened
          /\ p \in PiRecs /\ p.up /\ p.run = pi.run /\ p.turn = pi.turn
          /\ Len(p.inbox) = Len(pi.inbox) - 1
          /\ \A i \in 1..Len(p.inbox) :
                i + 1 \in 1..Len(pi.inbox) /\ p.inbox[i] = pi.inbox[i + 1] /\ p.inbox[i] # "state"
      BY ReadIs DEF PiReads
    <2>2. /\ pi.up /\ pi' = p /\ wire' = Append(wire, Says(pi.inbox[1], v))
          /\ UNCHANGED <<row, turns, live, made, ses, loading, send, stopper, deleter, holder, opened>>
      BY <2>1, MessagesAre DEF PiReads, clientVars, callVars
    <2> HIDE DEF p
    <2>3. Rest(1) /\ 1 \in 1..Len(pi.inbox) /\ pi'.run = pi.run /\ pi'.turn = pi.turn
      <3>1. pi.up /\ pi'.up /\ pi'.run = pi.run /\ pi'.turn = pi.turn
        BY <2>1, <2>2
      <3>2. pi' \in PiRecs /\ Len(pi.inbox) \in Nat /\ Len(pi'.inbox) = Len(pi.inbox) - 1
        BY <2>1, <2>2
      <3>3. \A i \in 1..Len(pi'.inbox) :
               i + 1 \in 1..Len(pi.inbox) /\ pi'.inbox[i] = pi.inbox[i + 1] /\ pi'.inbox[i] # "state"
        BY <2>1, <2>2
      <3>4. 1 \in 1..Len(pi.inbox)
        BY <2>1
      <3> QED
        BY <3>1, <3>2, <3>3, <3>4 DEF Rest
    <2>4. Says(pi.inbox[1], v) \in Lines /\ Says(pi.inbox[1], v).k = pi.inbox[1] /\ Says(pi.inbox[1], v).v = v
      BY <2>1, LineIs DEF LineKinds, None, Inputs
    <2>5. SaidFacts /\ \A i \in 1..Len(wire') : i \notin 1..Len(wire) => i = Len(wire) + 1 /\ wire'[i] = Says(pi.inbox[1], v)
      BY <1>1, <2>2, <2>4, SaysIs
    <2>6. Len(wire') = Len(wire) + 1
      BY <1>1, <2>2, <2>4, LinesAre DEF SessionTypes
    <2> QED
      BY <2>2, <2>3, <2>4, <2>5, <2>6

\* Pi says what it is doing, to the client or to the watchdog.
LEMMA StateSaidKeeps ==
    ASSUME WorkerInv, PiReads, pi.inbox[1] \in {"state", "probe"}, pi' = [pi EXCEPT !.inbox = Tail(pi.inbox)],
           NEW v \in {"idle", "busy"}, wire' = Append(wire, Says(pi.inbox[1], v))
    PROVE  WorkerInv'
PROOF
  <1>1. /\ SessionTypes /\ Versions /\ StopOwns /\ NothingWithoutSession /\ StateAskedOnce /\ Removal
        /\ AbortAskedOnce /\ NothingAfterAbort /\ StoppedIsOver /\ Numbers
    BY NumbersAre DEF WorkerInv
  <1>2. /\ SaidFacts /\ Rest(1)
        /\ pi.inbox[1] \in {"state", "probe"} /\ 1 \in 1..Len(pi.inbox)
        /\ Len(wire') = Len(wire) + 1
        /\ pi'.run = pi.run /\ pi'.turn = pi.turn
        /\ \A i \in 1..Len(wire') : i \notin 1..Len(wire) => i = Len(wire) + 1 /\ wire'[i].k = pi.inbox[1] /\ wire'[i].v \in {"idle", "busy"}
        /\ UNCHANGED <<row, turns, live, made, ses, loading, send, stopper, deleter, holder, opened>>
    BY StateSaidIs
  <1>3. Versions' /\ StopOwns' /\ Removal'
    BY <1>1, <1>2
    DEF Versions, InFlight, StopOwns, Removal
  <1>4. SessionTypes'
    BY <1>1, <1>2, MessagesAre DEF SessionTypes, SaidFacts, Rest, Numbers
  <1>5. NothingWithoutSession'
    BY <1>1, <1>2 DEF NothingWithoutSession, Rest, Numbers, None
  <1>6. StateAskedOnce'
    <2>1. \A i \in 1..Len(pi'.inbox) : pi'.inbox[i] # "state"
      BY <1>2 DEF Rest
    <2>2. pi.inbox[1] = "state" => wire = <<>> /\ loading = "asking"
      BY <1>1, <1>2 DEF StateAskedOnce, Rest
    <2>3. ASSUME NEW i \in 1..Len(wire'), wire'[i].k = "state"
          PROVE  i = 1 /\ loading = "asking" /\ wire'[i].v \in {"idle", "busy"}
      <3>1. CASE i \in 1..Len(wire)
        BY <1>1, <1>2, <2>3, <3>1 DEF StateAskedOnce, SaidFacts
      <3>2. CASE i \notin 1..Len(wire)
        BY <1>1, <1>2, <2>2, <2>3, <3>2 DEF SaidFacts
      <3> QED
        BY <3>1, <3>2
    <2> QED
      BY <1>2, <2>1, <2>3 DEF StateAskedOnce
  <1>7. AbortAskedOnce'
    <2>1. ASSUME NEW i \in 1..Len(pi'.inbox), pi'.inbox[i] = "abort"
          PROVE  /\ stopper.pc = "aborting" /\ stopper.at = live
                 /\ \A j \in 1..Len(pi'.inbox) : pi'.inbox[j] = "abort" => j = i
                 /\ \A j \in 1..Len(wire') : wire'[j].k \notin {"aborted", "abortFailed"}
      <3>1. i + 1 \in 1..Len(pi.inbox) /\ pi.inbox[i + 1] = "abort" /\ pi.up
        BY <1>2, <2>1 DEF Rest
      <3>2. /\ stopper.pc = "aborting" /\ stopper.at = live
            /\ \A j \in 1..Len(pi.inbox) : pi.inbox[j] = "abort" => j = i + 1
            /\ \A j \in 1..Len(wire) : wire[j].k \notin {"aborted", "abortFailed"}
        BY <1>1, <3>1 DEF AbortAskedOnce
      <3>3. \A j \in 1..Len(pi'.inbox) : pi'.inbox[j] = "abort" => j = i
        BY <1>2, <3>2 DEF Rest
      <3>4. \A j \in 1..Len(wire') : wire'[j].k \notin {"aborted", "abortFailed"}
        BY <1>2, <3>2 DEF SaidFacts
      <3> QED
        BY <3>2, <3>3, <3>4
    <2>2. ASSUME NEW i \in 1..Len(wire'), wire'[i].k \in {"aborted", "abortFailed"}
          PROVE  /\ stopper.pc = "aborting" /\ stopper.at = live
                 /\ \A j \in 1..Len(wire') : wire'[j].k \in {"aborted", "abortFailed"} => j = i
      <3>1. i \in 1..Len(wire) /\ wire[i].k \in {"aborted", "abortFailed"}
        BY <1>2, <2>2 DEF SaidFacts
      <3>2. /\ stopper.pc = "aborting" /\ stopper.at = live
            /\ \A j \in 1..Len(wire) : wire[j].k \in {"aborted", "abortFailed"} => j = i
        BY <1>1, <3>1 DEF AbortAskedOnce
      <3> QED
        BY <1>2, <3>2 DEF SaidFacts
    <2> QED
      BY <1>2, <2>1, <2>2 DEF AbortAskedOnce
  <1>8. NothingAfterAbort'
    <2> SUFFICES ASSUME StopIsNewest' PROVE NothingAfterAbort'
      BY DEF NothingAfterAbort
    <2>1. StopIsNewest
      BY <1>2 DEF StopIsNewest, Current
    <2>2. ASSUME NEW i \in 1..Len(pi'.inbox), NEW j \in 1..Len(pi'.inbox), pi'.inbox[i] = "abort", i < j
          PROVE  pi'.inbox[j] \notin Sends
      <3>1. /\ i + 1 \in 1..Len(pi.inbox) /\ pi.inbox[i + 1] = "abort" /\ i + 1 < j + 1
            /\ j + 1 \in 1..Len(pi.inbox) /\ pi.inbox[j + 1] = pi'.inbox[j] /\ pi.up
        BY <1>2, <2>2 DEF Rest
      <3> QED
        BY <1>1, <2>1, <3>1 DEF NothingAfterAbort
    <2>3. ASSUME NEW i \in 1..Len(wire'), wire'[i].k = "aborted"
          PROVE  /\ ~pi'.run /\ \A j \in 1..Len(pi'.inbox) : pi'.inbox[j] \notin Sends
                 /\ \A j \in 1..Len(wire') : i < j => wire'[j].k \notin {"open", "close"}
      <3>1. i \in 1..Len(wire) /\ wire[i].k = "aborted"
        BY <1>2, <2>3 DEF SaidFacts
      <3>2. /\ ~pi.run /\ \A j \in 1..Len(pi.inbox) : pi.inbox[j] \notin Sends
            /\ \A j \in 1..Len(wire) : i < j => wire[j].k \notin {"open", "close"}
        BY <1>1, <2>1, <3>1 DEF NothingAfterAbort
      <3>3. ~pi'.run /\ \A j \in 1..Len(pi'.inbox) : pi'.inbox[j] \notin Sends
        BY <1>2, <3>2 DEF Rest
      <3>4. \A j \in 1..Len(wire') : i < j => wire'[j].k \notin {"open", "close"}
        BY <1>2, <3>2 DEF SaidFacts
      <3> QED
        BY <3>3, <3>4
    <2>4. ASSUME stopper'.pc = "aborted"
          PROVE  /\ ~pi'.run /\ \A j \in 1..Len(pi'.inbox) : pi'.inbox[j] \notin Sends
                 /\ \A j \in 1..Len(wire') : wire'[j].k \notin {"open", "close"}
      <3>1. /\ ~pi.run /\ \A j \in 1..Len(pi.inbox) : pi.inbox[j] \notin Sends
            /\ \A j \in 1..Len(wire) : wire[j].k \notin {"open", "close"}
        BY <1>1, <1>2, <2>1, <2>4 DEF NothingAfterAbort
      <3>2. ~pi'.run /\ \A j \in 1..Len(pi'.inbox) : pi'.inbox[j] \notin Sends
        BY <1>2, <3>1 DEF Rest
      <3>3. \A j \in 1..Len(wire') : wire'[j].k \notin {"open", "close"}
        BY <1>2, <3>1 DEF SaidFacts
      <3> QED
        BY <3>2, <3>3
    <2> QED
      BY <2>2, <2>3, <2>4 DEF NothingAfterAbort
  <1>9. StoppedIsOver'
    <2>1. \A t \in 1..MaxTurns : opened' < t => turns'[t] = "none"
      BY <1>1, <1>2, MessagesAre DEF StoppedIsOver, Numbers
    <2>2. ASSUME NEW i \in 1..Len(wire'), wire'[i].k \in {"open", "close"}
          PROVE  wire'[i].v \in 1..opened' /\ \A t \in 1..MaxTurns : turns'[t] = "stopped" => wire'[i].v # t
      <3>1. CASE i \in 1..Len(wire)
        <4>1. wire[i].k \in {"open", "close"} /\ wire'[i] = wire[i]
          BY <1>2, <2>2, <3>1 DEF SaidFacts
        <4>2. wire[i].v \in 1..opened /\ \A t \in 1..MaxTurns : turns[t] = "stopped" => wire[i].v # t
          BY <1>1, <3>1, <4>1 DEF StoppedIsOver
        <4> QED
          BY <1>1, <1>2, <4>1, <4>2 DEF Numbers
      <3>2. CASE i \notin 1..Len(wire)
        <4>1. pi.turn \in Nat /\ pi.turn <= opened
          BY <1>1 DEF SessionTypes, PiRecs, NothingWithoutSession
        <4>2. wire'[i].v \in 1..opened' /\ (wire'[i].v = pi.turn \/ wire'[i].v = opened + 1)
          BY <1>1, <1>2, <2>2, <3>2, <4>1 DEF Numbers, None
        <4>3. ASSUME NEW t \in 1..MaxTurns, turns[t] = "stopped" PROVE pi.turn # t /\ t <= opened
          <5>1. pi.turn # t /\ ~(opened < t)
            BY <1>1, <4>3 DEF StoppedIsOver
          <5> QED
            BY <1>1, <5>1, MessagesAre DEF Numbers
        <4>4. ASSUME NEW t \in 1..MaxTurns, turns'[t] = "stopped" PROVE wire'[i].v # t
          <5>1. turns[t] = "stopped"
            BY <1>2, <4>4
          <5>2. pi.turn # t /\ t <= opened
            BY <4>3, <5>1
          <5>3. opened \in Nat /\ t \in Nat
            BY <1>1, MessagesAre DEF Numbers
          <5> QED
            BY <4>2, <5>2, <5>3
        <4> QED
          BY <4>2, <4>4
      <3> QED
        BY <3>1, <3>2
    <2>3. \A t \in 1..MaxTurns : turns'[t] = "stopped" => pi'.turn # t
      BY <1>1, <1>2, MessagesAre DEF StoppedIsOver, Numbers, None
    <2> QED
      BY <2>1, <2>2, <2>3 DEF StoppedIsOver
  <1> QED
    BY <1>1, <1>3, <1>4, <1>5, <1>6, <1>7, <1>8, <1>9 DEF WorkerInv

\* What it says to a message that starts a run.
LEMMA RunBeginsIs ==
    ASSUME WorkerInv, PiReads, ~pi.run, pi.inbox[1] \in Sends,
           pi' = [[pi EXCEPT !.inbox = Tail(pi.inbox)] EXCEPT !.run = TRUE],
           NEW more \in {<<Says("ack", pi.inbox[1]), Says("start", None)>>, <<Says("start", None), Says("ack", pi.inbox[1])>>},
           wire' = wire \o more
    PROVE  /\ SaidFacts /\ Rest(1)
           /\ 1 \in 1..Len(pi.inbox) /\ pi.inbox[1] \in Sends /\ pi'.turn = pi.turn
           /\ \A i \in 1..Len(wire') : i \notin 1..Len(wire) => wire'[i].k \in {"ack", "start"}
           /\ UNCHANGED <<row, turns, live, made, ses, loading, send, stopper, deleter, holder, opened>>
PROOF
  <1>1. /\ SessionTypes /\ Versions /\ StopOwns /\ NothingWithoutSession /\ StateAskedOnce /\ Removal
        /\ AbortAskedOnce /\ NothingAfterAbort /\ StoppedIsOver /\ Numbers
    BY NumbersAre DEF WorkerInv
  <1> QED
    <2> DEFINE p == [pi EXCEPT !.inbox = Tail(pi.inbox)]
    <2>1. /\ Len(pi.inbox) \in Nat /\ Len(pi.inbox) >= 1 /\ Head(pi.inbox) = pi.inbox[1]
          /\ pi.inbox[1] \in Inputs /\ live # None /\ pi.turn <= opened
          /\ p \in PiRecs /\ p.up /\ p.run = pi.run /\ p.turn = pi.turn
          /\ Len(p.inbox) = Len(pi.inbox) - 1
          /\ \A i \in 1..Len(p.inbox) :
                i + 1 \in 1..Len(pi.inbox) /\ p.inbox[i] = pi.inbox[i + 1] /\ p.inbox[i] # "state"
      BY ReadIs DEF PiReads
    <2>2. pi.up /\ pi' = [p EXCEPT !.run = TRUE] /\ wire' = wire \o more
          /\ UNCHANGED <<row, turns, live, made, ses, loading, send, stopper, deleter, holder, opened>>
      BY <2>1, MessagesAre DEF PiReads, clientVars, callVars
    <2> HIDE DEF p
    <2>3. pi' \in PiRecs /\ pi'.up = p.up /\ pi'.turn = p.turn /\ pi'.inbox = p.inbox
      <3> DEFINE q == [p EXCEPT !.run = TRUE]
      <3>1. q \in PiRecs /\ q.up = p.up /\ q.turn = p.turn /\ q.inbox = p.inbox
        <4>1. p \in PiRecs
          BY <2>1
        <4> QED
          BY <4>1, PiRunIs
      <3>2. pi' = q
        BY <2>2
      <3> HIDE DEF q
      <3> QED
        BY <3>1, <3>2
    <2>4. Rest(1) /\ 1 \in 1..Len(pi.inbox) /\ pi'.turn = pi.turn
      <3>1. pi.up /\ pi'.up /\ pi'.turn = pi.turn
        BY <2>1, <2>2, <2>3
      <3>2. pi' \in PiRecs /\ Len(pi.inbox) \in Nat /\ Len(pi'.inbox) = Len(pi.inbox) - 1
        BY <2>1, <2>3
      <3>3. \A i \in 1..Len(pi'.inbox) :
               i + 1 \in 1..Len(pi.inbox) /\ pi'.inbox[i] = pi.inbox[i + 1] /\ pi'.inbox[i] # "state"
        BY <2>1, <2>3
      <3>4. 1 \in 1..Len(pi.inbox)
        BY <2>1
      <3> QED
        BY <3>1, <3>2, <3>3, <3>4 DEF Rest
    <2>5. /\ Says("ack", pi.inbox[1]) \in Lines /\ Says("ack", pi.inbox[1]).k = "ack"
          /\ Says("start", None) \in Lines /\ Says("start", None).k = "start"
      BY LineIs DEF LineKinds, None
    <2> HIDE DEF Lines
    <2>6. more \in Seq(Lines) /\ more # <<>> /\ \A i \in 1..Len(more) : more[i].k \in {"ack", "start"}
      <3> DEFINE a == Says("ack", pi.inbox[1])
                 b == Says("start", None)
      <3>1. a \in Lines /\ a.k = "ack" /\ b \in Lines /\ b.k = "start"
        BY <2>5
      <3>2. more = <<a, b>> \/ more = <<b, a>>
        OBVIOUS
      <3> HIDE DEF a, b
      <3>3. CASE more = <<a, b>>
        BY <3>1, <3>3
      <3>4. CASE more = <<b, a>>
        BY <3>1, <3>4
      <3> QED
        BY <3>2, <3>3, <3>4
    <2>7. SaidFacts /\ \A i \in 1..Len(wire') : i \notin 1..Len(wire) => wire'[i].k \in {"ack", "start"}
      BY <1>1, <2>2, <2>6, SaidIs
    <2> QED
      BY <2>2, <2>4, <2>7

\* A prompt starts a run.
LEMMA RunBeginsKeeps ==
    ASSUME WorkerInv, PiReads, ~pi.run, pi.inbox[1] \in Sends,
           pi' = [[pi EXCEPT !.inbox = Tail(pi.inbox)] EXCEPT !.run = TRUE],
           NEW more \in {<<Says("ack", pi.inbox[1]), Says("start", None)>>, <<Says("start", None), Says("ack", pi.inbox[1])>>},
           wire' = wire \o more
    PROVE  WorkerInv'
PROOF
  <1>1. /\ SessionTypes /\ Versions /\ StopOwns /\ NothingWithoutSession /\ StateAskedOnce /\ Removal
        /\ AbortAskedOnce /\ NothingAfterAbort /\ StoppedIsOver /\ Numbers
    BY NumbersAre DEF WorkerInv
  <1>2. /\ SaidFacts /\ Rest(1)
        /\ 1 \in 1..Len(pi.inbox) /\ pi.inbox[1] \in Sends /\ pi'.turn = pi.turn
        /\ \A i \in 1..Len(wire') : i \notin 1..Len(wire) => wire'[i].k \in {"ack", "start"}
        /\ UNCHANGED <<row, turns, live, made, ses, loading, send, stopper, deleter, holder, opened>>
    BY RunBeginsIs
  <1>3. Versions' /\ StopOwns' /\ Removal'
    BY <1>1, <1>2
    DEF Versions, InFlight, StopOwns, Removal
  <1>4. SessionTypes'
    BY <1>1, <1>2, MessagesAre DEF SessionTypes, SaidFacts, Rest, Numbers
  <1>5. NothingWithoutSession'
    BY <1>1, <1>2 DEF NothingWithoutSession, Rest, Numbers, None
  <1>6. StateAskedOnce'
    <2>1. \A i \in 1..Len(pi'.inbox) : pi'.inbox[i] # "state"
      BY <1>2 DEF Rest
    <2>2. ASSUME NEW i \in 1..Len(wire'), wire'[i].k = "state"
          PROVE  i = 1 /\ loading = "asking" /\ wire'[i].v \in {"idle", "busy"}
      <3>1. i \in 1..Len(wire) /\ wire'[i] = wire[i]
        BY <1>2, <2>2 DEF SaidFacts
      <3> QED
        BY <1>1, <2>2, <3>1 DEF StateAskedOnce
    <2> QED
      BY <1>2, <2>1, <2>2 DEF StateAskedOnce
  <1>7. AbortAskedOnce'
    <2>1. ASSUME NEW i \in 1..Len(pi'.inbox), pi'.inbox[i] = "abort"
          PROVE  /\ stopper.pc = "aborting" /\ stopper.at = live
                 /\ \A j \in 1..Len(pi'.inbox) : pi'.inbox[j] = "abort" => j = i
                 /\ \A j \in 1..Len(wire') : wire'[j].k \notin {"aborted", "abortFailed"}
      <3>1. i + 1 \in 1..Len(pi.inbox) /\ pi.inbox[i + 1] = "abort" /\ pi.up
        BY <1>2, <2>1 DEF Rest
      <3>2. /\ stopper.pc = "aborting" /\ stopper.at = live
            /\ \A j \in 1..Len(pi.inbox) : pi.inbox[j] = "abort" => j = i + 1
            /\ \A j \in 1..Len(wire) : wire[j].k \notin {"aborted", "abortFailed"}
        BY <1>1, <3>1 DEF AbortAskedOnce
      <3>3. \A j \in 1..Len(pi'.inbox) : pi'.inbox[j] = "abort" => j = i
        BY <1>2, <3>2 DEF Rest
      <3>4. \A j \in 1..Len(wire') : wire'[j].k \notin {"aborted", "abortFailed"}
        BY <1>2, <3>2 DEF SaidFacts
      <3> QED
        BY <3>2, <3>3, <3>4
    <2>2. ASSUME NEW i \in 1..Len(wire'), wire'[i].k \in {"aborted", "abortFailed"}
          PROVE  /\ stopper.pc = "aborting" /\ stopper.at = live
                 /\ \A j \in 1..Len(wire') : wire'[j].k \in {"aborted", "abortFailed"} => j = i
      <3>1. i \in 1..Len(wire) /\ wire[i].k \in {"aborted", "abortFailed"}
        BY <1>2, <2>2 DEF SaidFacts
      <3>2. /\ stopper.pc = "aborting" /\ stopper.at = live
            /\ \A j \in 1..Len(wire) : wire[j].k \in {"aborted", "abortFailed"} => j = i
        BY <1>1, <3>1 DEF AbortAskedOnce
      <3> QED
        BY <1>2, <3>2 DEF SaidFacts
    <2> QED
      BY <1>2, <2>1, <2>2 DEF AbortAskedOnce
  <1>8. NothingAfterAbort'
    <2> SUFFICES ASSUME StopIsNewest' PROVE NothingAfterAbort'
      BY DEF NothingAfterAbort
    <2>1. StopIsNewest
      BY <1>2 DEF StopIsNewest, Current
    <2>2. /\ \A i \in 1..Len(wire) : wire[i].k # "aborted"
          /\ stopper.pc # "aborted" /\ pi.up
      BY <1>1, <1>2, <2>1 DEF NothingAfterAbort, Rest
    <2>3. \A i \in 1..Len(wire') : wire'[i].k # "aborted"
      BY <1>2, <2>2 DEF SaidFacts
    <2>4. ASSUME NEW i \in 1..Len(pi'.inbox), NEW j \in 1..Len(pi'.inbox), pi'.inbox[i] = "abort", i < j
          PROVE  pi'.inbox[j] \notin Sends
      <3>1. /\ i + 1 \in 1..Len(pi.inbox) /\ pi.inbox[i + 1] = "abort" /\ i + 1 < j + 1
            /\ j + 1 \in 1..Len(pi.inbox) /\ pi.inbox[j + 1] = pi'.inbox[j] /\ pi.up
        BY <1>2, <2>4 DEF Rest
      <3> QED
        BY <1>1, <2>1, <3>1 DEF NothingAfterAbort
    <2> QED
      BY <1>2, <2>2, <2>3, <2>4 DEF NothingAfterAbort
  <1>9. StoppedIsOver'
    <2>1. \A t \in 1..MaxTurns : opened' < t => turns'[t] = "none"
      BY <1>1, <1>2, MessagesAre DEF StoppedIsOver, Numbers
    <2>2. ASSUME NEW i \in 1..Len(wire'), wire'[i].k \in {"open", "close"}
          PROVE  wire'[i].v \in 1..opened' /\ \A t \in 1..MaxTurns : turns'[t] = "stopped" => wire'[i].v # t
      <3>1. CASE i \in 1..Len(wire)
        <4>1. wire[i].k \in {"open", "close"} /\ wire'[i] = wire[i]
          BY <1>2, <2>2, <3>1 DEF SaidFacts
        <4>2. wire[i].v \in 1..opened /\ \A t \in 1..MaxTurns : turns[t] = "stopped" => wire[i].v # t
          BY <1>1, <3>1, <4>1 DEF StoppedIsOver
        <4> QED
          BY <1>1, <1>2, <4>1, <4>2 DEF Numbers
      <3>2. CASE i \notin 1..Len(wire)
        <4>1. pi.turn \in Nat /\ pi.turn <= opened
          BY <1>1 DEF SessionTypes, PiRecs, NothingWithoutSession
        <4>2. wire'[i].v \in 1..opened' /\ (wire'[i].v = pi.turn \/ wire'[i].v = opened + 1)
          BY <1>1, <1>2, <2>2, <3>2, <4>1 DEF Numbers, None
        <4>3. ASSUME NEW t \in 1..MaxTurns, turns[t] = "stopped" PROVE pi.turn # t /\ t <= opened
          <5>1. pi.turn # t /\ ~(opened < t)
            BY <1>1, <4>3 DEF StoppedIsOver
          <5> QED
            BY <1>1, <5>1, MessagesAre DEF Numbers
        <4>4. ASSUME NEW t \in 1..MaxTurns, turns'[t] = "stopped" PROVE wire'[i].v # t
          <5>1. turns[t] = "stopped"
            BY <1>2, <4>4
          <5>2. pi.turn # t /\ t <= opened
            BY <4>3, <5>1
          <5>3. opened \in Nat /\ t \in Nat
            BY <1>1, MessagesAre DEF Numbers
          <5> QED
            BY <4>2, <5>2, <5>3
        <4> QED
          BY <4>2, <4>4
      <3> QED
        BY <3>1, <3>2
    <2>3. \A t \in 1..MaxTurns : turns'[t] = "stopped" => pi'.turn # t
      BY <1>1, <1>2, MessagesAre DEF StoppedIsOver, Numbers, None
    <2> QED
      BY <2>1, <2>2, <2>3 DEF StoppedIsOver
  <1> QED
    BY <1>1, <1>3, <1>4, <1>5, <1>6, <1>7, <1>8, <1>9 DEF WorkerInv

\* What it says to an abort.
LEMMA RunAbortedIs ==
    ASSUME WorkerInv, PiReads, pi.inbox[1] = "abort", RunAborts
    PROVE  /\ SaidFacts /\ Rest(1)
           /\ 1 \in 1..Len(pi.inbox) /\ pi.inbox[1] = "abort" /\ pi'.turn = None /\ ~pi'.run
           /\ \A i \in 1..Len(wire') : i \notin 1..Len(wire) => 
                 /\ wire'[i].k \in {"aborted", "close", "settled"}
                 /\ wire'[i].k = "aborted" => i = Len(wire')
                 /\ wire'[i].k = "close" => pi.turn # None /\ wire'[i].v = pi.turn
           /\ UNCHANGED <<row, turns, live, made, ses, loading, send, stopper, deleter, holder, opened>>
PROOF
  <1>1. /\ SessionTypes /\ Versions /\ StopOwns /\ NothingWithoutSession /\ StateAskedOnce /\ Removal
        /\ AbortAskedOnce /\ NothingAfterAbort /\ StoppedIsOver /\ Numbers
    BY NumbersAre DEF WorkerInv
  <1> QED
    <2> DEFINE p == [pi EXCEPT !.inbox = Tail(pi.inbox)]
    <2>1. /\ Len(pi.inbox) \in Nat /\ Len(pi.inbox) >= 1 /\ Head(pi.inbox) = pi.inbox[1]
          /\ pi.inbox[1] \in Inputs /\ live # None /\ pi.turn <= opened
          /\ p \in PiRecs /\ p.up /\ p.run = pi.run /\ p.turn = pi.turn
          /\ Len(p.inbox) = Len(pi.inbox) - 1
          /\ \A i \in 1..Len(p.inbox) :
                i + 1 \in 1..Len(pi.inbox) /\ p.inbox[i] = pi.inbox[i + 1] /\ p.inbox[i] # "state"
      BY ReadIs DEF PiReads
    <2>2. pi.up /\ pi' = [p EXCEPT !.run = FALSE, !.turn = None] /\ UNCHANGED <<row, turns, live, made, ses, loading, send, stopper, deleter, holder, opened>>
      BY <2>1, MessagesAre DEF PiReads, RunAborts, clientVars, callVars
    <2> HIDE DEF p
    <2>3. pi' \in PiRecs /\ pi'.up = p.up /\ pi'.turn = None /\ ~pi'.run /\ pi'.inbox = p.inbox
      BY <2>1, <2>2, PiRunIs
    <2>4. Rest(1) /\ 1 \in 1..Len(pi.inbox) /\ pi'.turn = None /\ ~pi'.run
      <3>1. pi.up /\ pi'.up /\ pi'.turn = None /\ ~pi'.run
        BY <2>1, <2>2, <2>3
      <3>2. pi' \in PiRecs /\ Len(pi.inbox) \in Nat /\ Len(pi'.inbox) = Len(pi.inbox) - 1
        BY <2>1, <2>3
      <3>3. \A i \in 1..Len(pi'.inbox) :
               i + 1 \in 1..Len(pi.inbox) /\ pi'.inbox[i] = pi.inbox[i + 1] /\ pi'.inbox[i] # "state"
        BY <2>1, <2>3
      <3>4. 1 \in 1..Len(pi.inbox)
        BY <2>1
      <3> QED
        BY <3>1, <3>2, <3>3, <3>4 DEF Rest
    <2> DEFINE settled == pi.run
               line == Says("aborted", None)
               over == IF settled THEN <<Says("settled", None)>> ELSE <<>>
               more == TurnEnds \o over \o <<line>>
    <2>5. line \in Lines /\ line.k = "aborted" /\ (pi.turn # None => pi.turn \in 1..opened)
      <3>1. line \in Lines /\ line.k = "aborted"
        BY LineIs DEF LineKinds, None
      <3>2. pi.turn # None => pi.turn \in 1..opened
        BY <1>1, <2>1 DEF NothingWithoutSession, SessionTypes, PiRecs, None, Numbers
      <3> QED
        BY <3>1, <3>2
    <2>6. settled \in BOOLEAN
      BY <1>1 DEF SessionTypes, PiRecs
    <2>7. wire' = wire \o more
      <3>1. /\ wire \in Seq(Lines) /\ <<line>> \in Seq(Lines) /\ TurnEnds \in Seq(Lines)
            /\ over \in Seq(Lines)
        BY <1>1, <2>5, SpokenIs DEF SessionTypes
      <3>2. wire' = wire \o TurnEnds \o over \o <<line>>
        BY DEF RunAborts
      <3> HIDE DEF over, line, settled, Lines
      <3> DEFINE closing == TurnEnds
                 answer == <<line>>
      <3>3. wire \in Seq(Lines) /\ closing \in Seq(Lines) /\ over \in Seq(Lines) /\ answer \in Seq(Lines)
        BY <3>1
      <3>4. wire' = wire \o closing \o over \o answer /\ more = closing \o over \o answer
        BY <3>2
      <3> HIDE DEF closing, answer, more
      <3>5. wire \o closing \o over \o answer = wire \o (closing \o over \o answer)
        BY <3>3
      <3> QED
        BY <3>4, <3>5
    <2> HIDE DEF settled, line, Lines
    <2>8. /\ more \in Seq(Lines) /\ more # <<>> /\ more[Len(more)] = line
          /\ \A i \in 1..Len(more) : i # Len(more) =>
                /\ more[i].k \in {"close", "settled"}
                /\ more[i].k = "close" => pi.turn # None /\ more[i].v = pi.turn
      BY <1>1, <2>5, <2>6, RunEndsIs
    <2> HIDE DEF more
    <2>9. /\ SaidFacts
          /\ \A i \in 1..Len(wire') : i \notin 1..Len(wire) =>
                /\ wire'[i].k \in {"aborted", "close", "settled"}
                /\ wire'[i].k = "aborted" => i = Len(wire')
                /\ wire'[i].k = "close" => pi.turn # None /\ wire'[i].v = pi.turn
      <3>1. /\ SaidFacts /\ Len(more) \in Nat /\ Len(wire') = Len(wire) + Len(more)
            /\ \A i \in 1..Len(wire') : i \notin 1..Len(wire) =>
                  i - Len(wire) \in 1..Len(more) /\ wire'[i] = more[i - Len(wire)]
        BY <1>1, <2>7, <2>8, SaidIs
      <3>2. ASSUME NEW i \in 1..Len(wire'), i \notin 1..Len(wire)
            PROVE  /\ wire'[i].k \in {"aborted", "close", "settled"}
                   /\ wire'[i].k = "aborted" => i = Len(wire')
                   /\ wire'[i].k = "close" => pi.turn # None /\ wire'[i].v = pi.turn
        <4>1. i - Len(wire) \in 1..Len(more) /\ wire'[i] = more[i - Len(wire)]
          BY <3>1, <3>2
        <4>2. CASE i - Len(wire) = Len(more)
          BY <2>5, <2>8, <3>1, <4>1, <4>2 DEF SaidFacts
        <4>3. CASE i - Len(wire) # Len(more)
          BY <2>8, <4>1, <4>3
        <4> QED
          BY <4>2, <4>3
      <3> QED
        BY <3>1, <3>2
    <2> QED
      BY <2>2, <2>4, <2>9

\* Pi ends its run and answers the abort.
LEMMA RunAbortedKeeps ==
    ASSUME WorkerInv, PiReads, pi.inbox[1] = "abort", RunAborts
    PROVE  WorkerInv'
PROOF
  <1>1. /\ SessionTypes /\ Versions /\ StopOwns /\ NothingWithoutSession /\ StateAskedOnce /\ Removal
        /\ AbortAskedOnce /\ NothingAfterAbort /\ StoppedIsOver /\ Numbers
    BY NumbersAre DEF WorkerInv
  <1>2. /\ SaidFacts /\ Rest(1)
        /\ 1 \in 1..Len(pi.inbox) /\ pi.inbox[1] = "abort" /\ pi'.turn = None /\ ~pi'.run
        /\ \A i \in 1..Len(wire') : i \notin 1..Len(wire) => 
              /\ wire'[i].k \in {"aborted", "close", "settled"}
              /\ wire'[i].k = "aborted" => i = Len(wire')
              /\ wire'[i].k = "close" => pi.turn # None /\ wire'[i].v = pi.turn
        /\ UNCHANGED <<row, turns, live, made, ses, loading, send, stopper, deleter, holder, opened>>
    BY RunAbortedIs
  <1>3. Versions' /\ StopOwns' /\ Removal'
    BY <1>1, <1>2
    DEF Versions, InFlight, StopOwns, Removal
  <1>4. SessionTypes'
    BY <1>1, <1>2, MessagesAre DEF SessionTypes, SaidFacts, Rest, Numbers
  <1>5. NothingWithoutSession'
    BY <1>1, <1>2 DEF NothingWithoutSession, Rest, Numbers, None
  <1>6. StateAskedOnce'
    <2>1. \A i \in 1..Len(pi'.inbox) : pi'.inbox[i] # "state"
      BY <1>2 DEF Rest
    <2>2. ASSUME NEW i \in 1..Len(wire'), wire'[i].k = "state"
          PROVE  i = 1 /\ loading = "asking" /\ wire'[i].v \in {"idle", "busy"}
      <3>1. i \in 1..Len(wire) /\ wire'[i] = wire[i]
        BY <1>2, <2>2 DEF SaidFacts
      <3> QED
        BY <1>1, <2>2, <3>1 DEF StateAskedOnce
    <2> QED
      BY <1>2, <2>1, <2>2 DEF StateAskedOnce
  <1>7. AbortAskedOnce'
    <2>1. /\ stopper.pc = "aborting" /\ stopper.at = live
          /\ \A j \in 1..Len(pi.inbox) : pi.inbox[j] = "abort" => j = 1
          /\ \A j \in 1..Len(wire) : wire[j].k \notin {"aborted", "abortFailed"}
      BY <1>1, <1>2 DEF AbortAskedOnce, Rest
    <2>2. \A i \in 1..Len(pi'.inbox) : pi'.inbox[i] # "abort"
      BY <1>2, <2>1 DEF Rest
    <2>3. \A i \in 1..Len(wire') : wire'[i].k \in {"aborted", "abortFailed"} => i = Len(wire')
      BY <1>2, <2>1 DEF SaidFacts
    <2> QED
      BY <1>2, <2>1, <2>2, <2>3 DEF AbortAskedOnce
  <1>8. NothingAfterAbort'
    <2> SUFFICES ASSUME StopIsNewest' PROVE NothingAfterAbort'
      BY DEF NothingAfterAbort
    <2>1. StopIsNewest
      BY <1>2 DEF StopIsNewest, Current
    <2>2. /\ stopper.pc = "aborting" /\ pi.up
          /\ \A j \in 1..Len(pi.inbox) : pi.inbox[j] = "abort" => j = 1
          /\ \A j \in 1..Len(wire) : wire[j].k \notin {"aborted", "abortFailed"}
      BY <1>1, <1>2 DEF AbortAskedOnce, Rest
    <2>3. \A i \in 1..Len(pi'.inbox) : pi'.inbox[i] # "abort"
      BY <1>2, <2>2 DEF Rest
    <2>4. \A i \in 1..Len(wire') : wire'[i].k = "aborted" => i = Len(wire')
      BY <1>2, <2>2 DEF SaidFacts
    <2>5. ASSUME NEW j \in 1..Len(pi'.inbox) PROVE pi'.inbox[j] \notin Sends
      <3>1. j + 1 \in 1..Len(pi.inbox) /\ 1 < j + 1 /\ pi.inbox[j + 1] = pi'.inbox[j]
        BY <1>2 DEF Rest
      <3> QED
        BY <1>1, <1>2, <2>1, <2>2, <3>1 DEF NothingAfterAbort
    <2> QED
      BY <1>2, <2>2, <2>3, <2>4, <2>5 DEF NothingAfterAbort, SaidFacts
  <1>9. StoppedIsOver'
    <2>1. \A t \in 1..MaxTurns : opened' < t => turns'[t] = "none"
      BY <1>1, <1>2, MessagesAre DEF StoppedIsOver, Numbers
    <2>2. ASSUME NEW i \in 1..Len(wire'), wire'[i].k \in {"open", "close"}
          PROVE  wire'[i].v \in 1..opened' /\ \A t \in 1..MaxTurns : turns'[t] = "stopped" => wire'[i].v # t
      <3>1. CASE i \in 1..Len(wire)
        <4>1. wire[i].k \in {"open", "close"} /\ wire'[i] = wire[i]
          BY <1>2, <2>2, <3>1 DEF SaidFacts
        <4>2. wire[i].v \in 1..opened /\ \A t \in 1..MaxTurns : turns[t] = "stopped" => wire[i].v # t
          BY <1>1, <3>1, <4>1 DEF StoppedIsOver
        <4> QED
          BY <1>1, <1>2, <4>1, <4>2 DEF Numbers
      <3>2. CASE i \notin 1..Len(wire)
        <4>1. pi.turn \in Nat /\ pi.turn <= opened
          BY <1>1 DEF SessionTypes, PiRecs, NothingWithoutSession
        <4>2. wire'[i].v \in 1..opened' /\ (wire'[i].v = pi.turn \/ wire'[i].v = opened + 1)
          BY <1>1, <1>2, <2>2, <3>2, <4>1 DEF Numbers, None
        <4>3. ASSUME NEW t \in 1..MaxTurns, turns[t] = "stopped" PROVE pi.turn # t /\ t <= opened
          <5>1. pi.turn # t /\ ~(opened < t)
            BY <1>1, <4>3 DEF StoppedIsOver
          <5> QED
            BY <1>1, <5>1, MessagesAre DEF Numbers
        <4>4. \A t \in 1..MaxTurns : turns'[t] = "stopped" => wire'[i].v # t
          BY <1>1, <1>2, <4>2, <4>3, MessagesAre DEF Numbers
        <4> QED
          BY <4>2, <4>4
      <3> QED
        BY <3>1, <3>2
    <2>3. \A t \in 1..MaxTurns : turns'[t] = "stopped" => pi'.turn # t
      BY <1>1, <1>2, MessagesAre DEF StoppedIsOver, Numbers, None
    <2> QED
      BY <2>1, <2>2, <2>3 DEF StoppedIsOver
  <1> QED
    BY <1>1, <1>3, <1>4, <1>5, <1>6, <1>7, <1>8, <1>9 DEF WorkerInv

\* What it says at the end of a run.
LEMMA PiSettlesIs ==
    ASSUME WorkerInv, PiSettles
    PROVE  /\ SaidFacts /\ Rest(0)
           /\ pi'.turn = None /\ ~pi'.run /\ pi.run
           /\ \A i \in 1..Len(wire') : i \notin 1..Len(wire) => 
                 /\ wire'[i].k \in {"close", "settled"}
                 /\ wire'[i].k = "close" => pi.turn # None /\ wire'[i].v = pi.turn
           /\ UNCHANGED <<row, turns, live, made, ses, loading, send, stopper, deleter, holder, opened>>
PROOF
  <1>1. /\ SessionTypes /\ Versions /\ StopOwns /\ NothingWithoutSession /\ StateAskedOnce /\ Removal
        /\ AbortAskedOnce /\ NothingAfterAbort /\ StoppedIsOver /\ Numbers
    BY NumbersAre DEF WorkerInv
  <1> QED
    <2>1. pi.up /\ pi.run /\ pi' = [pi EXCEPT !.run = FALSE, !.turn = None] /\ UNCHANGED <<row, turns, live, made, ses, loading, send, stopper, deleter, holder, opened>>
      BY DEF PiSettles, clientVars, callVars
    <2>2. pi \in PiRecs /\ pi.inbox \in Seq(Inputs) /\ live # None /\ pi.turn <= opened
      BY <1>1, <2>1 DEF SessionTypes, PiRecs, NothingWithoutSession
    <2>4. pi' \in PiRecs /\ pi'.up = pi.up /\ pi'.turn = None /\ ~pi'.run /\ pi'.inbox = pi.inbox
      BY <2>1, <2>2, PiRunIs
    <2>3. Rest(0)
      <3>1. pi.up /\ pi'.up
        BY <2>1, <2>4
      <3>2. \A i \in 1..Len(pi.inbox) : pi.inbox[i] # "state"
        BY <1>1, <2>1 DEF StateAskedOnce
      <3>3. Len(pi.inbox) \in Nat
        BY <2>2, LinesAre
      <3>4. \A i \in 1..Len(pi'.inbox) :
               i + 0 \in 1..Len(pi.inbox) /\ pi'.inbox[i] = pi.inbox[i + 0] /\ pi'.inbox[i] # "state"
        BY <2>4, <3>2, <3>3
      <3>5. Len(pi'.inbox) = Len(pi.inbox) - 0
        BY <2>4, <3>3
      <3> QED
        BY <2>4, <3>1, <3>3, <3>4, <3>5 DEF Rest
    <2> DEFINE settled == FALSE
               line == Says("settled", None)
               over == IF settled THEN <<Says("settled", None)>> ELSE <<>>
               more == TurnEnds \o over \o <<line>>
    <2>5. line \in Lines /\ line.k = "settled" /\ (pi.turn # None => pi.turn \in 1..opened)
      <3>1. line \in Lines /\ line.k = "settled"
        BY LineIs DEF LineKinds, None
      <3>2. pi.turn # None => pi.turn \in 1..opened
        BY <1>1, <2>1 DEF NothingWithoutSession, SessionTypes, PiRecs, None, Numbers
      <3> QED
        BY <3>1, <3>2
    <2>6. settled \in BOOLEAN
      BY <1>1 DEF SessionTypes, PiRecs
    <2>7. wire' = wire \o more
      <3>1. /\ wire \in Seq(Lines) /\ <<line>> \in Seq(Lines) /\ TurnEnds \in Seq(Lines)
            /\ over \in Seq(Lines)
        BY <1>1, <2>5, SpokenIs DEF SessionTypes
      <3>2. wire' = wire \o TurnEnds \o over \o <<line>>
        BY <1>1, SpokenIs, <3>1 DEF PiSettles
      <3> HIDE DEF over, line, settled, Lines
      <3> DEFINE closing == TurnEnds
                 answer == <<line>>
      <3>3. wire \in Seq(Lines) /\ closing \in Seq(Lines) /\ over \in Seq(Lines) /\ answer \in Seq(Lines)
        BY <3>1
      <3>4. wire' = wire \o closing \o over \o answer /\ more = closing \o over \o answer
        BY <3>2
      <3> HIDE DEF closing, answer, more
      <3>5. wire \o closing \o over \o answer = wire \o (closing \o over \o answer)
        BY <3>3
      <3> QED
        BY <3>4, <3>5
    <2> HIDE DEF settled, line, Lines
    <2>8. /\ more \in Seq(Lines) /\ more # <<>> /\ more[Len(more)] = line
          /\ \A i \in 1..Len(more) : i # Len(more) =>
                /\ more[i].k \in {"close", "settled"}
                /\ more[i].k = "close" => pi.turn # None /\ more[i].v = pi.turn
      BY <1>1, <2>5, <2>6, RunEndsIs
    <2> HIDE DEF more
    <2>9. /\ SaidFacts
          /\ \A i \in 1..Len(wire') : i \notin 1..Len(wire) =>
                /\ wire'[i].k \in {"close", "settled"}
                /\ wire'[i].k = "aborted" => i = Len(wire')
                /\ wire'[i].k = "close" => pi.turn # None /\ wire'[i].v = pi.turn
      <3>1. /\ SaidFacts /\ Len(more) \in Nat /\ Len(wire') = Len(wire) + Len(more)
            /\ \A i \in 1..Len(wire') : i \notin 1..Len(wire) =>
                  i - Len(wire) \in 1..Len(more) /\ wire'[i] = more[i - Len(wire)]
        BY <1>1, <2>7, <2>8, SaidIs
      <3>2. ASSUME NEW i \in 1..Len(wire'), i \notin 1..Len(wire)
            PROVE  /\ wire'[i].k \in {"close", "settled"}
                   /\ wire'[i].k = "aborted" => i = Len(wire')
                   /\ wire'[i].k = "close" => pi.turn # None /\ wire'[i].v = pi.turn
        <4>1. i - Len(wire) \in 1..Len(more) /\ wire'[i] = more[i - Len(wire)]
          BY <3>1, <3>2
        <4>2. CASE i - Len(wire) = Len(more)
          BY <2>5, <2>8, <3>1, <4>1, <4>2 DEF SaidFacts
        <4>3. CASE i - Len(wire) # Len(more)
          BY <2>8, <4>1, <4>3
        <4> QED
          BY <4>2, <4>3
      <3> QED
        BY <3>1, <3>2
    <2> QED
      BY <2>1, <2>3, <2>4, <2>9

\* The run ends by itself.
LEMMA PiSettlesKeeps ==
    ASSUME WorkerInv, PiSettles
    PROVE  WorkerInv'
PROOF
  <1>1. /\ SessionTypes /\ Versions /\ StopOwns /\ NothingWithoutSession /\ StateAskedOnce /\ Removal
        /\ AbortAskedOnce /\ NothingAfterAbort /\ StoppedIsOver /\ Numbers
    BY NumbersAre DEF WorkerInv
  <1>2. /\ SaidFacts /\ Rest(0)
        /\ pi'.turn = None /\ ~pi'.run /\ pi.run
        /\ \A i \in 1..Len(wire') : i \notin 1..Len(wire) => 
              /\ wire'[i].k \in {"close", "settled"}
              /\ wire'[i].k = "close" => pi.turn # None /\ wire'[i].v = pi.turn
        /\ UNCHANGED <<row, turns, live, made, ses, loading, send, stopper, deleter, holder, opened>>
    BY PiSettlesIs
  <1>3. Versions' /\ StopOwns' /\ Removal'
    BY <1>1, <1>2
    DEF Versions, InFlight, StopOwns, Removal
  <1>4. SessionTypes'
    BY <1>1, <1>2, MessagesAre DEF SessionTypes, SaidFacts, Rest, Numbers
  <1>5. NothingWithoutSession'
    BY <1>1, <1>2 DEF NothingWithoutSession, Rest, Numbers, None
  <1>6. StateAskedOnce'
    <2>1. \A i \in 1..Len(pi'.inbox) : pi'.inbox[i] # "state"
      BY <1>2 DEF Rest
    <2>2. ASSUME NEW i \in 1..Len(wire'), wire'[i].k = "state"
          PROVE  i = 1 /\ loading = "asking" /\ wire'[i].v \in {"idle", "busy"}
      <3>1. i \in 1..Len(wire) /\ wire'[i] = wire[i]
        BY <1>2, <2>2 DEF SaidFacts
      <3> QED
        BY <1>1, <2>2, <3>1 DEF StateAskedOnce
    <2> QED
      BY <1>2, <2>1, <2>2 DEF StateAskedOnce
  <1>7. AbortAskedOnce'
    <2>1. ASSUME NEW i \in 1..Len(pi'.inbox), pi'.inbox[i] = "abort"
          PROVE  /\ stopper.pc = "aborting" /\ stopper.at = live
                 /\ \A j \in 1..Len(pi'.inbox) : pi'.inbox[j] = "abort" => j = i
                 /\ \A j \in 1..Len(wire') : wire'[j].k \notin {"aborted", "abortFailed"}
      <3>1. i + 0 \in 1..Len(pi.inbox) /\ pi.inbox[i + 0] = "abort" /\ pi.up
        BY <1>2, <2>1 DEF Rest
      <3>2. /\ stopper.pc = "aborting" /\ stopper.at = live
            /\ \A j \in 1..Len(pi.inbox) : pi.inbox[j] = "abort" => j = i + 0
            /\ \A j \in 1..Len(wire) : wire[j].k \notin {"aborted", "abortFailed"}
        BY <1>1, <3>1 DEF AbortAskedOnce
      <3>3. \A j \in 1..Len(pi'.inbox) : pi'.inbox[j] = "abort" => j = i
        BY <1>2, <3>2 DEF Rest
      <3>4. \A j \in 1..Len(wire') : wire'[j].k \notin {"aborted", "abortFailed"}
        BY <1>2, <3>2 DEF SaidFacts
      <3> QED
        BY <3>2, <3>3, <3>4
    <2>2. ASSUME NEW i \in 1..Len(wire'), wire'[i].k \in {"aborted", "abortFailed"}
          PROVE  /\ stopper.pc = "aborting" /\ stopper.at = live
                 /\ \A j \in 1..Len(wire') : wire'[j].k \in {"aborted", "abortFailed"} => j = i
      <3>1. i \in 1..Len(wire) /\ wire[i].k \in {"aborted", "abortFailed"}
        BY <1>2, <2>2 DEF SaidFacts
      <3>2. /\ stopper.pc = "aborting" /\ stopper.at = live
            /\ \A j \in 1..Len(wire) : wire[j].k \in {"aborted", "abortFailed"} => j = i
        BY <1>1, <3>1 DEF AbortAskedOnce
      <3> QED
        BY <1>2, <3>2 DEF SaidFacts
    <2> QED
      BY <1>2, <2>1, <2>2 DEF AbortAskedOnce
  <1>8. NothingAfterAbort'
    <2> SUFFICES ASSUME StopIsNewest' PROVE NothingAfterAbort'
      BY DEF NothingAfterAbort
    <2>1. StopIsNewest
      BY <1>2 DEF StopIsNewest, Current
    <2>2. ASSUME NEW i \in 1..Len(pi'.inbox), NEW j \in 1..Len(pi'.inbox), pi'.inbox[i] = "abort", i < j
          PROVE  pi'.inbox[j] \notin Sends
      <3>1. /\ i + 0 \in 1..Len(pi.inbox) /\ pi.inbox[i + 0] = "abort" /\ i + 0 < j + 0
            /\ j + 0 \in 1..Len(pi.inbox) /\ pi.inbox[j + 0] = pi'.inbox[j] /\ pi.up
        BY <1>2, <2>2 DEF Rest
      <3> QED
        BY <1>1, <2>1, <3>1 DEF NothingAfterAbort
    <2>3. /\ \A i \in 1..Len(wire) : wire[i].k # "aborted"
          /\ stopper.pc # "aborted"
      BY <1>1, <1>2, <2>1 DEF NothingAfterAbort
    <2>4. \A i \in 1..Len(wire') : wire'[i].k # "aborted"
      BY <1>2, <2>3 DEF SaidFacts
    <2> QED
      BY <1>2, <2>2, <2>3, <2>4 DEF NothingAfterAbort
  <1>9. StoppedIsOver'
    <2>1. \A t \in 1..MaxTurns : opened' < t => turns'[t] = "none"
      BY <1>1, <1>2, MessagesAre DEF StoppedIsOver, Numbers
    <2>2. ASSUME NEW i \in 1..Len(wire'), wire'[i].k \in {"open", "close"}
          PROVE  wire'[i].v \in 1..opened' /\ \A t \in 1..MaxTurns : turns'[t] = "stopped" => wire'[i].v # t
      <3>1. CASE i \in 1..Len(wire)
        <4>1. wire[i].k \in {"open", "close"} /\ wire'[i] = wire[i]
          BY <1>2, <2>2, <3>1 DEF SaidFacts
        <4>2. wire[i].v \in 1..opened /\ \A t \in 1..MaxTurns : turns[t] = "stopped" => wire[i].v # t
          BY <1>1, <3>1, <4>1 DEF StoppedIsOver
        <4> QED
          BY <1>1, <1>2, <4>1, <4>2 DEF Numbers
      <3>2. CASE i \notin 1..Len(wire)
        <4>1. pi.turn \in Nat /\ pi.turn <= opened
          BY <1>1 DEF SessionTypes, PiRecs, NothingWithoutSession
        <4>2. wire'[i].v \in 1..opened' /\ (wire'[i].v = pi.turn \/ wire'[i].v = opened + 1)
          BY <1>1, <1>2, <2>2, <3>2, <4>1 DEF Numbers, None
        <4>3. ASSUME NEW t \in 1..MaxTurns, turns[t] = "stopped" PROVE pi.turn # t /\ t <= opened
          <5>1. pi.turn # t /\ ~(opened < t)
            BY <1>1, <4>3 DEF StoppedIsOver
          <5> QED
            BY <1>1, <5>1, MessagesAre DEF Numbers
        <4>4. \A t \in 1..MaxTurns : turns'[t] = "stopped" => wire'[i].v # t
          BY <1>1, <1>2, <4>2, <4>3, MessagesAre DEF Numbers
        <4> QED
          BY <4>2, <4>4
      <3> QED
        BY <3>1, <3>2
    <2>3. \A t \in 1..MaxTurns : turns'[t] = "stopped" => pi'.turn # t
      BY <1>1, <1>2, MessagesAre DEF StoppedIsOver, Numbers, None
    <2> QED
      BY <2>1, <2>2, <2>3 DEF StoppedIsOver
  <1> QED
    BY <1>1, <1>3, <1>4, <1>5, <1>6, <1>7, <1>8, <1>9 DEF WorkerInv

\* What it says of a turn it opens.
LEMMA PiOpensTurnIs ==
    ASSUME WorkerInv, PiOpensTurn
    PROVE  /\ SaidFacts /\ Rest(0)
           /\ pi'.turn = opened + 1 /\ pi'.run /\ pi.run /\ opened' = opened + 1 /\ opened' \in 1..MaxTurns
           /\ \A i \in 1..Len(wire') : i \notin 1..Len(wire) => wire'[i].k = "open" /\ wire'[i].v = opened + 1
           /\ UNCHANGED <<row, turns, live, made, ses, loading, send, stopper, deleter, holder>>
PROOF
  <1>1. /\ SessionTypes /\ Versions /\ StopOwns /\ NothingWithoutSession /\ StateAskedOnce /\ Removal
        /\ AbortAskedOnce /\ NothingAfterAbort /\ StoppedIsOver /\ Numbers
    BY NumbersAre DEF WorkerInv
  <1> QED
    <2>1. /\ pi.up /\ pi.run /\ opened < MaxTurns /\ opened' = opened + 1
          /\ pi' = [pi EXCEPT !.turn = opened + 1] /\ wire' = Append(wire, Says("open", opened + 1))
          /\ UNCHANGED <<row, turns, live, made, ses, loading, send, stopper, deleter, holder>>
      BY DEF PiOpensTurn, clientVars, callVars
    <2> DEFINE n == opened + 1
    <2>2. pi \in PiRecs /\ pi.inbox \in Seq(Inputs) /\ n \in Nat /\ n \in 1..MaxTurns
      BY <1>1, <2>1, MessagesAre DEF SessionTypes, PiRecs
    <2>3. /\ pi' = [pi EXCEPT !.turn = n] /\ wire' = Append(wire, Says("open", n)) /\ opened' = n /\ n = opened + 1
      BY <2>1
    <2> HIDE DEF n
    <2>4. pi' \in PiRecs /\ pi'.up = pi.up /\ pi'.run = pi.run /\ pi'.turn = n /\ pi'.inbox = pi.inbox
      <3> DEFINE q == [pi EXCEPT !.turn = n]
      <3>1. q \in PiRecs /\ q.up = pi.up /\ q.run = pi.run /\ q.turn = n /\ q.inbox = pi.inbox
        <4>1. pi \in PiRecs /\ n \in Nat /\ pi.inbox \in Seq(Inputs)
          BY <2>2
        <4> HIDE DEF Inputs, PiRecs
        <4> QED
          BY <4>1, PiIs
      <3>2. pi' = q
        BY <2>3
      <3> HIDE DEF q
      <3> QED
        BY <3>1, <3>2
    <2>5. Rest(0)
      <3>1. pi.up /\ pi'.up
        BY <2>1, <2>4
      <3>2. \A i \in 1..Len(pi.inbox) : pi.inbox[i] # "state"
        BY <1>1, <2>1 DEF StateAskedOnce
      <3>3. Len(pi.inbox) \in Nat
        BY <2>2, LinesAre
      <3>4. \A i \in 1..Len(pi'.inbox) :
               i + 0 \in 1..Len(pi.inbox) /\ pi'.inbox[i] = pi.inbox[i + 0] /\ pi'.inbox[i] # "state"
        BY <2>4, <3>2, <3>3
      <3>5. Len(pi'.inbox) = Len(pi.inbox) - 0
        BY <2>4, <3>3
      <3> QED
        BY <2>4, <3>1, <3>3, <3>4, <3>5 DEF Rest
    <2>6. Says("open", n) \in Lines /\ Says("open", n).k = "open" /\ Says("open", n).v = n
      BY <2>2, LineIs DEF LineKinds
    <2>7. SaidFacts /\ \A i \in 1..Len(wire') : i \notin 1..Len(wire) => i = Len(wire) + 1 /\ wire'[i] = Says("open", n)
      BY <1>1, <2>3, <2>6, SaysIs
    <2> QED
      BY <2>1, <2>2, <2>3, <2>4, <2>5, <2>6, <2>7

\* Pi opens a turn.
LEMMA PiOpensTurnKeeps ==
    ASSUME WorkerInv, PiOpensTurn
    PROVE  WorkerInv'
PROOF
  <1>1. /\ SessionTypes /\ Versions /\ StopOwns /\ NothingWithoutSession /\ StateAskedOnce /\ Removal
        /\ AbortAskedOnce /\ NothingAfterAbort /\ StoppedIsOver /\ Numbers
    BY NumbersAre DEF WorkerInv
  <1>2. /\ SaidFacts /\ Rest(0)
        /\ pi'.turn = opened + 1 /\ pi'.run /\ pi.run /\ opened' = opened + 1 /\ opened' \in 1..MaxTurns
        /\ \A i \in 1..Len(wire') : i \notin 1..Len(wire) => wire'[i].k = "open" /\ wire'[i].v = opened + 1
        /\ UNCHANGED <<row, turns, live, made, ses, loading, send, stopper, deleter, holder>>
    BY PiOpensTurnIs
  <1>3. Versions' /\ StopOwns' /\ Removal'
    BY <1>1, <1>2
    DEF Versions, InFlight, StopOwns, Removal
  <1>4. SessionTypes'
    BY <1>1, <1>2, MessagesAre DEF SessionTypes, SaidFacts, Rest, Numbers
  <1>5. NothingWithoutSession'
    BY <1>1, <1>2 DEF NothingWithoutSession, Rest, Numbers, None
  <1>6. StateAskedOnce'
    <2>1. \A i \in 1..Len(pi'.inbox) : pi'.inbox[i] # "state"
      BY <1>2 DEF Rest
    <2>2. ASSUME NEW i \in 1..Len(wire'), wire'[i].k = "state"
          PROVE  i = 1 /\ loading = "asking" /\ wire'[i].v \in {"idle", "busy"}
      <3>1. i \in 1..Len(wire) /\ wire'[i] = wire[i]
        BY <1>2, <2>2 DEF SaidFacts
      <3> QED
        BY <1>1, <2>2, <3>1 DEF StateAskedOnce
    <2> QED
      BY <1>2, <2>1, <2>2 DEF StateAskedOnce
  <1>7. AbortAskedOnce'
    <2>1. ASSUME NEW i \in 1..Len(pi'.inbox), pi'.inbox[i] = "abort"
          PROVE  /\ stopper.pc = "aborting" /\ stopper.at = live
                 /\ \A j \in 1..Len(pi'.inbox) : pi'.inbox[j] = "abort" => j = i
                 /\ \A j \in 1..Len(wire') : wire'[j].k \notin {"aborted", "abortFailed"}
      <3>1. i + 0 \in 1..Len(pi.inbox) /\ pi.inbox[i + 0] = "abort" /\ pi.up
        BY <1>2, <2>1 DEF Rest
      <3>2. /\ stopper.pc = "aborting" /\ stopper.at = live
            /\ \A j \in 1..Len(pi.inbox) : pi.inbox[j] = "abort" => j = i + 0
            /\ \A j \in 1..Len(wire) : wire[j].k \notin {"aborted", "abortFailed"}
        BY <1>1, <3>1 DEF AbortAskedOnce
      <3>3. \A j \in 1..Len(pi'.inbox) : pi'.inbox[j] = "abort" => j = i
        BY <1>2, <3>2 DEF Rest
      <3>4. \A j \in 1..Len(wire') : wire'[j].k \notin {"aborted", "abortFailed"}
        BY <1>2, <3>2 DEF SaidFacts
      <3> QED
        BY <3>2, <3>3, <3>4
    <2>2. ASSUME NEW i \in 1..Len(wire'), wire'[i].k \in {"aborted", "abortFailed"}
          PROVE  /\ stopper.pc = "aborting" /\ stopper.at = live
                 /\ \A j \in 1..Len(wire') : wire'[j].k \in {"aborted", "abortFailed"} => j = i
      <3>1. i \in 1..Len(wire) /\ wire[i].k \in {"aborted", "abortFailed"}
        BY <1>2, <2>2 DEF SaidFacts
      <3>2. /\ stopper.pc = "aborting" /\ stopper.at = live
            /\ \A j \in 1..Len(wire) : wire[j].k \in {"aborted", "abortFailed"} => j = i
        BY <1>1, <3>1 DEF AbortAskedOnce
      <3> QED
        BY <1>2, <3>2 DEF SaidFacts
    <2> QED
      BY <1>2, <2>1, <2>2 DEF AbortAskedOnce
  <1>8. NothingAfterAbort'
    <2> SUFFICES ASSUME StopIsNewest' PROVE NothingAfterAbort'
      BY DEF NothingAfterAbort
    <2>1. StopIsNewest
      BY <1>2 DEF StopIsNewest, Current
    <2>2. ASSUME NEW i \in 1..Len(pi'.inbox), NEW j \in 1..Len(pi'.inbox), pi'.inbox[i] = "abort", i < j
          PROVE  pi'.inbox[j] \notin Sends
      <3>1. /\ i + 0 \in 1..Len(pi.inbox) /\ pi.inbox[i + 0] = "abort" /\ i + 0 < j + 0
            /\ j + 0 \in 1..Len(pi.inbox) /\ pi.inbox[j + 0] = pi'.inbox[j] /\ pi.up
        BY <1>2, <2>2 DEF Rest
      <3> QED
        BY <1>1, <2>1, <3>1 DEF NothingAfterAbort
    <2>3. /\ \A i \in 1..Len(wire) : wire[i].k # "aborted"
          /\ stopper.pc # "aborted"
      BY <1>1, <1>2, <2>1 DEF NothingAfterAbort
    <2>4. \A i \in 1..Len(wire') : wire'[i].k # "aborted"
      BY <1>2, <2>3 DEF SaidFacts
    <2> QED
      BY <1>2, <2>2, <2>3, <2>4 DEF NothingAfterAbort
  <1>9. StoppedIsOver'
    <2>1. \A t \in 1..MaxTurns : opened' < t => turns'[t] = "none"
      BY <1>1, <1>2, MessagesAre DEF StoppedIsOver, Numbers
    <2>2. ASSUME NEW i \in 1..Len(wire'), wire'[i].k \in {"open", "close"}
          PROVE  wire'[i].v \in 1..opened' /\ \A t \in 1..MaxTurns : turns'[t] = "stopped" => wire'[i].v # t
      <3>1. CASE i \in 1..Len(wire)
        <4>1. wire[i].k \in {"open", "close"} /\ wire'[i] = wire[i]
          BY <1>2, <2>2, <3>1 DEF SaidFacts
        <4>2. wire[i].v \in 1..opened /\ \A t \in 1..MaxTurns : turns[t] = "stopped" => wire[i].v # t
          BY <1>1, <3>1, <4>1 DEF StoppedIsOver
        <4> QED
          BY <1>1, <1>2, <4>1, <4>2 DEF Numbers
      <3>2. CASE i \notin 1..Len(wire)
        <4>1. pi.turn \in Nat /\ pi.turn <= opened
          BY <1>1 DEF SessionTypes, PiRecs, NothingWithoutSession
        <4>2. wire'[i].v \in 1..opened' /\ (wire'[i].v = pi.turn \/ wire'[i].v = opened + 1)
          BY <1>1, <1>2, <2>2, <3>2, <4>1 DEF Numbers, None
        <4>3. ASSUME NEW t \in 1..MaxTurns, turns[t] = "stopped" PROVE pi.turn # t /\ t <= opened
          <5>1. pi.turn # t /\ ~(opened < t)
            BY <1>1, <4>3 DEF StoppedIsOver
          <5> QED
            BY <1>1, <5>1, MessagesAre DEF Numbers
        <4>4. ASSUME NEW t \in 1..MaxTurns, turns'[t] = "stopped" PROVE wire'[i].v # t
          <5>1. turns[t] = "stopped"
            BY <1>2, <4>4
          <5>2. pi.turn # t /\ t <= opened
            BY <4>3, <5>1
          <5>3. opened \in Nat /\ t \in Nat
            BY <1>1, MessagesAre DEF Numbers
          <5> QED
            BY <4>2, <5>2, <5>3
        <4> QED
          BY <4>2, <4>4
      <3> QED
        BY <3>1, <3>2
    <2>3. \A t \in 1..MaxTurns : turns'[t] = "stopped" => pi'.turn # t
      BY <1>1, <1>2, MessagesAre DEF StoppedIsOver, Numbers, None
    <2> QED
      BY <2>1, <2>2, <2>3 DEF StoppedIsOver
  <1> QED
    BY <1>1, <1>3, <1>4, <1>5, <1>6, <1>7, <1>8, <1>9 DEF WorkerInv

\* Pi reads what was sent to it.
LEMMA PiReadsKeeps ==
    ASSUME WorkerInv, PiReads
    PROVE  WorkerInv'
PROOF
  <1> DEFINE m == pi.inbox[1]
             rest == [pi EXCEPT !.inbox = Tail(pi.inbox)]
             begun == [rest EXCEPT !.run = TRUE]
             lines == {<<Says("ack", m), Says("start", None)>>, <<Says("start", None), Says("ack", m)>>}
  <1>1. pi.up /\ pi.inbox # <<>> /\ Head(pi.inbox) = m
    BY ReadIs DEF PiReads
  <1>2. \/ m \in {"state", "probe"} /\ pi' = rest /\ \E v \in {"idle", "busy"} : wire' = Append(wire, Says(m, v))
        \/ m \in Sends /\ pi' = rest /\ \E k \in {"ack", "nack"} : wire' = Append(wire, Says(k, m))
        \/ m \in Sends /\ ~pi.run /\ pi' = begun /\ \E more \in lines : wire' = wire \o more
        \/ m = "abort" /\ RunAborts
        \/ m = "abort" /\ pi' = rest /\ wire' = Append(wire, Says("abortFailed", None))
    BY <1>1 DEF PiReads, RunAborts
  <1>3. CASE m \in {"state", "probe"} /\ pi' = rest /\ \E v \in {"idle", "busy"} : wire' = Append(wire, Says(m, v))
    BY <1>3, StateSaidKeeps
  <1>4. CASE m \in Sends /\ pi' = rest /\ \E k \in {"ack", "nack"} : wire' = Append(wire, Says(k, m))
    BY <1>4, PromptReadKeeps
  <1>5. CASE m \in Sends /\ ~pi.run /\ pi' = begun /\ \E more \in lines : wire' = wire \o more
    BY <1>5, RunBeginsKeeps
  <1>6. CASE m = "abort" /\ RunAborts
    BY <1>6, RunAbortedKeeps
  <1>7. CASE m = "abort" /\ pi' = rest /\ wire' = Append(wire, Says("abortFailed", None))
    BY <1>7, AbortRefusedKeeps
  <1> QED
    BY <1>2, <1>3, <1>4, <1>5, <1>6, <1>7

\* The client reads a line.
LEMMA HearsKeeps ==
    ASSUME WorkerInv, Hears
    PROVE  WorkerInv'
PROOF
  <1>1. wire[1].k \in LineKinds
    BY HeardIs DEF HeardFacts, Lines
  <1>2. CASE wire[1].k \in {"ack", "nack"}
    BY <1>2, PromptAnsweredKeeps
  <1>3. CASE wire[1].k \in {"aborted", "abortFailed"}
    BY <1>3, StopAnsweredKeeps
  <1>4. CASE wire[1].k = "state"
    BY <1>4, StateHeardKeeps
  <1>5. CASE wire[1].k = "probe" \/ (wire[1].k \in {"start", "open", "close", "settled"} /\ ses.deaf)
    BY <1>5, NothingHeardKeeps
  <1>6. CASE wire[1].k = "start" /\ ~ses.deaf
    BY <1>6, AgentStartKeeps
  <1>7. CASE wire[1].k \in {"open", "close"} /\ ~ses.deaf
    BY <1>7, TurnEventKeeps
  <1>8. CASE wire[1].k = "settled" /\ ~ses.deaf
    BY <1>8, AgentSettledKeeps
  <1> QED
    BY <1>1, <1>2, <1>3, <1>4, <1>5, <1>6, <1>7, <1>8 DEF LineKinds

\* What a step of the Worker's side is, whether it waits for the microtasks or is one.
LEMMA SessionStepIs ==
    ASSUME SessionNext
    PROVE  \/ \E o \in Sends : \/ SendLoaded(o) \/ Accepted(o) \/ Refused(o)
                               \/ SendBegins(o) \/ Prompts(o) \/ Unanswered(o) \/ SendTimesOut(o)
           \/ Resumed \/ LoadBegins \/ LoadFails \/ SessionMade
           \/ StopDone \/ StopFails \/ StopBegins \/ StopOutlasts
           \/ DeleteBegins \/ DeleteProceeds \/ Removed \/ RemoveFails \/ SessionStopped
           \/ WatchDecides \/ WatchAsks \/ WatchLeaves \/ Reconciles \/ TransportClosed
           \/ (Hears /\ ~draining) \/ PiReads \/ PiSettles \/ PiOpensTurn \/ PiDies
PROOF
  <1>1. CASE \E o \in Sends : SendNext(o)
    BY <1>1 DEF SendNext, Continues, Alone
  <1>2. CASE LoadNext
    BY <1>2 DEF LoadNext, Continues, Alone
  <1>3. CASE StopNext \/ DeleteNext
    BY <1>3 DEF StopNext, DeleteNext, Continues, Alone
  <1>4. CASE WatchNext \/ Repair \/ Closing
    BY <1>4 DEF WatchNext, Repair, Closing, Continues, Alone
  <1>5. CASE Reading \/ PiAnswers \/ PiFinishes
    BY <1>5 DEF Reading, PiAnswers, PiFinishes, Alone
  <1>6. CASE Disturbed
    BY <1>6 DEF Disturbed, Alone
  <1> QED
    BY <1>1, <1>2, <1>3, <1>4, <1>5, <1>6 DEF SessionNext

\* No step of the Worker's side breaks the invariant.
LEMMA WorkerStep == WorkerInv /\ [SessionNext]_sessionVars => WorkerInv'
PROOF
  <1> SUFFICES ASSUME WorkerInv, [SessionNext]_sessionVars PROVE WorkerInv'
    OBVIOUS
  <1>1. ASSUME NEW o \in Sends, SendLoaded(o) \/ Accepted(o) \/ Refused(o) \/ SendBegins(o) \/ Unanswered(o)
        PROVE  WorkerInv'
    BY <1>1, SendLoadedKeeps, AcceptedKeeps, SendBeginsKeeps, UnansweredKeeps
  <1>2. ASSUME NEW o \in Sends, Prompts(o) PROVE WorkerInv'
    BY <1>2, StaleKeeps, PromptsKeeps
  <1>3. ASSUME NEW o \in Sends, SendTimesOut(o) PROVE WorkerInv'
    <2>1. CASE \E bounded \in BOOLEAN : StopStarts(bounded)
      BY <1>3, <2>1, TimeOutStopsKeeps
    <2>2. CASE ~ \E bounded \in BOOLEAN : StopStarts(bounded)
      <3>1. /\ UNCHANGED <<row, turns, live, made, ses, loading, send, stopper, deleter, pi, opened, wire>>
            /\ holder' \in {holder, "none"}
        BY <1>3, <2>2 DEF SendTimesOut
      <3> QED
        BY <3>1, LockMovesKeeps
    <2> QED
      BY <2>1, <2>2
  <1>4. CASE Resumed \/ LoadBegins \/ LoadFails \/ SessionMade
    BY <1>4, ResumedKeeps, LoadBeginsKeeps, LoadFailsKeeps, SessionMadeKeeps
  <1>5. CASE StopDone \/ StopFails \/ StopBegins
    BY <1>5, StopDoneKeeps, StopFailsKeeps, StopBeginsKeeps
  <1>6. CASE DeleteBegins \/ DeleteProceeds \/ Removed \/ RemoveFails \/ SessionStopped
    BY <1>6, DeleteBeginsKeeps, DeleteProceedsKeeps, RemovedKeeps, RemoveFailsKeeps, SessionStoppedKeeps
  <1>7. CASE Reconciles \/ TransportClosed
    BY <1>7, ReconcilesKeeps, TransportClosedKeeps
  <1>8. CASE StopOutlasts \/ WatchDecides \/ WatchLeaves \/ UNCHANGED sessionVars
    <2>1. /\ UNCHANGED <<row, turns, live, made, ses, loading, send, stopper, deleter, pi, opened, wire>>
          /\ holder' \in {holder, "none"}
      BY <1>8 DEF StopOutlasts, WatchDecides, WatchLeaves, sessionVars, piVars
    <2> QED
      BY <2>1, LockMovesKeeps
  <1>9. CASE WatchAsks
    <2>1. CASE live # None /\ watch' = "asking"
      BY <1>9, <2>1, ProbeKeeps
    <2>2. CASE ~(live # None /\ watch' = "asking")
      <3>1. /\ UNCHANGED <<row, turns, live, made, ses, loading, send, stopper, deleter, pi, opened, wire>>
            /\ holder' \in {holder, "none"}
        BY <1>9, <2>2 DEF WatchAsks
      <3> QED
        BY <3>1, LockMovesKeeps
    <2> QED
      BY <2>1, <2>2
  <1>10. CASE Hears \/ PiReads \/ PiSettles \/ PiOpensTurn \/ PiDies
    BY <1>10, HearsKeeps, PiReadsKeeps, PiSettlesKeeps, PiOpensTurnKeeps, PiDiesKeeps
  <1> QED
    BY <1>1, <1>2, <1>3, <1>4, <1>5, <1>6, <1>7, <1>8, <1>9, <1>10, SessionStepIs

\* It holds when the Worker's side begins.
LEMMA WorkerInitInv == SessionInit => WorkerInv
PROOF
  <1> SUFFICES ASSUME SessionInit PROVE WorkerInv
    OBVIOUS
  <1>1. PICK wasActive \in BOOLEAN :
          /\ row = IF wasActive THEN "active" ELSE "idle"
          /\ turns = [t \in 1..MaxTurns |-> IF wasActive /\ t = 1 THEN "open" ELSE "none"]
          /\ opened = IF wasActive THEN 1 ELSE 0
    BY DEF SessionInit
  <1>2. /\ live = 0 /\ made = 0 /\ ses = NoSession /\ loading = "none" /\ stopper = NoStop /\ deleter = "none"
        /\ send = [o \in Sends |-> FreshSend] /\ holder = "none" /\ pi = NoProcess /\ wire = <<>>
    BY DEF SessionInit, None
  <1>3. row \in {"idle", "active"} /\ turns \in [1..MaxTurns -> TurnStates] /\ opened \in 0..MaxTurns
    BY <1>1, SessionBounds DEF TurnStates
  <1>4. /\ \A t \in 1..MaxTurns : opened < t => turns[t] = "none"
        /\ \A t \in 1..MaxTurns : turns[t] # "stopped"
    BY <1>1, SessionBounds
  <1>5. /\ ses \in SesRecs /\ ses.version = 0 /\ ses.accepted = 0 /\ ses.stream = 0 /\ ses.pending = {}
        /\ pi \in PiRecs /\ ~pi.up /\ ~pi.run /\ pi.turn = 0 /\ pi.inbox = <<>>
    <2>1. NoSession \in SesRecs
      BY DEF NoSession, SesRecs, None
    <2> QED
      BY <1>2, <2>1, SesIs, NoProcessIs DEF None
  <1>6. stopper \in StopRecs /\ stopper.pc = "none" /\ stopper.at = 0
    BY <1>2 DEF NoStop, StopRecs, None
  <1>7. send \in [Sends -> SendRecs] /\ \A o \in Sends : send[o].pc = "new" /\ send[o].at = 0
    BY <1>2 DEF FreshSend, SendRecs, SendPcs, None
  <1>8. SessionTypes
    BY <1>2, <1>3, <1>5, <1>6, <1>7, SessionBounds DEF SessionTypes
  <1>9. Versions /\ StopOwns
    BY <1>2, <1>5, <1>6, <1>7 DEF Versions, StopOwns, InFlight
  <1>10. NothingWithoutSession /\ StateAskedOnce /\ AbortAskedOnce
    BY <1>2, <1>3, <1>5 DEF NothingWithoutSession, StateAskedOnce, AbortAskedOnce, None
  <1>11. Removal /\ NothingAfterAbort
    BY <1>2, <1>3, <1>6 DEF Removal, NothingAfterAbort, StopIsNewest
  <1>12. StoppedIsOver
    BY <1>2, <1>4 DEF StoppedIsOver
  <1> QED
    BY <1>8, <1>9, <1>10, <1>11, <1>12 DEF WorkerInv

\* The invariant of the Worker's side.
LEMMA WorkerInvariant == SessionInit /\ [][SessionNext]_sessionVars => []WorkerInv
  BY WorkerInitInv, WorkerStep, PTL

\* A step of the Worker's side leaves a turn that was stopped as it is, or
\* removes it with its job.
LEMMA StoppedStep ==
    ASSUME WorkerInv, [SessionNext]_sessionVars
    PROVE  \A t \in 1..MaxTurns : turns[t] = "stopped" => turns'[t] \in {"stopped", "none"}
PROOF
  <1>1. SessionTypes /\ LastTurn \subseteq OpenTurns
    BY DEF WorkerInv, LastTurn
  <1>2. ASSUME NEW how \in TurnStates, turns' = Marked(LastTurn, how) \/ turns' = Marked(OpenTurns, how)
        PROVE  \A t \in 1..MaxTurns : turns[t] = "stopped" => turns'[t] \in {"stopped", "none"}
    BY <1>1, <1>2, MarkedIs
  <1>3. CASE UNCHANGED turns
    BY <1>3
  <1>4. CASE Resumed \/ StopDone \/ Reconciles \/ TransportClosed
    <2>1. \/ UNCHANGED turns
          \/ \E how \in TurnStates : turns' = Marked(LastTurn, how) \/ turns' = Marked(OpenTurns, how)
      BY <1>4 DEF Resumed, StopDone, Reconciles, TransportClosed, TurnStates
    <2> QED
      BY <1>2, <2>1
  <1>5. CASE Removed
    BY <1>5 DEF Removed
  <1>6. CASE Hears
    <2>1. HeardFacts
      BY <1>6, HeardIs
    <2>2. \/ UNCHANGED turns
          \/ AgentSettled
          \/ wire[1].k \in {"open", "close"} /\ TurnEvent(wire[1])
      BY <1>6, <2>1 DEF Hears, Answers, Events, AgentStart, HeardFacts
    <2>3. CASE AgentSettled
      <3>1. UNCHANGED turns \/ \E how \in TurnStates : turns' = Marked(OpenTurns, how)
        BY <2>3 DEF AgentSettled, TurnStates
      <3> QED
        BY <1>2, <3>1
    <2>4. CASE wire[1].k \in {"open", "close"} /\ TurnEvent(wire[1])
      <3>1. 1 \in 1..Len(wire)
        BY <2>1 DEF HeardFacts
      <3>2. \A t \in 1..MaxTurns : turns[t] = "stopped" => wire[1].v # t
        BY <2>4, <3>1 DEF WorkerInv, StoppedIsOver
      <3>3. turns' = turns \/ \E how \in {"open", "completed"} : turns' = [turns EXCEPT ![wire[1].v] = how]
        BY <2>4 DEF TurnEvent
      <3> QED
        BY <1>1, <3>2, <3>3 DEF SessionTypes
    <2> QED
      BY <2>2, <2>3, <2>4
  <1>7. ASSUME NEW o \in Sends, \/ SendLoaded(o) \/ Accepted(o) \/ Refused(o)
                                \/ SendBegins(o) \/ Prompts(o) \/ Unanswered(o) \/ SendTimesOut(o)
        PROVE  UNCHANGED turns
    BY <1>7 DEF SendLoaded, Accepted, Refused, SendBegins, Prompts, Unanswered, SendTimesOut
  <1>8. LoadBegins \/ LoadFails \/ SessionMade \/ StopFails \/ StopBegins \/ StopOutlasts => UNCHANGED turns
    BY DEF LoadBegins, LoadFails, SessionMade, StopFails, StopBegins, StopOutlasts
  <1>9. DeleteBegins \/ DeleteProceeds \/ RemoveFails \/ SessionStopped => UNCHANGED turns
    BY DEF DeleteBegins, DeleteProceeds, RemoveFails, SessionStopped
  <1>10. WatchDecides \/ WatchAsks \/ WatchLeaves => UNCHANGED turns
    BY DEF WatchDecides, WatchAsks, WatchLeaves
  <1>11. PiReads \/ PiSettles \/ PiOpensTurn \/ PiDies \/ UNCHANGED sessionVars => UNCHANGED turns
    BY DEF PiReads, PiSettles, PiOpensTurn, PiDies, clientVars, sessionVars
  <1> QED
    BY <1>3, <1>4, <1>5, <1>6, <1>7, <1>8, <1>9, <1>10, <1>11, SessionStepIs

\* What the invariant says of a job that is gone.
LEMMA WorkerInvGone == WorkerInv => GoneHasNoSession
  BY DEF WorkerInv, Removal, GoneHasNoSession

\* And of the types of its state.
LEMMA WorkerInvTyped == WorkerInv => SessionTypeOK
  BY NumbersAre DEF WorkerInv, SessionTypes, Versions, SessionTypeOK, TurnStates, Numbers, SendPcs

\* No step of any behaviour takes a stopped turn up again.
LEMMA StoppedIsKept == SessionInit /\ [][SessionNext]_sessionVars => StoppedStays
PROOF
  <1>1. WorkerInv /\ [SessionNext]_sessionVars =>
           (\A t \in 1..MaxTurns : turns[t] = "stopped" => turns'[t] \in {"stopped", "none"}) \/ UNCHANGED sessionVars
    BY StoppedStep
  <1> QED
    BY <1>1, WorkerInvariant, PTL DEF StoppedStays

-----------------------------------------------------------------------------
(* Whose run Pi is in.  Answers come in the order of the generations, so   *)
(* that nothing older is under way once the newest message is accepted.    *)

Here(o) == send[o].at = live /\ live # None
Held(o) == send[o].pc \in {"prompting", "acked", "nacked", "accepted"} /\ Here(o)

\* The prompt is out; its answer was read and it was no refusal; sendMessage has returned.
Out(o) == send[o].pc = "prompting" /\ Here(o)
Taken(o) == send[o].pc \in {"acked", "accepted"} /\ Here(o)
Confirmed(o) == send[o].pc = "accepted" /\ Here(o)

IsAnswer(i) == wire[i].k \in {"ack", "nack"}
OnWire(o) == \E i \in 1..Len(wire) : IsAnswer(i) /\ wire[i].v = o
InInbox(o) == \E i \in 1..Len(pi.inbox) : pi.inbox[i] = o

\* A message has a generation of its own, made before the stop that has the newest one.
Generations ==
    /\ \A o \in Sends : Held(o) => 1 <= send[o].gen /\ send[o].gen <= ses.version
    /\ \A o \in Sends : Held(o) /\ StopIsNewest => send[o].gen <= stopper.wasVersion
    /\ \A o, q \in Sends : Held(o) /\ Held(q) /\ send[o].gen = send[q].gen => o = q

PendingIsInFlight ==
    \A g \in ses.pending : \E o \in Sends : InFlight(o) /\ Here(o) /\ send[o].gen = g

\* Pi answers what was sent to it, in the order it was sent in.
WireInOrder ==
    /\ \A i \in 1..Len(wire) : IsAnswer(i) => wire[i].v \in Sends /\ Out(wire[i].v)
    /\ \A i, j \in 1..Len(wire) :
          IsAnswer(i) /\ IsAnswer(j) /\ i < j => send[wire[i].v].gen < send[wire[j].v].gen
    /\ \A i \in 1..Len(wire) : IsAnswer(i) =>
          \A o \in Sends : Out(o) /\ send[o].gen < send[wire[i].v].gen => OnWire(o)

InboxInOrder ==
    pi.up =>
      /\ \A i \in 1..Len(pi.inbox) : pi.inbox[i] \in Sends => Out(pi.inbox[i])
      /\ \A i \in 1..Len(pi.inbox) : pi.inbox[i] \in Sends =>
            \A o \in Sends : OnWire(o) => send[o].gen < send[pi.inbox[i]].gen
      /\ \A i, j \in 1..Len(pi.inbox) :
            pi.inbox[i] \in Sends /\ pi.inbox[j] \in Sends /\ i < j => send[pi.inbox[i]].gen < send[pi.inbox[j]].gen
      /\ \A o \in Sends : Out(o) => OnWire(o) \/ InInbox(o)

TakenFirst == \A o, q \in Sends : Taken(o) /\ Out(q) => send[o].gen < send[q].gen

\* While lines are read, no answer read before waits for its message to go on.
ConfirmedFirst ==
    ~draining => \A o, q \in Sends :
        Confirmed(o) /\ Held(q) /\ send[q].pc \in {"acked", "nacked"} => send[o].gen < send[q].gen

\* What Pi has said of earlier runs ends before the start of the one it is in, and
\* a start comes with the answer to its prompt.
RunOnWire ==
    /\ pi.run => \A i \in 1..Len(wire) : wire[i].k = "settled" => \E j \in 1..Len(wire) : i < j /\ wire[j].k = "start"
    /\ \A i \in 1..Len(wire) :
          wire[i].k = "start" /\ 1 < i => wire[i - 1].k = "ack" \/ (i < Len(wire) /\ wire[i + 1].k = "ack")

\* Pi's run is that of the newest message accepted, also when the stop that has
\* taken its generation fails and gives it back.
RunIsHeard ==
    pi.run => \A o \in Sends : Confirmed(o) =>
        /\ ses.version = send[o].gen => ses.accepted = send[o].gen /\ ses.stream \in {None, send[o].gen}
        /\ StopIsNewest /\ stopper.wasVersion = send[o].gen =>
              stopper.wasAccepted = send[o].gen /\ ses.stream \in {None, send[o].gen}

OrderInv == WireInOrder /\ InboxInOrder /\ TakenFirst
OwnerInv == Generations /\ PendingIsInFlight /\ RunIsHeard
HearInv == OrderInv /\ OwnerInv /\ RunOnWire

\* The answers on the wire, and the messages in what Pi has yet to read, stay the
\* same and move up.
AnswersMove(d) ==
    /\ \A i \in 1..Len(wire') : wire'[i].k \in {"ack", "nack"} => i + d \in 1..Len(wire) /\ wire'[i] = wire[i + d]
    /\ \A i \in 1..Len(wire) : IsAnswer(i) => i - d \in 1..Len(wire') /\ wire'[i - d] = wire[i]

MessagesMove(e) ==
    /\ \A i \in 1..Len(pi'.inbox) :
          pi'.inbox[i] \in Sends => i + e \in 1..Len(pi.inbox) /\ pi'.inbox[i] = pi.inbox[i + e]
    /\ \A i \in 1..Len(pi.inbox) :
          pi.inbox[i] \in Sends => i - e \in 1..Len(pi'.inbox) /\ pi'.inbox[i - e] = pi.inbox[i]

OutsStay ==
    \A o \in Sends : (Out(o)' <=> Out(o)) /\ (Out(o) => send'[o].gen = send[o].gen)

\* Every message is as it was, or was not and is not under way.
SendsStay ==
    live' = live /\ \A o \in Sends : send'[o] = send[o] \/ (~Held(o) /\ ~Held(o)')

OwnersStay ==
    /\ live' = live /\ ses'.version = ses.version /\ ses'.accepted = ses.accepted /\ ses'.stream = ses.stream
    /\ stopper'.at = stopper.at /\ stopper'.gen = stopper.gen /\ (stopper'.pc = "none" <=> stopper.pc = "none")
    /\ stopper'.wasVersion = stopper.wasVersion /\ stopper'.wasAccepted = stopper.wasAccepted

\* What that says of the messages under way.
LEMMA SendsStayIs ==
    ASSUME SendsStay
    PROVE  /\ OutsStay
           /\ \A o \in Sends : (Held(o)' <=> Held(o)) /\ (Taken(o)' <=> Taken(o)) /\ (Confirmed(o)' <=> Confirmed(o))
           /\ \A o \in Sends : Held(o) => send'[o] = send[o]
PROOF
  <1>1. live' = live
    BY DEF SendsStay
  <1>2. ASSUME NEW o \in Sends, send'[o] = send[o]
        PROVE  /\ Out(o)' <=> Out(o)
               /\ (Held(o)' <=> Held(o)) /\ (Taken(o)' <=> Taken(o)) /\ (Confirmed(o)' <=> Confirmed(o))
    BY <1>1, <1>2 DEF Out, Held, Taken, Confirmed, Here
  <1>3. ASSUME NEW o \in Sends, send'[o] # send[o]
        PROVE  /\ ~Out(o)' /\ ~Out(o) /\ ~Held(o)' /\ ~Held(o) /\ ~Taken(o)' /\ ~Taken(o)
               /\ ~Confirmed(o)' /\ ~Confirmed(o)
    BY <1>3 DEF SendsStay, Out, Held, Taken, Confirmed
  <1> QED
    BY <1>2, <1>3 DEF OutsStay

\* The order stays when no message comes or goes.
LEMMA OrderKeeps ==
    ASSUME SessionTypes, SessionTypes', OrderInv, OutsStay,
           \A o \in Sends : Taken(o)' => Taken(o) /\ send'[o].gen = send[o].gen,
           NEW d \in {0, 1}, AnswersMove(d),
           NEW e \in {0, 1}, pi'.up => pi.up /\ MessagesMove(e)
    PROVE  OrderInv'
PROOF
  <1>1. /\ Len(wire) \in Nat /\ Len(wire') \in Nat /\ Len(pi.inbox) \in Nat /\ Len(pi'.inbox) \in Nat
    BY DEF SessionTypes, PiRecs
  <1>2. ASSUME NEW i \in 1..Len(wire'), IsAnswer(i)'
        PROVE  /\ i + d \in 1..Len(wire) /\ IsAnswer(i + d) /\ wire'[i] = wire[i + d]
               /\ \E o \in Sends : /\ wire[i + d].v = o /\ wire'[i].v = o /\ Out(o) /\ Out(o)'
                                  /\ send'[o].gen = send[o].gen
    <2>1. i + d \in 1..Len(wire) /\ IsAnswer(i + d) /\ wire'[i] = wire[i + d]
      BY <1>2 DEF AnswersMove, IsAnswer
    <2>2. wire[i + d].v \in Sends /\ Out(wire[i + d].v)
      BY <2>1 DEF OrderInv, WireInOrder
    <2> QED
      BY <2>1, <2>2 DEF OutsStay
  <1>3. ASSUME NEW o \in Sends PROVE OnWire(o)' <=> OnWire(o)
    <2>1. ASSUME OnWire(o)' PROVE OnWire(o)
      <3>1. PICK i \in 1..Len(wire') : IsAnswer(i)' /\ wire'[i].v = o
        BY <2>1 DEF OnWire
      <3> QED
        BY <1>2, <3>1 DEF OnWire
    <2>2. ASSUME OnWire(o) PROVE OnWire(o)'
      <3>1. PICK i \in 1..Len(wire) : IsAnswer(i) /\ wire[i].v = o
        BY <2>2 DEF OnWire
      <3>2. i - d \in 1..Len(wire') /\ wire'[i - d] = wire[i]
        BY <3>1 DEF AnswersMove
      <3> QED
        BY <3>1, <3>2 DEF OnWire, IsAnswer
    <2> QED
      BY <2>1, <2>2
  <1>4. WireInOrder'
    <2>3. ASSUME NEW i \in 1..Len(wire'), IsAnswer(i)'
          PROVE  wire'[i].v \in Sends /\ \E o \in Sends : wire'[i].v = o /\ Out(o)'
      BY <1>2, <2>3
    <2>1. ASSUME NEW i \in 1..Len(wire'), NEW j \in 1..Len(wire'), IsAnswer(i)', IsAnswer(j)', i < j
          PROVE  send'[wire'[i].v].gen < send'[wire'[j].v].gen
      <3>1. i + d < j + d
        BY <1>1, <2>1
      <3>2. send[wire[i + d].v].gen < send[wire[j + d].v].gen
        BY <1>2, <2>1, <3>1 DEF OrderInv, WireInOrder
      <3> QED
        BY <1>2, <2>1, <3>2
    <2>2. ASSUME NEW i \in 1..Len(wire'), IsAnswer(i)', NEW o \in Sends, Out(o)', send'[o].gen < send'[wire'[i].v].gen
          PROVE  OnWire(o)'
      <3>1. Out(o) /\ send[o].gen < send[wire[i + d].v].gen
        BY <1>2, <2>2 DEF OutsStay
      <3>2. OnWire(o)
        BY <1>2, <2>2, <3>1 DEF OrderInv, WireInOrder
      <3> QED
        BY <1>3, <3>2
    <2> QED
      <3>1. \A i \in 1..Len(wire') : IsAnswer(i)' => wire'[i].v \in Sends /\ Out(wire[i].v)'
        BY <2>3
      <3> QED
        BY <2>1, <2>2, <3>1 DEF WireInOrder
  <1>5. InboxInOrder'
    <2> SUFFICES ASSUME pi'.up
                 PROVE  /\ \A i \in 1..Len(pi'.inbox) : pi'.inbox[i] \in Sends => Out(pi.inbox[i])'
                        /\ \A i \in 1..Len(pi'.inbox) : pi'.inbox[i] \in Sends =>
                              \A o \in Sends : OnWire(o)' => send'[o].gen < send'[pi'.inbox[i]].gen
                        /\ \A i, j \in 1..Len(pi'.inbox) :
                              pi'.inbox[i] \in Sends /\ pi'.inbox[j] \in Sends /\ i < j =>
                                 send'[pi'.inbox[i]].gen < send'[pi'.inbox[j]].gen
                        /\ \A o \in Sends : Out(o)' => OnWire(o)' \/ InInbox(o)'
      BY DEF InboxInOrder
    <2>1. pi.up /\ MessagesMove(e)
      OBVIOUS
    <2>2. ASSUME NEW i \in 1..Len(pi'.inbox), pi'.inbox[i] \in Sends
          PROVE  /\ i + e \in 1..Len(pi.inbox) /\ pi'.inbox[i] = pi.inbox[i + e] /\ pi.inbox[i + e] \in Sends
                 /\ Out(pi.inbox[i + e])
                 /\ \E o \in Sends : pi'.inbox[i] = o /\ Out(o)'
                 /\ send'[pi'.inbox[i]].gen = send[pi.inbox[i + e]].gen
      <3>1. i + e \in 1..Len(pi.inbox) /\ pi'.inbox[i] = pi.inbox[i + e] /\ pi.inbox[i + e] \in Sends
        BY <2>1, <2>2 DEF MessagesMove
      <3>2. Out(pi.inbox[i + e])
        BY <2>1, <3>1 DEF OrderInv, InboxInOrder
      <3>3. ASSUME NEW o \in Sends, pi.inbox[i + e] = o PROVE Out(o)' /\ send'[o].gen = send[o].gen
        BY <3>2, <3>3 DEF OutsStay
      <3> QED
        BY <3>1, <3>2, <3>3
    <2>3. ASSUME NEW i \in 1..Len(pi'.inbox), pi'.inbox[i] \in Sends, NEW o \in Sends, OnWire(o)'
          PROVE  send'[o].gen < send'[pi'.inbox[i]].gen
      <3>1. OnWire(o) /\ Out(o)
        <4>1. OnWire(o)
          BY <1>3, <2>3
        <4>2. PICK k \in 1..Len(wire) : IsAnswer(k) /\ wire[k].v = o
          BY <4>1 DEF OnWire
        <4> QED
          BY <4>1, <4>2 DEF OrderInv, WireInOrder
      <3>2. send[o].gen < send[pi.inbox[i + e]].gen
        BY <2>1, <2>2, <2>3, <3>1 DEF OrderInv, InboxInOrder
      <3>3. send'[o].gen = send[o].gen
        BY <3>1 DEF OutsStay
      <3> QED
        BY <2>2, <2>3, <3>2, <3>3
    <2>4. ASSUME NEW i \in 1..Len(pi'.inbox), NEW j \in 1..Len(pi'.inbox),
                 pi'.inbox[i] \in Sends, pi'.inbox[j] \in Sends, i < j
          PROVE  send'[pi'.inbox[i]].gen < send'[pi'.inbox[j]].gen
      <3>1. i + e < j + e
        BY <1>1, <2>4
      <3>2. send[pi.inbox[i + e]].gen < send[pi.inbox[j + e]].gen
        BY <2>1, <2>2, <2>4, <3>1 DEF OrderInv, InboxInOrder
      <3> QED
        BY <2>2, <2>4, <3>2
    <2>5. ASSUME NEW o \in Sends, Out(o)' PROVE OnWire(o)' \/ InInbox(o)'
      <3>1. OnWire(o) \/ InInbox(o)
        BY <2>1, <2>5 DEF OutsStay, OrderInv, InboxInOrder
      <3>2. ASSUME InInbox(o) PROVE InInbox(o)'
        <4>1. PICK k \in 1..Len(pi.inbox) : pi.inbox[k] = o
          BY <3>2 DEF InInbox
        <4>2. k - e \in 1..Len(pi'.inbox) /\ pi'.inbox[k - e] = o
          BY <2>1, <4>1 DEF MessagesMove
        <4> QED
          BY <4>2 DEF InInbox
      <3> QED
        BY <1>3, <3>1, <3>2
    <2> QED
      <3>1. \A i \in 1..Len(pi'.inbox) : pi'.inbox[i] \in Sends => Out(pi.inbox[i])'
        BY <2>2
      <3> QED
        BY <2>3, <2>4, <2>5, <3>1
  <1>6. TakenFirst'
    <2>1. ASSUME NEW o \in Sends, NEW q \in Sends, Taken(o)', Out(q)' PROVE send'[o].gen < send'[q].gen
      <3>1. Taken(o) /\ send'[o].gen = send[o].gen /\ Out(q) /\ send'[q].gen = send[q].gen
        BY <2>1 DEF OutsStay
      <3> QED
        BY <3>1 DEF OrderInv, TakenFirst
    <2> QED
      BY <2>1 DEF TakenFirst
  <1> QED
    BY <1>4, <1>5, <1>6 DEF OrderInv

\* The messages under way keep their generations.
LEMMA HeldKeep ==
    ASSUME OwnerInv, SendsStay, ses'.pending \subseteq ses.pending, ses'.version = ses.version,
           stopper'.at = stopper.at, stopper'.gen = stopper.gen, stopper'.wasVersion = stopper.wasVersion,
           stopper'.pc = "none" <=> stopper.pc = "none"
    PROVE  Generations' /\ PendingIsInFlight' /\ (StopIsNewest' <=> StopIsNewest)
PROOF
  <1>1. /\ \A o \in Sends : Held(o)' <=> Held(o)
        /\ \A o \in Sends : Held(o) => send'[o] = send[o]
        /\ live' = live
    BY SendsStayIs DEF SendsStay
  <1>2. StopIsNewest' <=> StopIsNewest
    BY <1>1 DEF StopIsNewest, Current
  <1>3. Generations'
    BY <1>1, <1>2 DEF OwnerInv, Generations
  <1>4. PendingIsInFlight'
    <2>1. ASSUME NEW g \in ses'.pending PROVE \E o \in Sends : InFlight(o)' /\ Here(o)' /\ send'[o].gen = g
      <3>1. PICK o \in Sends : InFlight(o) /\ Here(o) /\ send[o].gen = g
        BY <2>1 DEF OwnerInv, PendingIsInFlight
      <3>2. Held(o)
        BY <3>1 DEF Held, InFlight
      <3>3. send'[o] = send[o] /\ live' = live
        BY <1>1, <3>2
      <3> QED
        BY <3>1, <3>3 DEF InFlight, Here
    <2> QED
      BY <2>1 DEF PendingIsInFlight
  <1> QED
    BY <1>2, <1>3, <1>4

\* Nor does who owns the run change, when no generation does.
LEMMA OwnersKeep ==
    ASSUME OwnerInv, SendsStay, OwnersStay, ses'.pending \subseteq ses.pending, pi'.run => pi.run
    PROVE  OwnerInv'
PROOF
  <1>1. /\ \A o \in Sends : (Held(o)' <=> Held(o)) /\ (Confirmed(o)' <=> Confirmed(o))
        /\ \A o \in Sends : Held(o) => send'[o] = send[o]
    BY SendsStayIs
  <1>2. Generations' /\ PendingIsInFlight' /\ (StopIsNewest' <=> StopIsNewest)
    BY HeldKeep DEF OwnersStay
  <1>5. RunIsHeard'
    <2>1. ASSUME pi'.run, NEW o \in Sends, Confirmed(o)'
          PROVE  /\ ses'.version = send'[o].gen => ses'.accepted = send'[o].gen /\ ses'.stream \in {None, send'[o].gen}
                 /\ StopIsNewest' /\ stopper'.wasVersion = send'[o].gen =>
                       stopper'.wasAccepted = send'[o].gen /\ ses'.stream \in {None, send'[o].gen}
      <3>1. pi.run /\ Confirmed(o) /\ send'[o] = send[o]
        BY <1>1, <2>1 DEF Confirmed, Held
      <3> QED
        BY <1>2, <3>1 DEF OwnerInv, RunIsHeard, OwnersStay
    <2> QED
      BY <2>1 DEF RunIsHeard
  <1> QED
    BY <1>2, <1>5 DEF OwnerInv

\* What no step changes for the answers and the messages.
LEMMA NothingMoves ==
    ASSUME SessionTypes
    PROVE  /\ wire' = wire => AnswersMove(0)
           /\ pi'.inbox = pi.inbox => MessagesMove(0)
PROOF
  <1>1. Len(wire) \in Nat /\ Len(pi.inbox) \in Nat
    BY DEF SessionTypes, PiRecs
  <1>2. \A n \in Nat : \A i \in 1..n : i + 0 = i /\ i - 0 = i
    OBVIOUS
  <1>3. ASSUME wire' = wire PROVE AnswersMove(0)
    BY <1>1, <1>2, <1>3 DEF AnswersMove
  <1>4. ASSUME pi'.inbox = pi.inbox PROVE MessagesMove(0)
    BY <1>1, <1>2, <1>4 DEF MessagesMove
  <1> QED
    BY <1>3, <1>4

\* A line is read that is no answer to a message.
LEMMA HeardMoves ==
    ASSUME HeardFacts, ~IsAnswer(1)
    PROVE  AnswersMove(1)
PROOF
  <1>1. Len(wire) \in Nat /\ Len(wire') = Len(wire) - 1
        /\ \A i \in 1..Len(wire') : i + 1 \in 1..Len(wire) /\ wire'[i] = wire[i + 1]
    BY DEF HeardFacts
  <1>2. ASSUME NEW i \in 1..Len(wire), IsAnswer(i) PROVE i - 1 \in 1..Len(wire') /\ wire'[i - 1] = wire[i]
    <2>1. i # 1
      BY <1>2
    <2>2. i - 1 \in 1..Len(wire') /\ (i - 1) + 1 = i
      BY <1>1, <2>1
    <2> QED
      BY <1>1, <2>2
  <1> QED
    BY <1>1, <1>2 DEF AnswersMove

\* Pi says what is no answer to a message.
LEMMA SaidMoves ==
    ASSUME SaidFacts, \A i \in 1..Len(wire') : i \notin 1..Len(wire) => wire'[i].k \notin {"ack", "nack"}
    PROVE  AnswersMove(0)
PROOF
  <1>1. Len(wire) \in Nat /\ Len(wire') \in Nat
        /\ \A i \in 1..Len(wire) : i \in 1..Len(wire') /\ wire'[i] = wire[i]
    BY DEF SaidFacts
  <1>2. \A i \in 1..Len(wire) : i + 0 = i /\ i - 0 = i
    BY <1>1
  <1>3. \A i \in 1..Len(wire') : wire'[i].k \in {"ack", "nack"} => i \in 1..Len(wire)
    OBVIOUS
  <1> QED
    BY <1>1, <1>2, <1>3 DEF AnswersMove, IsAnswer

\* Pi has read what was no message, or nothing.
LEMMA RestMoves ==
    ASSUME NEW e \in {0, 1}, Rest(e), e = 1 => pi.inbox[1] \notin Sends
    PROVE  MessagesMove(e)
PROOF
  <1>1. /\ Len(pi.inbox) \in Nat /\ Len(pi'.inbox) = Len(pi.inbox) - e
        /\ \A i \in 1..Len(pi'.inbox) : i + e \in 1..Len(pi.inbox) /\ pi'.inbox[i] = pi.inbox[i + e]
    BY DEF Rest
  <1>2. ASSUME NEW i \in 1..Len(pi.inbox), pi.inbox[i] \in Sends
        PROVE  i - e \in 1..Len(pi'.inbox) /\ pi'.inbox[i - e] = pi.inbox[i]
    <2>1. e = 1 => i # 1
      BY <1>2
    <2>2. i - e \in 1..Len(pi'.inbox) /\ (i - e) + e = i
      BY <1>1, <2>1
    <2> QED
      BY <1>1, <2>2
  <1> QED
    BY <1>1, <1>2 DEF MessagesMove

\* Pi is asked for something that is no message.
LEMMA AskedMoves ==
    ASSUME SessionTypes, NEW what \in Inputs \ Sends, pi'.inbox = Append(pi.inbox, what)
    PROVE  MessagesMove(0)
PROOF
  <1>1. pi.inbox \in Seq(Inputs)
    BY DEF SessionTypes, PiRecs
  <1> HIDE DEF Inputs
  <1>2. /\ Len(pi.inbox) \in Nat /\ Len(pi'.inbox) = Len(pi.inbox) + 1
        /\ \A i \in 1..Len(pi.inbox) : pi'.inbox[i] = pi.inbox[i]
        /\ pi'.inbox[Len(pi.inbox) + 1] = what
    BY <1>1, LinesAre
  <1>3. ASSUME NEW i \in 1..Len(pi'.inbox), pi'.inbox[i] \in Sends
        PROVE  i + 0 \in 1..Len(pi.inbox) /\ pi'.inbox[i] = pi.inbox[i + 0]
    <2>1. i # Len(pi.inbox) + 1
      BY <1>2, <1>3
    <2>2. i \in 1..Len(pi.inbox) /\ i + 0 = i
      BY <1>2, <2>1
    <2> QED
      BY <1>2, <2>2
  <1>4. \A i \in 1..Len(pi.inbox) : i - 0 = i /\ i \in 1..Len(pi'.inbox)
    BY <1>2
  <1> QED
    BY <1>2, <1>3, <1>4 DEF MessagesMove

\* The runs on the wire, when nothing is said.
LEMMA RunKept ==
    ASSUME RunOnWire, wire' = wire, pi'.run => pi.run
    PROVE  RunOnWire'
  BY DEF RunOnWire

\* The client reads a line.
LEMMA RunHeard ==
    ASSUME RunOnWire, HeardFacts
    PROVE  RunOnWire'
PROOF
  <1>1. /\ Len(wire) \in Nat /\ Len(wire') = Len(wire) - 1 /\ pi' = pi
        /\ \A i \in 1..Len(wire') : i + 1 \in 1..Len(wire) /\ wire'[i] = wire[i + 1]
    BY DEF HeardFacts
  <1>2. ASSUME pi'.run, NEW i \in 1..Len(wire'), wire'[i].k = "settled"
        PROVE  \E j \in 1..Len(wire') : i < j /\ wire'[j].k = "start"
    <2>1. PICK j \in 1..Len(wire) : i + 1 < j /\ wire[j].k = "start"
      BY <1>1, <1>2 DEF RunOnWire
    <2>2. j - 1 \in 1..Len(wire') /\ i < j - 1 /\ (j - 1) + 1 = j
      BY <1>1, <2>1
    <2>3. wire'[j - 1] = wire[j]
      BY <1>1, <2>2
    <2> QED
      BY <2>1, <2>2, <2>3
  <1>3. ASSUME NEW i \in 1..Len(wire'), wire'[i].k = "start", 1 < i
        PROVE  wire'[i - 1].k = "ack" \/ (i < Len(wire') /\ wire'[i + 1].k = "ack")
    <2>1. i + 1 \in 1..Len(wire) /\ wire[i + 1].k = "start" /\ 1 < i + 1
      BY <1>1, <1>3
    <2>2. wire[(i + 1) - 1].k = "ack" \/ (i + 1 < Len(wire) /\ wire[(i + 1) + 1].k = "ack")
      BY <2>1 DEF RunOnWire
    <2>3. CASE wire[(i + 1) - 1].k = "ack"
      <3>1. (i + 1) - 1 = i /\ i - 1 \in 1..Len(wire') /\ (i - 1) + 1 = i
        BY <1>1, <1>3
      <3>2. wire'[i - 1] = wire[i]
        BY <1>1, <3>1
      <3> QED
        BY <2>3, <3>1, <3>2
    <2>4. CASE i + 1 < Len(wire) /\ wire[(i + 1) + 1].k = "ack"
      <3>1. i < Len(wire') /\ i + 1 \in 1..Len(wire')
        BY <1>1, <2>4
      <3> QED
        BY <1>1, <2>4, <3>1
    <2> QED
      BY <2>2, <2>3, <2>4
  <1> QED
    BY <1>2, <1>3 DEF RunOnWire

\* Pi says no start, and no end of a run unless it is not in one any more.
LEMMA RunSaid ==
    ASSUME RunOnWire, SaidFacts, pi'.run => pi.run,
           \A i \in 1..Len(wire') : i \notin 1..Len(wire) =>
               wire'[i].k # "start" /\ (pi'.run => wire'[i].k # "settled")
    PROVE  RunOnWire'
PROOF
  <1>1. /\ Len(wire) \in Nat /\ Len(wire') \in Nat /\ Len(wire) < Len(wire')
        /\ \A i \in 1..Len(wire) : i \in 1..Len(wire') /\ wire'[i] = wire[i]
    BY DEF SaidFacts
  <1>2. ASSUME pi'.run, NEW i \in 1..Len(wire'), wire'[i].k = "settled"
        PROVE  \E j \in 1..Len(wire') : i < j /\ wire'[j].k = "start"
    <2>1. i \in 1..Len(wire) /\ wire[i].k = "settled"
      BY <1>1, <1>2
    <2>2. PICK j \in 1..Len(wire) : i < j /\ wire[j].k = "start"
      BY <1>2, <2>1 DEF RunOnWire
    <2> QED
      BY <1>1, <2>2
  <1>3. ASSUME NEW i \in 1..Len(wire'), wire'[i].k = "start", 1 < i
        PROVE  wire'[i - 1].k = "ack" \/ (i < Len(wire') /\ wire'[i + 1].k = "ack")
    <2>1. i \in 1..Len(wire) /\ wire[i].k = "start"
      BY <1>1, <1>3
    <2>2. wire[i - 1].k = "ack" \/ (i < Len(wire) /\ wire[i + 1].k = "ack")
      BY <1>3, <2>1 DEF RunOnWire
    <2>3. i - 1 \in 1..Len(wire) /\ (i < Len(wire) => i + 1 \in 1..Len(wire) /\ i < Len(wire'))
      BY <1>1, <1>3, <2>1
    <2> QED
      BY <1>1, <2>2, <2>3
  <1> QED
    BY <1>2, <1>3 DEF RunOnWire

\* A step that neither ends nor begins anything.
LEMMA QuietKeeps ==
    ASSUME SessionTypes, SessionTypes', HearInv, SendsStay, OwnersStay, ses'.pending \subseteq ses.pending,
           pi'.run => pi.run, NEW d \in {0, 1}, AnswersMove(d),
           NEW e \in {0, 1}, pi'.up => pi.up /\ MessagesMove(e), RunOnWire'
    PROVE  HearInv'
PROOF
  <1>1. OutsStay /\ \A o \in Sends : Taken(o)' => Taken(o) /\ send'[o].gen = send[o].gen
    BY SendsStayIs DEF Taken, Held
  <1>2. OrderInv'
    BY <1>1, OrderKeeps DEF HearInv
  <1>3. OwnerInv'
    BY OwnersKeep DEF HearInv
  <1> QED
    BY <1>2, <1>3 DEF HearInv

\* A step of the client that neither prompts, stops nor reads.
LEMMA IdleKeeps ==
    ASSUME WorkerInv, WorkerInv', HearInv, SendsStay, UNCHANGED <<live, ses, stopper, pi, wire>>
    PROVE  HearInv'
PROOF
  <1>1. SessionTypes /\ SessionTypes'
    BY DEF WorkerInv
  <1>2. OwnersStay /\ ses'.pending \subseteq ses.pending
    BY DEF OwnersStay
  <1>3. AnswersMove(0) /\ MessagesMove(0) /\ 0 \in {0, 1}
    BY <1>1, NothingMoves
  <1>4. pi'.up => pi.up
    OBVIOUS
  <1>5. pi'.run => pi.run
    OBVIOUS
  <1>6. RunOnWire'
    BY <1>5, RunKept DEF HearInv
  <1> QED
    BY <1>1, <1>2, <1>3, <1>4, <1>5, <1>6, QuietKeeps

\* A message begins, has its session, or is too late to prompt.
LEMMA IdleSendsKeep ==
    ASSUME WorkerInv, WorkerInv', HearInv, NEW o \in Sends,
           SendLoaded(o) \/ SendBegins(o) \/ (Prompts(o) /\ ~Current(send[o].at, send[o].gen))
    PROVE  HearInv'
PROOF
  <1>1. SessionTypes /\ send \in [Sends -> SendRecs]
    BY DEF WorkerInv, SessionTypes
  <1>2. UNCHANGED <<live, ses, stopper, pi, wire>>
    BY DEF SendLoaded, SendBegins, Prompts, piVars
  <1>3. /\ send[o].pc \in {"new", "loading", "resolving"} /\ send'[o].pc \in {"loading", "resolving", "stale"}
        /\ \A q \in Sends : q # o => send'[q] = send[q]
    <2>1. CASE SendLoaded(o)
      BY <1>1, <2>1 DEF SendLoaded, SendRecs
    <2>2. CASE SendBegins(o)
      <3>1. CASE live = None
        BY <1>1, <2>2, <3>1 DEF SendBegins, SendRecs
      <3>2. CASE live # None
        BY <1>1, <2>2, <3>2 DEF SendBegins, SendRecs
      <3> QED
        BY <3>1, <3>2
    <2>3. CASE Prompts(o) /\ ~Current(send[o].at, send[o].gen)
      BY <1>1, <2>3, EndsIs DEF Prompts, SendPcs
    <2> QED
      BY <2>1, <2>2, <2>3
  <1>4. SendsStay
    BY <1>2, <1>3 DEF SendsStay, Held
  <1> QED
    BY <1>2, <1>4, IdleKeeps

\* A load, a deletion or the watchdog goes on without touching the session.
LEMMA IdleCallsKeep ==
    ASSUME WorkerInv, WorkerInv', HearInv,
           \/ LoadBegins \/ LoadFails \/ Resumed \/ StopOutlasts \/ DeleteBegins \/ RemoveFails
           \/ WatchDecides \/ WatchLeaves \/ UNCHANGED sessionVars
    PROVE  HearInv'
PROOF
  <1>1. UNCHANGED <<live, ses, stopper, pi, wire>>
    BY DEF LoadBegins, LoadFails, WaitersFail, Resumed, StopOutlasts, DeleteBegins, RemoveFails, WatchDecides,
           WatchLeaves, sessionVars, callVars, piVars
  <1>2. CASE LoadFails
    <2>1. \A o \in Sends : send'[o] = IF o \in Waiting THEN [send[o] EXCEPT !.pc = "failed"] ELSE send[o]
      BY <1>2 DEF LoadFails, WaitersFail
    <2>2. \A o \in Sends : o \in Waiting => send[o].pc = "loading" /\ send[o] \in SendRecs
      BY DEF Waiting, WorkerInv, SessionTypes
    <2>3. \A o \in Sends : o \in Waiting => send'[o].pc = "failed"
      BY <2>1, <2>2 DEF SendRecs
    <2>4. SendsStay
      BY <1>1, <2>1, <2>2, <2>3 DEF SendsStay, Held
    <2> QED
      BY <1>1, <2>4, IdleKeeps
  <1>3. CASE ~LoadFails
    <2>1. UNCHANGED send
      BY <1>3 DEF LoadBegins, Resumed, StopOutlasts, DeleteBegins, RemoveFails, WatchDecides,
                  WatchLeaves, sessionVars, callVars
    <2>2. SendsStay
      BY <1>1, <2>1 DEF SendsStay, Held
    <2> QED
      BY <1>1, <2>2, IdleKeeps
  <1> QED
    BY <1>2, <1>3

\* The time-out of a message that stops nothing.
LEMMA UnstoppedKeeps ==
    ASSUME WorkerInv, WorkerInv', HearInv, UNCHANGED <<live, ses, send, stopper, pi, wire>>
    PROVE  HearInv'
  BY IdleKeeps DEF SendsStay, Held

\* The deletion forgets the prompts.
LEMMA RemovedHears ==
    ASSUME WorkerInv, WorkerInv', HearInv, Removed
    PROVE  HearInv'
PROOF
  <1>1. SessionTypes /\ SessionTypes'
    BY DEF WorkerInv
  <1>2. /\ ses'.version = ses.version /\ ses'.accepted = ses.accepted /\ ses'.stream = ses.stream
        /\ ses'.pending \subseteq ses.pending /\ UNCHANGED <<live, send, stopper, pi, wire>>
    BY RemovedIs
  <1>3. OwnersStay /\ SendsStay
    BY <1>2 DEF OwnersStay, SendsStay
  <1>4. AnswersMove(0) /\ MessagesMove(0) /\ 0 \in {0, 1}
    BY <1>1, <1>2, NothingMoves
  <1>5. pi'.up => pi.up
    BY <1>2
  <1>6. pi'.run => pi.run
    BY <1>2
  <1>7. RunOnWire'
    BY <1>2, <1>6, RunKept DEF HearInv
  <1> QED
    BY <1>1, <1>2, <1>3, <1>4, <1>5, <1>6, <1>7, QuietKeeps

\* The watchdog asks, or leaves it.
LEMMA WatchAsksHears ==
    ASSUME WorkerInv, WorkerInv', HearInv, WatchAsks
    PROVE  HearInv'
PROOF
  <1>1. SessionTypes /\ SessionTypes' /\ pi \in PiRecs
    BY DEF WorkerInv, SessionTypes
  <1>2. UNCHANGED <<live, ses, send, stopper, wire>> /\ (pi' = pi \/ pi' = Asked("probe"))
    BY DEF WatchAsks
  <1>3. OwnersStay /\ SendsStay /\ ses'.pending \subseteq ses.pending
    BY <1>2 DEF OwnersStay, SendsStay
  <1>4. CASE pi' = pi
    BY <1>2, <1>4, UnstoppedKeeps
  <1>5. CASE pi' = Asked("probe")
    <2>1. "probe" \in Inputs \ Sends
      BY MessagesAre DEF Inputs
    <2>2. pi'.up = pi.up /\ pi'.run = pi.run /\ pi'.inbox = Append(pi.inbox, "probe")
      BY <1>1, <1>5, <2>1, AskedIs
    <2>3. AnswersMove(0) /\ 0 \in {0, 1}
      BY <1>1, <1>2, NothingMoves
    <2>4. MessagesMove(0)
      BY <1>1, <2>1, <2>2, AskedMoves
    <2>5. pi'.up => pi.up
      BY <2>2
    <2>6. pi'.run => pi.run
      BY <2>2
    <2>7. RunOnWire'
      BY <1>2, <2>6, RunKept DEF HearInv
    <2> QED
      BY <1>1, <1>3, <2>3, <2>4, <2>5, <2>6, <2>7, QuietKeeps
  <1> QED
    BY <1>2, <1>4, <1>5

\* Pi dies; what it has said is still read.
LEMMA PiDiesHears ==
    ASSUME WorkerInv, WorkerInv', HearInv, PiDies
    PROVE  HearInv'
PROOF
  <1>1. SessionTypes /\ SessionTypes'
    BY DEF WorkerInv
  <1>2. UNCHANGED <<live, ses, send, stopper, wire>> /\ ~pi'.up
    BY NoProcessIs DEF PiDies, clientVars, callVars
  <1>3. ~pi'.run
    BY NoProcessIs DEF PiDies
  <1>4. OwnersStay /\ SendsStay /\ ses'.pending \subseteq ses.pending
    BY <1>2 DEF OwnersStay, SendsStay
  <1>5. AnswersMove(0) /\ 0 \in {0, 1}
    BY <1>1, <1>2, NothingMoves
  <1>6. pi'.run => pi.run
    BY <1>3
  <1>7. RunOnWire'
    BY <1>2, <1>6, RunKept DEF HearInv
  <1>8. pi'.up => pi.up /\ MessagesMove(0)
    BY <1>2
  <1> QED
    BY <1>1, <1>4, <1>5, <1>6, <1>7, <1>8, QuietKeeps

\* Pi says something that is no answer to a message and no start.
LEMMA SaidKeeps ==
    ASSUME WorkerInv, WorkerInv', HearInv, SaidFacts, NEW e \in {0, 1}, Rest(e), e = 1 => pi.inbox[1] \notin Sends,
           pi'.run => pi.run, UNCHANGED <<live, ses, send, stopper>>,
           \A i \in 1..Len(wire') : i \notin 1..Len(wire) =>
               wire'[i].k \notin {"ack", "nack", "start"} /\ (pi'.run => wire'[i].k # "settled")
    PROVE  HearInv'
PROOF
  <1>1. SessionTypes /\ SessionTypes'
    BY DEF WorkerInv
  <1>2. OwnersStay /\ SendsStay /\ ses'.pending \subseteq ses.pending
    BY DEF OwnersStay, SendsStay
  <1>3. AnswersMove(0) /\ 0 \in {0, 1}
    BY SaidMoves
  <1>4. MessagesMove(e)
    BY RestMoves
  <1>5. pi.up
    BY DEF Rest
  <1>6. RunOnWire'
    BY RunSaid DEF HearInv
  <1> QED
    BY <1>1, <1>2, <1>3, <1>4, <1>5, <1>6, QuietKeeps

\* Pi ends its run: it says so behind all that it said before.
LEMMA PiSettlesHears ==
    ASSUME WorkerInv, WorkerInv', HearInv, PiSettles
    PROVE  HearInv'
PROOF
  <1>1. /\ SaidFacts /\ Rest(0) /\ UNCHANGED <<live, ses, send, stopper>>
        /\ \A i \in 1..Len(wire') : i \notin 1..Len(wire) => wire'[i].k \in {"close", "settled"}
    BY PiSettlesIs
  <1>2. ~pi'.run /\ pi.run
    BY PiSettlesIs
  <1>3. \A i \in 1..Len(wire') : i \notin 1..Len(wire) =>
           wire'[i].k \notin {"ack", "nack", "start"} /\ (pi'.run => wire'[i].k # "settled")
    BY <1>1, <1>2
  <1> QED
    BY <1>1, <1>2, <1>3, SaidKeeps

\* Pi opens a turn.
LEMMA PiOpensTurnHears ==
    ASSUME WorkerInv, WorkerInv', HearInv, PiOpensTurn
    PROVE  HearInv'
PROOF
  <1>1. /\ SaidFacts /\ Rest(0) /\ UNCHANGED <<live, ses, send, stopper>>
        /\ \A i \in 1..Len(wire') : i \notin 1..Len(wire) => wire'[i].k = "open"
    BY PiOpensTurnIs
  <1>2. pi'.run => pi.run
    BY PiOpensTurnIs
  <1>3. \A i \in 1..Len(wire') : i \notin 1..Len(wire) =>
           wire'[i].k \notin {"ack", "nack", "start"} /\ (pi'.run => wire'[i].k # "settled")
    BY <1>1
  <1> QED
    BY <1>1, <1>2, <1>3, SaidKeeps

\* Pi aborts its run.
LEMMA RunAbortedHears ==
    ASSUME WorkerInv, WorkerInv', HearInv, PiReads, pi.inbox[1] = "abort", RunAborts
    PROVE  HearInv'
PROOF
  <1>1. /\ SaidFacts /\ Rest(1) /\ UNCHANGED <<live, ses, send, stopper>>
        /\ \A i \in 1..Len(wire') : i \notin 1..Len(wire) => wire'[i].k \in {"aborted", "close", "settled"}
    BY RunAbortedIs
  <1>2. ~pi'.run
    BY RunAbortedIs
  <1>3. \A i \in 1..Len(wire') : i \notin 1..Len(wire) =>
           wire'[i].k \notin {"ack", "nack", "start"} /\ (pi'.run => wire'[i].k # "settled")
    BY <1>1, <1>2
  <1>4. pi.inbox[1] \notin Sends
    BY MessagesAre
  <1> QED
    BY <1>1, <1>2, <1>3, <1>4, SaidKeeps

\* Pi does not abort.
LEMMA AbortRefusedHears ==
    ASSUME WorkerInv, WorkerInv', HearInv, PiReads, pi.inbox[1] = "abort", pi' = [pi EXCEPT !.inbox = Tail(pi.inbox)],
           wire' = Append(wire, Says("abortFailed", None))
    PROVE  HearInv'
PROOF
  <1>1. /\ SaidFacts /\ Rest(1) /\ UNCHANGED <<live, ses, send, stopper>>
        /\ \A i \in 1..Len(wire') : i \notin 1..Len(wire) => wire'[i].k = "abortFailed"
    BY AbortRefusedIs
  <1>2. pi'.run => pi.run
    BY AbortRefusedIs
  <1>3. \A i \in 1..Len(wire') : i \notin 1..Len(wire) =>
           wire'[i].k \notin {"ack", "nack", "start"} /\ (pi'.run => wire'[i].k # "settled")
    BY <1>1
  <1>4. pi.inbox[1] \notin Sends
    BY MessagesAre
  <1> QED
    BY <1>1, <1>2, <1>3, <1>4, SaidKeeps

\* Pi answers whether it is busy.
LEMMA StateSaidHears ==
    ASSUME WorkerInv, WorkerInv', HearInv, PiReads, pi.inbox[1] \in {"state", "probe"},
           pi' = [pi EXCEPT !.inbox = Tail(pi.inbox)],
           NEW v \in {"idle", "busy"}, wire' = Append(wire, Says(pi.inbox[1], v))
    PROVE  HearInv'
PROOF
  <1>1. /\ SaidFacts /\ Rest(1) /\ UNCHANGED <<live, ses, send, stopper>>
        /\ \A i \in 1..Len(wire') : i \notin 1..Len(wire) => wire'[i].k \in {"state", "probe"}
    BY StateSaidIs
  <1>2. pi'.run => pi.run
    BY StateSaidIs
  <1>3. \A i \in 1..Len(wire') : i \notin 1..Len(wire) =>
           wire'[i].k \notin {"ack", "nack", "start"} /\ (pi'.run => wire'[i].k # "settled")
    BY <1>1
  <1>4. pi.inbox[1] \notin Sends
    BY MessagesAre
  <1> QED
    BY <1>1, <1>2, <1>3, <1>4, SaidKeeps

\* The client reads what changes nobody's generation.
LEMMA HeardKeeps ==
    ASSUME WorkerInv, WorkerInv', HearInv, HeardFacts, wire[1].k \notin {"ack", "nack"},
           SendsStay, OwnersStay, ses'.pending \subseteq ses.pending
    PROVE  HearInv'
PROOF
  <1>1. SessionTypes /\ SessionTypes' /\ pi' = pi
    BY DEF WorkerInv, HeardFacts
  <1>2. AnswersMove(1) /\ 1 \in {0, 1}
    BY HeardMoves DEF IsAnswer
  <1>3. MessagesMove(0) /\ 0 \in {0, 1}
    BY <1>1, NothingMoves
  <1>4. pi'.up => pi.up
    BY <1>1
  <1>5. pi'.run => pi.run
    BY <1>1
  <1>6. RunOnWire'
    BY RunHeard DEF HearInv
  <1> QED
    BY <1>1, <1>2, <1>3, <1>4, <1>5, <1>6, QuietKeeps

\* The client reads a state, or an event that takes no generation.
LEMMA OthersHear ==
    ASSUME WorkerInv, WorkerInv', HearInv, Hears,
           \/ wire[1].k \in {"state", "probe"}
           \/ wire[1].k \in {"start", "open", "close", "settled"} /\ (ses.deaf \/ wire[1].k \in {"open", "close"})
    PROVE  HearInv'
PROOF
  <1>1. HeardFacts
    BY HeardIs
  <1>2. UNCHANGED <<live, ses, send, stopper>>
    BY <1>1 DEF Hears, Answers, Events, TurnEvent, HeardFacts
  <1>3. SendsStay /\ OwnersStay /\ ses'.pending \subseteq ses.pending
    BY <1>2 DEF SendsStay, OwnersStay
  <1>4. wire[1].k \notin {"ack", "nack"}
    OBVIOUS
  <1> QED
    BY <1>1, <1>3, <1>4, HeardKeeps

\* The client reads the answer to its abort.
LEMMA StopAnsweredHears ==
    ASSUME WorkerInv, WorkerInv', HearInv, Hears, wire[1].k \in {"aborted", "abortFailed"}
    PROVE  HearInv'
PROOF
  <1>1. /\ HeardFacts /\ UNCHANGED <<live, ses, send>>
        /\ stopper.pc = "aborting" /\ stopper'.pc \in {"aborted", "abortFailed"}
        /\ stopper'.at = stopper.at /\ stopper'.gen = stopper.gen
        /\ stopper'.wasVersion = stopper.wasVersion /\ stopper'.wasAccepted = stopper.wasAccepted
    BY StopAnsweredIs
  <1>2. SendsStay /\ OwnersStay /\ ses'.pending \subseteq ses.pending
    BY <1>1 DEF SendsStay, OwnersStay
  <1>3. wire[1].k \notin {"ack", "nack"}
    OBVIOUS
  <1> QED
    BY <1>1, <1>2, <1>3, HeardKeeps

\* A generation is taken over, or given back: the session's, in which nothing is
\* sent or said.
LEMMA OwnerMoves ==
    ASSUME WorkerInv, WorkerInv', HearInv, SendsStay, ses'.pending \subseteq ses.pending, wire' = wire,
           pi'.run => pi.run, pi'.up => pi.up /\ MessagesMove(0),
           \A o \in Sends : Held(o) => send[o].gen <= ses'.version,
           \A o \in Sends : Held(o) /\ StopIsNewest' => send[o].gen <= stopper'.wasVersion,
           \A o \in Sends : pi.run /\ Confirmed(o) =>
               /\ ses'.version = send[o].gen => ses'.accepted = send[o].gen /\ ses'.stream \in {None, send[o].gen}
               /\ StopIsNewest' /\ stopper'.wasVersion = send[o].gen =>
                     stopper'.wasAccepted = send[o].gen /\ ses'.stream \in {None, send[o].gen}
    PROVE  HearInv'
PROOF
  <1>1. /\ OutsStay
        /\ \A o \in Sends : (Held(o)' <=> Held(o)) /\ (Taken(o)' <=> Taken(o)) /\ (Confirmed(o)' <=> Confirmed(o))
        /\ \A o \in Sends : Held(o) => send'[o] = send[o]
    BY SendsStayIs
  <1>2. SessionTypes /\ SessionTypes'
    BY DEF WorkerInv
  <1>3. AnswersMove(0) /\ 0 \in {0, 1}
    BY <1>2, NothingMoves
  <1>4. \A o \in Sends : Taken(o)' => Taken(o) /\ send'[o].gen = send[o].gen
    BY <1>1 DEF Taken, Held
  <1>5. OrderInv'
    BY <1>1, <1>2, <1>3, <1>4, OrderKeeps DEF HearInv
  <1>6. RunOnWire'
    BY RunKept DEF HearInv
  <1>7. Generations'
    BY <1>1 DEF HearInv, OwnerInv, Generations
  <1>8. PendingIsInFlight'
    <2>1. ASSUME NEW g \in ses'.pending PROVE \E o \in Sends : InFlight(o)' /\ Here(o)' /\ send'[o].gen = g
      <3>1. PICK o \in Sends : InFlight(o) /\ Here(o) /\ send[o].gen = g
        BY <2>1 DEF HearInv, OwnerInv, PendingIsInFlight
      <3>2. Held(o)
        BY <3>1 DEF Held, InFlight
      <3>3. send'[o] = send[o] /\ live' = live
        BY <1>1, <3>2 DEF SendsStay
      <3> QED
        BY <3>1, <3>3 DEF InFlight, Here
    <2> QED
      BY <2>1 DEF PendingIsInFlight
  <1>9. RunIsHeard'
    <2>1. ASSUME pi'.run, NEW o \in Sends, Confirmed(o)'
          PROVE  /\ ses'.version = send'[o].gen => ses'.accepted = send'[o].gen /\ ses'.stream \in {None, send'[o].gen}
                 /\ StopIsNewest' /\ stopper'.wasVersion = send'[o].gen =>
                       stopper'.wasAccepted = send'[o].gen /\ ses'.stream \in {None, send'[o].gen}
      <3>1. pi.run /\ Confirmed(o) /\ send'[o] = send[o]
        BY <1>1, <2>1 DEF Confirmed, Held
      <3> QED
        BY <3>1
    <2> QED
      BY <2>1 DEF RunIsHeard
  <1> QED
    BY <1>5, <1>6, <1>7, <1>8, <1>9 DEF HearInv, OwnerInv

\* The generations of what is under way, and the stop's.
LEMMA HeldIs ==
    ASSUME WorkerInv, HearInv
    PROVE  /\ Numbers
           /\ \A o \in Sends : Held(o) => send[o].gen \in Nat /\ 1 <= send[o].gen /\ send[o].gen <= ses.version
           /\ \A o \in Sends : Held(o) /\ StopIsNewest => send[o].gen <= stopper.wasVersion
           /\ stopper.pc # "none" /\ stopper.at = live /\ live # None => stopper.gen <= ses.version
           /\ StopIsNewest => ses.version = stopper.wasVersion + 1 /\ ses.accepted = None
PROOF
  <1>1. Numbers /\ Generations /\ StopOwns
    BY NumbersAre DEF WorkerInv, HearInv, OwnerInv
  <1>2. StopIsNewest => ses.version = stopper.wasVersion + 1 /\ ses.accepted = None
    BY <1>1 DEF StopIsNewest, Current, StopOwns
  <1> QED
    BY <1>1, <1>2 DEF Numbers, Generations, StopOwns

\* Nobody's work is the owner any more.
LEMMA DisownKeeps ==
    ASSUME WorkerInv, WorkerInv', HearInv, ses'.stream = ses.stream, ses'.pending = ses.pending,
           \/ ses'.version = ses.version /\ ses'.accepted = ses.accepted
           \/ ses'.version = ses.version + 1 /\ ses'.accepted = 0,
           UNCHANGED <<live, send, stopper, pi, wire>>
    PROVE  HearInv'
PROOF
  <1>1. SessionTypes /\ SendsStay
    BY DEF WorkerInv, SendsStay
  <1>2. CASE ses'.version = ses.version /\ ses'.accepted = ses.accepted
    <2>1. SessionTypes' /\ OwnersStay
      BY <1>2 DEF WorkerInv, OwnersStay
    <2>2. AnswersMove(0) /\ MessagesMove(0) /\ 0 \in {0, 1}
      BY <1>1, NothingMoves
    <2>3. RunOnWire'
      BY RunKept DEF HearInv
    <2> QED
      BY <1>1, <2>1, <2>2, <2>3, QuietKeeps
  <1>3. CASE ses'.version = ses.version + 1 /\ ses'.accepted = 0
    <2>1. ~StopIsNewest'
      <3>1. stopper.pc # "none" /\ stopper.at = live /\ live # None => stopper.gen \in Nat /\ stopper.gen <= ses.version
        BY HeldIs DEF Numbers
      <3>2. ses.version \in Nat
        BY HeldIs DEF Numbers
      <3> QED
        BY <1>3, <3>1, <3>2 DEF StopIsNewest, Current
    <2>2. \A o \in Sends : Held(o) => send[o].gen \in Nat /\ send[o].gen < ses'.version /\ send[o].gen <= ses'.version
      BY <1>3, HeldIs DEF Numbers
    <2>3. \A o \in Sends : Confirmed(o) => ses'.version # send[o].gen
      BY <2>2 DEF Confirmed, Held
    <2>4. MessagesMove(0)
      BY <1>1, NothingMoves
    <2> QED
      BY <1>1, <2>1, <2>2, <2>3, <2>4, OwnerMoves
  <1> QED
    BY <1>2, <1>3

\* The operator, or a message that takes too long, stops the Worker.
LEMMA StopStartsHears ==
    ASSUME WorkerInv, WorkerInv', HearInv, live # None,
           stopper'.gen = ses.version + 1, stopper'.wasVersion = ses.version, stopper'.wasAccepted = ses.accepted,
           ses'.version = ses.version + 1, ses'.stream = ses.stream, ses'.pending = ses.pending,
           pi'.up = pi.up, pi'.run = pi.run, pi'.inbox = Append(pi.inbox, "abort"), UNCHANGED <<live, send, wire>>
    PROVE  HearInv'
PROOF
  <1>1. SessionTypes /\ SendsStay
    BY DEF WorkerInv, SendsStay
  <1>2. "abort" \in Inputs \ Sends
    BY MessagesAre DEF Inputs
  <1>3. MessagesMove(0)
    BY <1>1, <1>2, AskedMoves
  <1>4. \A o \in Sends : Held(o) => send[o].gen \in Nat /\ send[o].gen <= ses.version
                                    /\ send[o].gen < ses'.version /\ send[o].gen <= ses'.version
    BY HeldIs DEF Numbers
  <1>5. ASSUME NEW o \in Sends, pi.run, Confirmed(o)
        PROVE  /\ ses'.version # send[o].gen
               /\ stopper'.wasVersion = send[o].gen =>
                     stopper'.wasAccepted = send[o].gen /\ ses'.stream \in {None, send[o].gen}
    <2>1. Held(o)
      BY <1>5 DEF Confirmed, Held
    <2>2. ses'.version # send[o].gen
      BY <1>4, <2>1
    <2>3. ses.version = send[o].gen => ses.accepted = send[o].gen /\ ses.stream \in {None, send[o].gen}
      BY <1>5 DEF HearInv, OwnerInv, RunIsHeard
    <2> QED
      BY <2>2, <2>3
  <1> QED
    BY <1>1, <1>3, <1>4, <1>5, OwnerMoves

\* The operator stops the Worker, or the caller of a message that takes too long.
LEMMA StopBeginsHears ==
    ASSUME WorkerInv, WorkerInv', HearInv, StopBegins \/ \E o \in Sends : SendTimesOut(o)
    PROVE  HearInv'
PROOF
  <1>1. CASE StopBegins
    BY <1>1, StopBeginsIs, StopStartsHears
  <1>2. ASSUME NEW o \in Sends, SendTimesOut(o) PROVE HearInv'
    <2>1. CASE \E bounded \in BOOLEAN : StopStarts(bounded)
      BY <1>2, <2>1, TimeOutStopsIs, StopStartsHears
    <2>2. CASE ~ \E bounded \in BOOLEAN : StopStarts(bounded)
      <3>1. UNCHANGED <<live, ses, send, stopper, pi, wire>>
        BY <1>2, <2>2 DEF SendTimesOut
      <3> QED
        BY <3>1, UnstoppedKeeps
    <2> QED
      BY <2>1, <2>2
  <1> QED
    BY <1>1, <1>2

\* The stop is over: what it had taken is given back, or nobody's.
LEMMA StopEndsHears ==
    ASSUME WorkerInv, WorkerInv', HearInv, StopDone \/ StopFails
    PROVE  HearInv'
PROOF
  <1>1. SessionTypes
    BY DEF WorkerInv
  <1>2. /\ stopper'.pc = "none" /\ ses'.pending \subseteq ses.pending /\ UNCHANGED <<live, send, pi, wire>>
        /\ ses'.stream \in {0, ses.stream}
        /\ \/ ses'.version = ses.version /\ ses'.accepted = ses.accepted
           \/ /\ StopIsNewest
              /\ ses'.version = stopper.wasVersion /\ ses'.accepted = stopper.wasAccepted
    <2>1. CASE StopDone
      BY <2>1, StopDoneIs
    <2>2. CASE StopFails
      <3>1. /\ stopper'.pc = "none" /\ ses'.pending = ses.pending /\ ses'.stream = ses.stream
            /\ UNCHANGED <<live, send, pi, wire>> /\ stopper.pc # "none"
        BY <2>2, StopFailsIs
      <3>2. \/ ses'.version = ses.version /\ ses'.accepted = ses.accepted
            \/ /\ stopper.at = live /\ live # None /\ ses.version = stopper.gen
               /\ ses'.version = stopper.wasVersion /\ ses'.accepted = stopper.wasAccepted
        BY <2>2, StopFailsIs
      <3> QED
        BY <3>1, <3>2 DEF StopIsNewest, Current
    <2> QED
      BY <2>1, <2>2
  <1>3. SendsStay /\ ~StopIsNewest'
    BY <1>2 DEF SendsStay, StopIsNewest
  <1>4. MessagesMove(0)
    BY <1>1, <1>2, NothingMoves
  <1>5. \A o \in Sends : Held(o) => send[o].gen <= ses'.version
    BY <1>2, HeldIs
  <1>6. ASSUME NEW o \in Sends, pi.run, Confirmed(o), ses'.version = send[o].gen
        PROVE  ses'.accepted = send[o].gen /\ ses'.stream \in {None, send[o].gen}
    <2>1. /\ ses.version = send[o].gen => ses.accepted = send[o].gen /\ ses.stream \in {None, send[o].gen}
          /\ StopIsNewest /\ stopper.wasVersion = send[o].gen =>
                stopper.wasAccepted = send[o].gen /\ ses.stream \in {None, send[o].gen}
      BY <1>6 DEF HearInv, OwnerInv, RunIsHeard
    <2> QED
      BY <1>2, <1>6, <2>1 DEF None
  <1>7. pi'.up => pi.up
    BY <1>2
  <1>8. pi'.run => pi.run
    BY <1>2
  <1> QED
    BY <1>2, <1>3, <1>4, <1>5, <1>6, <1>7, <1>8, OwnerMoves

\* A session is gone, or a new one is there: nobody has prompted it.
LEMMA NobodyHears ==
    ASSUME SessionTypes', \A o \in Sends : ~Held(o)', wire' = <<>>, ses'.pending = {},
           pi'.up => pi'.inbox = <<"state">>
    PROVE  HearInv'
PROOF
  <1>1. \A o \in Sends : ~Out(o)' /\ ~Taken(o)' /\ ~Confirmed(o)'
    BY DEF Held, Out, Taken, Confirmed
  <1>2. Len(wire') = 0
    OBVIOUS
  <1>3. WireInOrder' /\ RunOnWire'
    BY <1>2 DEF WireInOrder, RunOnWire
  <1>4. InboxInOrder'
    <2>1. pi'.up => \A i \in 1..Len(pi'.inbox) : pi'.inbox[i] = "state" /\ pi'.inbox[i] \notin Sends
      BY MessagesAre
    <2> QED
      BY <1>1, <2>1 DEF InboxInOrder
  <1>5. TakenFirst'
    BY <1>1 DEF TakenFirst
  <1>6. Generations' /\ PendingIsInFlight' /\ RunIsHeard'
    BY <1>1 DEF Generations, PendingIsInFlight, RunIsHeard
  <1> QED
    BY <1>3, <1>4, <1>5, <1>6 DEF HearInv, OrderInv, OwnerInv

\* A session is made.
LEMMA SessionMadeHears ==
    ASSUME WorkerInv, WorkerInv', SessionMade
    PROVE  HearInv' /\ \A o \in Sends : ~Held(o)'
PROOF
  <1>1. SessionTypes' /\ Numbers /\ \A o \in Sends : send[o].at <= made
    BY NumbersAre DEF WorkerInv, Versions
  <1>2. live' = made + 1 /\ wire' = <<>> /\ ses' = NoSession /\ UNCHANGED send
        /\ pi' = [NoProcess EXCEPT !.up = TRUE, !.inbox = <<"state">>]
    BY DEF SessionMade, callVars
  <1>3. ses'.pending = {} /\ pi'.inbox = <<"state">>
    BY <1>2, NoProcessIs DEF NoSession
  <1>4. \A o \in Sends : send'[o].at # live'
    BY <1>1, <1>2 DEF Numbers
  <1>5. \A o \in Sends : ~Held(o)'
    BY <1>4 DEF Held, Here
  <1> QED
    BY <1>1, <1>2, <1>3, <1>5, NobodyHears

\* A session ends with its deletion or with its process.
LEMMA SessionGoneHears ==
    ASSUME WorkerInv, WorkerInv', SessionStopped \/ TransportClosed
    PROVE  HearInv' /\ \A o \in Sends : ~Held(o)'
PROOF
  <1>1. SessionTypes'
    BY DEF WorkerInv
  <1>2. live' = None /\ wire' = <<>> /\ ses' = NoSession /\ pi' = NoProcess
    BY DEF SessionStopped, TransportClosed, SessionGone
  <1>3. ses'.pending = {} /\ ~pi'.up
    BY <1>2, NoProcessIs DEF NoSession
  <1>4. \A o \in Sends : ~Held(o)'
    BY <1>2 DEF Held, Here
  <1> QED
    BY <1>1, <1>2, <1>3, <1>4, NobodyHears

\* A prompt whose process is gone is given up.
LEMMA UnansweredHears ==
    ASSUME WorkerInv, WorkerInv', HearInv, NEW o \in Sends, Unanswered(o)
    PROVE  HearInv'
PROOF
  <1>1. SessionTypes /\ SessionTypes' /\ send[o] \in SendRecs /\ send \in [Sends -> SendRecs]
    BY DEF WorkerInv, SessionTypes
  <1>2. /\ send[o].pc = "prompting" /\ (send[o].at # live \/ (~pi.up /\ wire = <<>>))
        /\ send' = [send EXCEPT ![o].pc = "nacked"] /\ UNCHANGED <<live, ses, stopper, pi, wire>>
    BY DEF Unanswered, piVars
  <1>3. /\ send'[o].pc = "nacked" /\ send'[o].at = send[o].at /\ send'[o].gen = send[o].gen
        /\ \A q \in Sends : q # o => send'[q] = send[q]
    BY <1>1, <1>2 DEF SendRecs
  <1>4. CASE ~Here(o)
    <2>1. ~Held(o) /\ ~Held(o)'
      BY <1>2, <1>3, <1>4 DEF Held, Here
    <2>2. SendsStay
      BY <1>2, <1>3, <2>1 DEF SendsStay
    <2> QED
      BY <1>2, <2>2, IdleKeeps
  <1>5. CASE Here(o)
    <2>1. ~pi.up /\ wire = <<>> /\ ~pi'.up /\ wire' = <<>>
      BY <1>2, <1>5 DEF Here
    <2>2. ~pi'.run /\ Len(wire') = 0
      BY <2>1 DEF WorkerInv, NothingWithoutSession
    <2>3. \A q \in Sends : Held(q) /\ q # o => Held(q)' /\ send'[q] = send[q]
      BY <1>2, <1>3 DEF Held, Here
    <2>4. Held(o) /\ Held(o)' /\ InFlight(o) /\ InFlight(o)'
      BY <1>2, <1>3, <1>5 DEF Held, Here, InFlight
    <2>5. \A q \in Sends : Held(q)' => Held(q) /\ send'[q].gen = send[q].gen
      BY <1>2, <1>3, <2>4 DEF Held, Here
    <2>6. StopIsNewest' <=> StopIsNewest
      BY <1>2 DEF StopIsNewest, Current
    <2>7. Generations'
      BY <1>2, <2>5, <2>6 DEF HearInv, OwnerInv, Generations
    <2>8. PendingIsInFlight'
      <3>1. ASSUME NEW g \in ses'.pending PROVE \E q \in Sends : InFlight(q)' /\ Here(q)' /\ send'[q].gen = g
        <4>1. PICK q \in Sends : InFlight(q) /\ Here(q) /\ send[q].gen = g
          BY <1>2, <3>1 DEF HearInv, OwnerInv, PendingIsInFlight
        <4>2. InFlight(q)' /\ Here(q)' /\ send'[q].gen = g
          BY <1>2, <1>3, <2>4, <4>1 DEF InFlight, Here
        <4> QED
          BY <4>2
      <3> QED
        BY <3>1 DEF PendingIsInFlight
    <2>9. RunIsHeard' /\ RunOnWire' /\ WireInOrder' /\ InboxInOrder'
      BY <2>1, <2>2 DEF RunIsHeard, RunOnWire, WireInOrder, InboxInOrder
    <2>10. TakenFirst'
      <3>1. \A q \in Sends : Taken(q)' => Taken(q) /\ send'[q].gen = send[q].gen
        BY <1>2, <1>3 DEF Taken, Here
      <3>2. \A q \in Sends : Out(q)' => Out(q) /\ send'[q].gen = send[q].gen
        BY <1>2, <1>3 DEF Out, Here
      <3> QED
        BY <3>1, <3>2 DEF HearInv, OrderInv, TakenFirst
    <2> QED
      BY <2>7, <2>8, <2>9, <2>10 DEF HearInv, OrderInv, OwnerInv
  <1> QED
    BY <1>4, <1>5

\* A message comes to its end: the session speaks for it, when nothing came between.
LEMMA MessageEndsHears ==
    ASSUME WorkerInv, WorkerInv', HearInv, NEW o \in Sends, MessageEnds(o),
           send[o].pc \in {"acked", "nacked"}
    PROVE  HearInv'
PROOF
  <1>1. SessionTypes /\ SessionTypes'
    BY DEF WorkerInv
  <1>2. /\ send'[o].pc \in {"accepted", "uncertain", "refused"}
        /\ send'[o].at = send[o].at /\ send'[o].gen = send[o].gen
        /\ \A q \in Sends : q # o => send'[q] = send[q]
        /\ ses'.pending \subseteq ses.pending /\ (Here(o) => ses'.pending = ses.pending \ {send[o].gen})
        /\ UNCHANGED <<live, stopper, pi, wire>>
    BY DEF MessageEnds, Here
  <1>3. \/ /\ ses'.version = ses.version /\ ses'.accepted = ses.accepted /\ ses'.stream = ses.stream
           /\ send'[o].pc = "uncertain"
        \/ /\ ses'.version = ses.version /\ ses'.accepted = ses.version /\ ses'.stream = ses.version
           /\ Here(o) /\ send[o].gen = ses.version /\ send[o].pc = "acked" /\ send'[o].pc = "accepted"
        \/ /\ ses'.version = ses.version + 1 /\ send'[o].pc = "refused"
    BY DEF MessageEnds, Here
  <1>4. \A q \in Sends : /\ Held(q)' => Held(q) /\ send'[q].gen = send[q].gen
                         /\ Held(q) /\ q # o => Held(q)' /\ send'[q] = send[q]
                         /\ Confirmed(q)' => Held(q) /\ (q # o => Confirmed(q))
    BY <1>2 DEF Held, Confirmed, Here
  <1>5. OutsStay
    BY <1>2 DEF OutsStay, Out, Here
  <1>6. \A q \in Sends : Taken(q)' => Taken(q) /\ send'[q].gen = send[q].gen
    BY <1>2, <1>3 DEF Taken, Here
  <1>7. AnswersMove(0) /\ MessagesMove(0) /\ 0 \in {0, 1} /\ (pi'.up => pi.up) /\ (pi'.run => pi.run)
    BY <1>1, <1>2, NothingMoves
  <1>8. OrderInv'
    BY <1>1, <1>5, <1>6, <1>7, OrderKeeps DEF HearInv
  <1>9. RunOnWire'
    BY <1>2, <1>7, RunKept DEF HearInv
  <1>10. PendingIsInFlight'
    <2>1. ASSUME NEW g \in ses'.pending PROVE \E q \in Sends : InFlight(q)' /\ Here(q)' /\ send'[q].gen = g
      <3>1. PICK q \in Sends : InFlight(q) /\ Here(q) /\ send[q].gen = g
        BY <1>2, <2>1 DEF HearInv, OwnerInv, PendingIsInFlight
      <3>2. q # o
        BY <1>2, <2>1, <3>1
      <3>3. send'[q] = send[q] /\ live' = live
        BY <1>2, <3>2
      <3> QED
        BY <3>1, <3>3 DEF InFlight, Here
    <2> QED
      BY <2>1 DEF PendingIsInFlight
  <1>11. /\ \A q \in Sends : Held(q) => send[q].gen \in Nat /\ send[q].gen <= ses.version
         /\ ses.version \in Nat
         /\ \A q \in Sends : Held(q) /\ StopIsNewest => send[q].gen <= stopper.wasVersion
         /\ stopper.pc # "none" /\ stopper.at = live /\ live # None => stopper.gen \in Nat /\ stopper.gen <= ses.version
         /\ StopIsNewest => ses.version = stopper.wasVersion + 1 /\ stopper.wasVersion \in Nat
    BY HeldIs DEF Numbers
  <1>12. StopIsNewest' => StopIsNewest /\ ses'.version = ses.version
    <2>1. ses'.version = ses.version \/ ses'.version = ses.version + 1
      BY <1>3
    <2>2. CASE ses'.version = ses.version
      BY <1>2, <2>2 DEF StopIsNewest, Current
    <2>3. CASE ses'.version = ses.version + 1
      BY <1>2, <1>11, <2>3 DEF StopIsNewest, Current
    <2> QED
      BY <2>1, <2>2, <2>3
  <1>13. Generations'
    <2>1. \A q \in Sends : Held(q)' => 1 <= send'[q].gen /\ send'[q].gen <= ses'.version
      BY <1>3, <1>4, <1>11 DEF HearInv, OwnerInv, Generations
    <2>2. \A q \in Sends : Held(q)' /\ StopIsNewest' => send'[q].gen <= stopper'.wasVersion
      BY <1>2, <1>4, <1>11, <1>12
    <2>3. \A p, q \in Sends : Held(p)' /\ Held(q)' /\ send'[p].gen = send'[q].gen => p = q
      BY <1>4 DEF HearInv, OwnerInv, Generations
    <2> QED
      BY <2>1, <2>2, <2>3 DEF Generations
  <1>14. RunIsHeard'
    <2>1. ASSUME pi'.run, NEW q \in Sends, Confirmed(q)'
          PROVE  /\ ses'.version = send'[q].gen => ses'.accepted = send'[q].gen /\ ses'.stream \in {None, send'[q].gen}
                 /\ StopIsNewest' /\ stopper'.wasVersion = send'[q].gen =>
                       stopper'.wasAccepted = send'[q].gen /\ ses'.stream \in {None, send'[q].gen}
      <3>1. Held(q) /\ send'[q].gen = send[q].gen /\ (q # o => Confirmed(q)) /\ (Held(o)' => Held(o))
        <4>1. Held(q)'
          BY <2>1 DEF Confirmed, Held
        <4> QED
          BY <1>4, <2>1, <4>1
      <3>2. CASE /\ ses'.version = ses.version /\ ses'.accepted = ses.accepted /\ ses'.stream = ses.stream
                 /\ send'[o].pc = "uncertain"
        <4>1. q # o
          BY <2>1, <3>2 DEF Confirmed
        <4>2. /\ ses.version = send[q].gen => ses.accepted = send[q].gen /\ ses.stream \in {None, send[q].gen}
              /\ StopIsNewest /\ stopper.wasVersion = send[q].gen =>
                    stopper.wasAccepted = send[q].gen /\ ses.stream \in {None, send[q].gen}
          BY <1>2, <2>1, <3>1, <4>1 DEF HearInv, OwnerInv, RunIsHeard
        <4> QED
          BY <1>2, <1>12, <3>1, <3>2, <4>2
      <3>3. CASE /\ ses'.version = ses.version /\ ses'.accepted = ses.version /\ ses'.stream = ses.version
                 /\ Here(o) /\ send[o].gen = ses.version /\ send[o].pc = "acked"
        <4>1. Held(o)
          BY <3>3 DEF Held
        <4>2. ~StopIsNewest
          BY <1>11, <3>3, <4>1
        <4> QED
          BY <1>12, <3>1, <3>3, <4>2
      <3>4. CASE ses'.version = ses.version + 1
        <4>1. ~StopIsNewest'
          BY <1>11, <1>12, <3>4
        <4>2. ses'.version # send[q].gen
          BY <1>11, <3>1, <3>4
        <4> QED
          BY <3>1, <4>1, <4>2
      <3> QED
        BY <1>3, <3>2, <3>3, <3>4
    <2> QED
      BY <2>1 DEF RunIsHeard
  <1> QED
    BY <1>8, <1>9, <1>10, <1>13, <1>14 DEF HearInv, OwnerInv

\* A prompt goes out: it is the newest, and the last that Pi is sent.
LEMMA PromptsHears ==
    ASSUME WorkerInv, WorkerInv', HearInv, NEW o \in Sends, Prompts(o), Current(send[o].at, send[o].gen)
    PROVE  HearInv'
PROOF
  <1> DEFINE n == ses.version + 1
  <1>1. /\ send'[o].pc = "prompting" /\ send'[o].at = live /\ send'[o].gen = n /\ live # None
        /\ \A q \in Sends : q # o => send'[q] = send[q]
        /\ ses'.version = n /\ ses'.pending = ses.pending \cup {n} /\ pi'.up = pi.up /\ pi'.run = pi.run
        /\ pi'.inbox = Append(pi.inbox, o) /\ UNCHANGED <<live, stopper, wire>>
    BY PromptsIs
  <1>2. send[o].pc = "resolving" /\ SessionTypes /\ pi.inbox \in Seq(Inputs) /\ o \in Inputs
    BY DEF Prompts, WorkerInv, SessionTypes, PiRecs, Inputs
  <1>3. /\ n \in Nat /\ \A q \in Sends : Held(q) => send[q].gen \in Nat /\ 1 <= send[q].gen /\ send[q].gen < n
        /\ 1 <= n /\ Len(wire) \in Nat
        /\ stopper.pc # "none" /\ stopper.at = live /\ live # None => stopper.gen \in Nat /\ stopper.gen < n
    <2>1. Len(wire) \in Nat
      BY <1>2 DEF SessionTypes
    <2>2. /\ ses.version \in Nat /\ stopper.gen \in Nat
          /\ \A q \in Sends : Held(q) => send[q].gen \in Nat /\ 1 <= send[q].gen /\ send[q].gen <= ses.version
          /\ stopper.pc # "none" /\ stopper.at = live /\ live # None => stopper.gen <= ses.version
      BY HeldIs DEF Numbers
    <2>3. n \in Nat /\ 1 <= n /\ \A g \in Nat : g <= ses.version => g < n
      BY <2>2
    <2> QED
      BY <2>1, <2>2, <2>3
  <1> HIDE DEF n
  <1>4. ~Held(o) /\ ~Out(o) /\ ~Taken(o) /\ ~Confirmed(o) /\ Held(o)' /\ Out(o)' /\ ~Taken(o)' /\ ~Confirmed(o)'
    BY <1>1, <1>2 DEF Held, Out, Taken, Confirmed, Here
  <1>5. \A q \in Sends : q # o =>
           /\ (Held(q)' <=> Held(q)) /\ (Out(q)' <=> Out(q)) /\ (Taken(q)' <=> Taken(q))
           /\ (Confirmed(q)' <=> Confirmed(q)) /\ send'[q] = send[q]
    BY <1>1 DEF Held, Out, Taken, Confirmed, Here
  <1>6. \A q \in Sends : (Out(q) => Held(q)) /\ (Taken(q) => Held(q)) /\ (Confirmed(q) => Held(q))
    BY DEF Held, Out, Taken, Confirmed
  <1>7. ~StopIsNewest'
    BY <1>1, <1>3 DEF StopIsNewest, Current
  <1>8. Generations'
    <2>1. \A q \in Sends : Held(q)' => 1 <= send'[q].gen /\ send'[q].gen <= ses'.version
      BY <1>1, <1>3, <1>5
    <2>2. \A p, q \in Sends : Held(p)' /\ Held(q)' /\ send'[p].gen = send'[q].gen => p = q
      <3>1. ASSUME NEW p \in Sends, NEW q \in Sends, Held(p)', Held(q)', send'[p].gen = send'[q].gen, p # q
            PROVE  FALSE
        <4>1. CASE p # o /\ q # o
          BY <1>5, <3>1, <4>1 DEF HearInv, OwnerInv, Generations
        <4>2. CASE p = o
          BY <1>1, <1>3, <1>5, <3>1, <4>2
        <4>3. CASE q = o
          BY <1>1, <1>3, <1>5, <3>1, <4>3
        <4> QED
          BY <4>1, <4>2, <4>3
      <3> QED
        BY <3>1
    <2> QED
      BY <1>7, <2>1, <2>2 DEF Generations
  <1>9. PendingIsInFlight'
    <2>1. ASSUME NEW g \in ses'.pending PROVE \E q \in Sends : InFlight(q)' /\ Here(q)' /\ send'[q].gen = g
      <3>1. CASE g = n
        BY <1>1, <3>1 DEF InFlight, Here
      <3>2. CASE g \in ses.pending
        <4>1. PICK q \in Sends : InFlight(q) /\ Here(q) /\ send[q].gen = g
          BY <3>2 DEF HearInv, OwnerInv, PendingIsInFlight
        <4>2. q # o
          BY <1>2, <4>1 DEF InFlight
        <4>3. send'[q] = send[q] /\ live' = live
          BY <1>1, <4>2
        <4> QED
          BY <4>1, <4>3 DEF InFlight, Here
      <3> QED
        BY <1>1, <2>1, <3>1, <3>2
    <2> QED
      BY <2>1 DEF PendingIsInFlight
  <1>10. RunIsHeard'
    <2>1. \A q \in Sends : Confirmed(q)' => ses'.version # send'[q].gen
      <3>1. ASSUME NEW q \in Sends, Confirmed(q)' PROVE ses'.version # send'[q].gen
        <4>1. q # o /\ Held(q) /\ send'[q] = send[q]
          BY <1>4, <1>5, <1>6, <3>1
        <4> QED
          BY <1>1, <1>3, <4>1
      <3> QED
        BY <3>1
    <2> QED
      BY <1>7, <2>1 DEF RunIsHeard
  <1>11. RunOnWire'
    BY <1>1, RunKept DEF HearInv
  <1>12. \A q \in Sends : (OnWire(q)' <=> OnWire(q)) /\ (OnWire(q) => Out(q) /\ q # o)
    <2>1. ASSUME NEW q \in Sends, OnWire(q) PROVE Out(q) /\ q # o
      <3>1. PICK i \in 1..Len(wire) : IsAnswer(i) /\ wire[i].v = q
        BY <2>1 DEF OnWire
      <3> QED
        BY <1>4, <3>1 DEF HearInv, OrderInv, WireInOrder
    <2>2. \A q \in Sends : OnWire(q)' <=> OnWire(q)
      BY <1>1 DEF OnWire, IsAnswer
    <2> QED
      BY <2>1, <2>2
  <1>13. WireInOrder'
    <2>1. ASSUME NEW i \in 1..Len(wire), IsAnswer(i)
          PROVE  wire[i].v \in Sends /\ Out(wire[i].v) /\ wire[i].v # o
      BY <1>4, <2>1 DEF HearInv, OrderInv, WireInOrder
    <2>2. ASSUME NEW i \in 1..Len(wire), IsAnswer(i), NEW q \in Sends, wire[i].v = q PROVE Out(q)'
      BY <1>5, <2>1, <2>2
    <2>3. ASSUME NEW i \in 1..Len(wire), NEW j \in 1..Len(wire), IsAnswer(i), IsAnswer(j), i < j
          PROVE  send'[wire[i].v].gen < send'[wire[j].v].gen
      <3>1. send[wire[i].v].gen < send[wire[j].v].gen
        BY <2>3 DEF HearInv, OrderInv, WireInOrder
      <3> QED
        BY <1>5, <2>1, <2>3, <3>1
    <2>4. ASSUME NEW i \in 1..Len(wire), IsAnswer(i), NEW q \in Sends, Out(q)', send'[q].gen < send'[wire[i].v].gen
          PROVE  OnWire(q)'
      <3>1. wire[i].v \in Sends /\ Held(wire[i].v) /\ send'[wire[i].v] = send[wire[i].v]
        BY <1>5, <1>6, <2>1, <2>4
      <3>2. q # o
        <4>1. send[wire[i].v].gen \in Nat /\ send[wire[i].v].gen < n
          BY <1>3, <3>1
        <4>2. ~(n < send[wire[i].v].gen)
          BY <1>3, <4>1
        <4> QED
          BY <1>1, <2>4, <3>1, <4>2
      <3>3. Out(q) /\ send[q].gen < send[wire[i].v].gen
        BY <1>5, <2>4, <3>1, <3>2
      <3>4. OnWire(q)
        BY <2>4, <3>3 DEF HearInv, OrderInv, WireInOrder
      <3> QED
        BY <1>12, <3>4
    <2> QED
      <3>1. wire' = wire
        BY <1>1
      <3>2. \A i \in 1..Len(wire) : IsAnswer(i)' <=> IsAnswer(i)
        BY <3>1 DEF IsAnswer
      <3>3. \A i \in 1..Len(wire) : IsAnswer(i) => wire[i].v \in Sends /\ \E q \in Sends : wire[i].v = q /\ Out(q)'
        BY <2>1, <2>2
      <3>4. \A i \in 1..Len(wire') : IsAnswer(i)' => wire'[i].v \in Sends /\ Out(wire[i].v)'
        BY <3>1, <3>2, <3>3
      <3> QED
        BY <2>3, <2>4, <3>1, <3>2, <3>4 DEF WireInOrder
  <1>14. InboxInOrder'
    <2> SUFFICES ASSUME pi'.up
                 PROVE  /\ \A i \in 1..Len(pi'.inbox) : pi'.inbox[i] \in Sends => Out(pi.inbox[i])'
                        /\ \A i \in 1..Len(pi'.inbox) : pi'.inbox[i] \in Sends =>
                              \A q \in Sends : OnWire(q)' => send'[q].gen < send'[pi'.inbox[i]].gen
                        /\ \A i, j \in 1..Len(pi'.inbox) :
                              pi'.inbox[i] \in Sends /\ pi'.inbox[j] \in Sends /\ i < j =>
                                 send'[pi'.inbox[i]].gen < send'[pi'.inbox[j]].gen
                        /\ \A q \in Sends : Out(q)' => OnWire(q)' \/ InInbox(q)'
      BY DEF InboxInOrder
    <2>1. pi.up
      BY <1>1
    <2> DEFINE m == Len(pi.inbox)
    <2> HIDE DEF Inputs
    <2>2. /\ m \in Nat /\ Len(pi'.inbox) = m + 1 /\ pi'.inbox[m + 1] = o
          /\ \A i \in 1..m : pi'.inbox[i] = pi.inbox[i] /\ i \in 1..Len(pi'.inbox)
          /\ \A i \in 1..Len(pi'.inbox) : i \in 1..m \/ i = m + 1
      <3>1. /\ m \in Nat /\ Len(pi'.inbox) = m + 1 /\ pi'.inbox[m + 1] = o
            /\ \A i \in 1..m : pi'.inbox[i] = pi.inbox[i]
        BY <1>1, <1>2, LinesAre
      <3> QED
        BY <3>1
    <2>3. ASSUME NEW i \in 1..m, pi.inbox[i] \in Sends
          PROVE  /\ Out(pi.inbox[i]) /\ pi.inbox[i] # o /\ send'[pi.inbox[i]] = send[pi.inbox[i]]
                 /\ send[pi.inbox[i]].gen < n
      <3>1. Out(pi.inbox[i])
        BY <2>1, <2>3 DEF HearInv, OrderInv, InboxInOrder
      <3> QED
        BY <1>3, <1>4, <1>5, <1>6, <2>3, <3>1
    <2>4. ASSUME NEW i \in 1..Len(pi'.inbox), pi'.inbox[i] \in Sends
          PROVE  \E q \in Sends : pi'.inbox[i] = q /\ Out(q)'
      BY <1>4, <1>5, <2>2, <2>3, <2>4
    <2>5. ASSUME NEW i \in 1..Len(pi'.inbox), pi'.inbox[i] \in Sends, NEW q \in Sends, OnWire(q)'
          PROVE  send'[q].gen < send'[pi'.inbox[i]].gen
      <3>1. Out(q) /\ OnWire(q) /\ send'[q] = send[q] /\ send[q].gen < n
        BY <1>3, <1>5, <1>6, <1>12, <2>5
      <3>2. CASE i = m + 1
        BY <1>1, <2>2, <3>1, <3>2
      <3>3. CASE i \in 1..m
        <4>1. send[q].gen < send[pi.inbox[i]].gen
          BY <2>1, <2>2, <2>5, <3>1, <3>3 DEF HearInv, OrderInv, InboxInOrder
        <4> QED
          BY <2>2, <2>3, <2>5, <3>1, <3>3, <4>1
      <3> QED
        BY <2>2, <3>2, <3>3
    <2>6. ASSUME NEW i \in 1..Len(pi'.inbox), NEW j \in 1..Len(pi'.inbox),
                 pi'.inbox[i] \in Sends, pi'.inbox[j] \in Sends, i < j
          PROVE  send'[pi'.inbox[i]].gen < send'[pi'.inbox[j]].gen
      <3>1. i \in 1..m
        BY <2>2, <2>6
      <3>2. CASE j = m + 1
        BY <1>1, <2>2, <2>3, <2>6, <3>1, <3>2
      <3>3. CASE j \in 1..m
        <4>1. send[pi.inbox[i]].gen < send[pi.inbox[j]].gen
          BY <2>1, <2>2, <2>6, <3>1, <3>3 DEF HearInv, OrderInv, InboxInOrder
        <4> QED
          BY <2>2, <2>3, <2>6, <3>1, <3>3, <4>1
      <3> QED
        BY <2>2, <3>2, <3>3
    <2>7. ASSUME NEW q \in Sends, Out(q)' PROVE OnWire(q)' \/ InInbox(q)'
      <3>1. CASE q = o
        BY <2>2, <3>1 DEF InInbox
      <3>2. CASE q # o
        <4>1. OnWire(q) \/ InInbox(q)
          BY <1>5, <2>1, <2>7, <3>2 DEF HearInv, OrderInv, InboxInOrder
        <4>2. InInbox(q) => InInbox(q)'
          BY <2>2 DEF InInbox
        <4> QED
          BY <1>12, <4>1, <4>2
      <3> QED
        BY <3>1, <3>2
    <2> QED
      <3>1. \A i \in 1..Len(pi'.inbox) : pi'.inbox[i] \in Sends => Out(pi.inbox[i])'
        BY <2>4
      <3> QED
        BY <2>5, <2>6, <2>7, <3>1
  <1>15. TakenFirst'
    <2>1. ASSUME NEW p \in Sends, NEW q \in Sends, Taken(p)', Out(q)' PROVE send'[p].gen < send'[q].gen
      <3>1. p # o /\ Taken(p) /\ send'[p] = send[p] /\ send[p].gen < n
        BY <1>3, <1>4, <1>5, <1>6, <2>1
      <3>2. CASE q = o
        BY <1>1, <3>1, <3>2
      <3>3. CASE q # o
        BY <1>5, <2>1, <3>1, <3>3 DEF HearInv, OrderInv, TakenFirst
      <3> QED
        BY <3>2, <3>3
    <2> QED
      BY <2>1 DEF TakenFirst
  <1> QED
    BY <1>8, <1>9, <1>10, <1>11, <1>13, <1>14, <1>15 DEF HearInv, OrderInv, OwnerInv

\* The answer to a message is read.
LEMMA AnswerIs ==
    ASSUME WorkerInv, HearInv, Hears, wire[1].k \in {"ack", "nack"}
    PROVE  \E o \in Sends :
              /\ 1 \in 1..Len(wire) /\ IsAnswer(1) /\ wire[1].v = o /\ Out(o)
              /\ send'[o].pc \in {"acked", "nacked"} /\ \A q \in Sends : q # o => send'[q] = send[q]
              /\ \A q \in Sends : send'[q].at = send[q].at /\ send'[q].gen = send[q].gen
PROOF
  <1>1. HeardFacts /\ \A q \in Sends : send'[q].at = send[q].at /\ send'[q].gen = send[q].gen
    BY PromptAnsweredIs
  <1>2. 1 \in 1..Len(wire) /\ IsAnswer(1)
    BY <1>1 DEF HeardFacts, IsAnswer
  <1>3. PICK o \in Sends : wire[1].v = o /\ Out(o)
    BY <1>2 DEF HearInv, OrderInv, WireInOrder
  <1>4. send' = [send EXCEPT ![wire[1].v].pc = IF @ # "prompting" THEN @
                                              ELSE IF wire[1].k = "ack" THEN "acked" ELSE "nacked"]
    BY <1>1 DEF Hears, Answers, Events, HeardFacts
  <1>5. send \in [Sends -> SendRecs] /\ send[o].pc = "prompting"
    BY <1>3 DEF WorkerInv, SessionTypes, Out
  <1>6. \A q \in Sends : q # o => send'[q] = send[q]
    BY <1>3, <1>4, <1>5
  <1>7. send'[o].pc \in {"acked", "nacked"}
    BY <1>3, <1>4, <1>5 DEF SendRecs
  <1> QED
    BY <1>1, <1>2, <1>3, <1>6, <1>7

\* The answer moves its message on, and is the oldest on the wire.
LEMMA PromptAnsweredHears ==
    ASSUME WorkerInv, WorkerInv', HearInv, Hears, wire[1].k \in {"ack", "nack"}
    PROVE  HearInv'
PROOF
  <1>1. /\ HeardFacts /\ UNCHANGED <<live, ses, stopper, pi>>
    BY PromptAnsweredIs
  <1>2. PICK o \in Sends :
              /\ 1 \in 1..Len(wire) /\ IsAnswer(1) /\ wire[1].v = o /\ Out(o)
              /\ send'[o].pc \in {"acked", "nacked"} /\ \A q \in Sends : q # o => send'[q] = send[q]
              /\ \A q \in Sends : send'[q].at = send[q].at /\ send'[q].gen = send[q].gen
    BY AnswerIs
  <1>3. /\ Len(wire) \in Nat /\ Len(wire') = Len(wire) - 1
        /\ \A i \in 1..Len(wire') : i + 1 \in 1..Len(wire) /\ wire'[i] = wire[i + 1]
    BY <1>1 DEF HeardFacts
  <1>4. /\ \A q \in Sends : (Held(q)' <=> Held(q)) /\ (Confirmed(q)' <=> Confirmed(q)) /\ (Here(q)' <=> Here(q))
        /\ \A q \in Sends : InFlight(q) => InFlight(q)'
    <2>1. send[o].pc = "prompting"
      BY <1>2 DEF Out
    <2> QED
      BY <1>1, <1>2, <2>1 DEF Held, Confirmed, Here, InFlight
  <1>5. /\ ~Out(o)' /\ Held(o)
        /\ \A q \in Sends : q # o => (Out(q)' <=> Out(q)) /\ (Taken(q)' <=> Taken(q))
        /\ \A q \in Sends : Out(q) => Held(q)
    BY <1>1, <1>2 DEF Out, Taken, Here, Held
  <1>6. \A q \in Sends : Held(q) => send[q].gen \in Nat
    BY HeldIs
  <1>7. ASSUME NEW q \in Sends, Out(q), q # o PROVE send[o].gen < send[q].gen
    <2>1. send[o].gen \in Nat /\ send[q].gen \in Nat /\ send[q].gen # send[o].gen
      BY <1>2, <1>5, <1>6, <1>7 DEF HearInv, OwnerInv, Generations
    <2>2. ASSUME send[q].gen < send[o].gen PROVE FALSE
      <3>1. OnWire(q)
        BY <1>2, <1>7, <2>2 DEF HearInv, OrderInv, WireInOrder
      <3>2. PICK k \in 1..Len(wire) : IsAnswer(k) /\ wire[k].v = q
        BY <3>1 DEF OnWire
      <3>3. 1 < k
        BY <1>2, <1>7, <3>2
      <3>4. send[o].gen < send[q].gen
        BY <1>2, <3>2, <3>3 DEF HearInv, OrderInv, WireInOrder
      <3> QED
        BY <2>1, <2>2, <3>4
    <2> QED
      BY <2>1, <2>2
  <1>8. ASSUME NEW i \in 1..Len(wire'), IsAnswer(i)'
        PROVE  /\ i + 1 \in 1..Len(wire) /\ IsAnswer(i + 1) /\ wire'[i] = wire[i + 1]
               /\ wire'[i].v \in Sends /\ Out(wire[i + 1].v) /\ wire[i + 1].v # o
               /\ \E q \in Sends : wire'[i].v = q /\ Out(q)'
    <2>1. i + 1 \in 1..Len(wire) /\ IsAnswer(i + 1) /\ wire'[i] = wire[i + 1]
      BY <1>3, <1>8 DEF IsAnswer
    <2>2. wire[i + 1].v \in Sends /\ Out(wire[i + 1].v)
      BY <2>1 DEF HearInv, OrderInv, WireInOrder
    <2>3. 1 < i + 1
      BY <1>3
    <2>4. send[wire[1].v].gen < send[wire[i + 1].v].gen
      BY <1>2, <2>1, <2>3 DEF HearInv, OrderInv, WireInOrder
    <2>5. wire[i + 1].v # o
      BY <1>2, <1>5, <1>6, <2>4
    <2> QED
      BY <1>5, <2>1, <2>2, <2>5
  <1>9. ASSUME NEW q \in Sends PROVE OnWire(q)' <=> (OnWire(q) /\ q # o)
    <2>1. ASSUME OnWire(q)' PROVE OnWire(q) /\ q # o
      <3>1. PICK i \in 1..Len(wire') : IsAnswer(i)' /\ wire'[i].v = q
        BY <2>1 DEF OnWire
      <3> QED
        BY <1>8, <3>1 DEF OnWire
    <2>2. ASSUME OnWire(q), q # o PROVE OnWire(q)'
      <3>1. PICK k \in 1..Len(wire) : IsAnswer(k) /\ wire[k].v = q
        BY <2>2 DEF OnWire
      <3>2. k # 1
        BY <1>2, <2>2, <3>1
      <3>3. k - 1 \in 1..Len(wire') /\ (k - 1) + 1 = k
        BY <1>3, <3>1, <3>2
      <3>4. wire'[k - 1] = wire[k]
        BY <1>3, <3>3
      <3> QED
        BY <3>1, <3>3, <3>4 DEF OnWire, IsAnswer
    <2> QED
      BY <2>1, <2>2
  <1>10. WireInOrder'
    <2>1. ASSUME NEW i \in 1..Len(wire'), NEW j \in 1..Len(wire'), IsAnswer(i)', IsAnswer(j)', i < j
          PROVE  send'[wire'[i].v].gen < send'[wire'[j].v].gen
      <3>1. i + 1 < j + 1
        BY <1>3, <2>1
      <3>2. send[wire[i + 1].v].gen < send[wire[j + 1].v].gen
        BY <1>8, <2>1, <3>1 DEF HearInv, OrderInv, WireInOrder
      <3> QED
        BY <1>2, <1>8, <2>1, <3>2
    <2>2. ASSUME NEW i \in 1..Len(wire'), IsAnswer(i)', NEW q \in Sends, Out(q)', send'[q].gen < send'[wire'[i].v].gen
          PROVE  OnWire(q)'
      <3>1. q # o /\ Out(q) /\ send[q].gen < send[wire[i + 1].v].gen
        BY <1>2, <1>5, <1>8, <2>2
      <3>2. OnWire(q)
        BY <1>8, <2>2, <3>1 DEF HearInv, OrderInv, WireInOrder
      <3> QED
        BY <1>9, <3>1, <3>2
    <2>3. \A i \in 1..Len(wire') : IsAnswer(i)' => wire'[i].v \in Sends /\ Out(wire[i].v)'
      BY <1>8
    <2> QED
      BY <2>1, <2>2, <2>3 DEF WireInOrder
  <1>11. InboxInOrder'
    <2> SUFFICES ASSUME pi.up
                 PROVE  /\ \A i \in 1..Len(pi.inbox) : pi.inbox[i] \in Sends => Out(pi.inbox[i])'
                        /\ \A i \in 1..Len(pi.inbox) : pi.inbox[i] \in Sends =>
                              \A q \in Sends : OnWire(q)' => send'[q].gen < send'[pi.inbox[i]].gen
                        /\ \A i, j \in 1..Len(pi.inbox) :
                              pi.inbox[i] \in Sends /\ pi.inbox[j] \in Sends /\ i < j =>
                                 send'[pi.inbox[i]].gen < send'[pi.inbox[j]].gen
                        /\ \A q \in Sends : Out(q)' => OnWire(q)' \/ InInbox(q)'
      BY <1>1 DEF InboxInOrder
    <2>1. OnWire(o)
      BY <1>2 DEF OnWire
    <2>2. ASSUME NEW i \in 1..Len(pi.inbox), pi.inbox[i] \in Sends
          PROVE  Out(pi.inbox[i]) /\ pi.inbox[i] # o /\ \E q \in Sends : pi.inbox[i] = q /\ Out(q)'
      <3>1. Out(pi.inbox[i]) /\ send[o].gen < send[pi.inbox[i]].gen
        BY <2>1, <2>2 DEF HearInv, OrderInv, InboxInOrder
      <3>2. pi.inbox[i] # o
        BY <1>5, <1>6, <3>1
      <3> QED
        BY <1>5, <2>2, <3>1, <3>2
    <2>3. ASSUME NEW i \in 1..Len(pi.inbox), pi.inbox[i] \in Sends, NEW q \in Sends, OnWire(q)'
          PROVE  send'[q].gen < send'[pi.inbox[i]].gen
      <3>1. send[q].gen < send[pi.inbox[i]].gen
        BY <1>9, <2>3 DEF HearInv, OrderInv, InboxInOrder
      <3> QED
        BY <1>2, <2>3, <3>1
    <2>4. ASSUME NEW i \in 1..Len(pi.inbox), NEW j \in 1..Len(pi.inbox), pi.inbox[i] \in Sends, pi.inbox[j] \in Sends, i < j
          PROVE  send'[pi.inbox[i]].gen < send'[pi.inbox[j]].gen
      <3>1. send[pi.inbox[i]].gen < send[pi.inbox[j]].gen
        BY <2>4 DEF HearInv, OrderInv, InboxInOrder
      <3> QED
        BY <1>2, <2>4, <3>1
    <2>5. ASSUME NEW q \in Sends, Out(q)' PROVE OnWire(q)' \/ InInbox(q)'
      <3>1. Out(q) /\ q # o
        BY <1>5, <2>5
      <3>2. OnWire(q) \/ InInbox(q)
        BY <3>1 DEF HearInv, OrderInv, InboxInOrder
      <3>3. InInbox(q) => InInbox(q)'
        BY <1>1 DEF InInbox
      <3> QED
        BY <1>9, <3>1, <3>2, <3>3
    <2> QED
      <3>1. \A i \in 1..Len(pi.inbox) : pi.inbox[i] \in Sends => Out(pi.inbox[i])'
        <4>1. \A i \in 1..Len(pi.inbox) : pi.inbox[i] \in Sends => \E q \in Sends : pi'.inbox[i] = q /\ Out(q)'
          BY <1>1, <2>2
        <4> QED
          BY <1>1, <4>1
      <3> QED
        BY <2>3, <2>4, <2>5, <3>1
  <1>12. TakenFirst'
    <2>1. ASSUME NEW p \in Sends, NEW q \in Sends, Taken(p)', Out(q)' PROVE send'[p].gen < send'[q].gen
      <3>1. Out(q) /\ q # o
        BY <1>5, <2>1
      <3>2. send[p].gen < send[q].gen
        <4>1. CASE p = o
          BY <1>7, <3>1, <4>1
        <4>2. CASE p # o
          BY <1>5, <2>1, <3>1, <4>2 DEF HearInv, OrderInv, TakenFirst
        <4> QED
          BY <4>1, <4>2
      <3> QED
        BY <1>2, <3>2
    <2> QED
      BY <2>1 DEF TakenFirst
  <1>13. StopIsNewest' <=> StopIsNewest
    BY <1>1 DEF StopIsNewest, Current
  <1>14. Generations'
    BY <1>1, <1>2, <1>4, <1>13 DEF HearInv, OwnerInv, Generations
  <1>15. PendingIsInFlight'
    <2>1. ASSUME NEW g \in ses'.pending PROVE \E q \in Sends : InFlight(q)' /\ Here(q)' /\ send'[q].gen = g
      <3>1. PICK q \in Sends : InFlight(q) /\ Here(q) /\ send[q].gen = g
        BY <1>1, <2>1 DEF HearInv, OwnerInv, PendingIsInFlight
      <3> QED
        BY <1>2, <1>4, <3>1
    <2> QED
      BY <2>1 DEF PendingIsInFlight
  <1>16. RunIsHeard'
    BY <1>1, <1>2, <1>4, <1>13 DEF HearInv, OwnerInv, RunIsHeard
  <1>17. RunOnWire'
    BY <1>1, RunHeard DEF HearInv
  <1> QED
    BY <1>10, <1>11, <1>12, <1>14, <1>15, <1>16, <1>17 DEF HearInv, OrderInv, OwnerInv

\* The order of the messages stays when a line is read that is no answer to one.
LEMMA EventsKeepOrder ==
    ASSUME WorkerInv, WorkerInv', HearInv, HeardFacts, wire[1].k \notin {"ack", "nack"}, UNCHANGED send
    PROVE  OrderInv' /\ RunOnWire' /\ SendsStay
PROOF
  <1>1. SessionTypes /\ SessionTypes' /\ pi' = pi /\ live' = live
    BY DEF WorkerInv, HeardFacts
  <1>2. SendsStay
    BY <1>1 DEF SendsStay
  <1>3. OutsStay /\ \A o \in Sends : Taken(o)' => Taken(o) /\ send'[o].gen = send[o].gen
    BY <1>2, SendsStayIs DEF Taken, Held
  <1>4. AnswersMove(1) /\ MessagesMove(0) /\ 1 \in {0, 1} /\ 0 \in {0, 1}
    BY <1>1, HeardMoves, NothingMoves DEF IsAnswer
  <1>5. pi'.up => pi.up
    BY <1>1
  <1>6. OrderInv'
    BY <1>1, <1>3, <1>4, <1>5, OrderKeeps DEF HearInv
  <1>7. RunOnWire'
    BY RunHeard DEF HearInv
  <1> QED
    BY <1>2, <1>6, <1>7

\* A run begins: it speaks for the newest message accepted, when no other is out.
LEMMA AgentStartHears ==
    ASSUME WorkerInv, WorkerInv', HearInv, ConfirmedFirst, ~draining, Hears, wire[1].k = "start", ~ses.deaf
    PROVE  HearInv'
PROOF
  <1>1. /\ HeardFacts /\ ses'.version = ses.version /\ ses'.accepted = ses.accepted
        /\ ses'.pending \subseteq ses.pending /\ (ses'.stream = ses.accepted \/ ses'.stream \in ses.pending)
        /\ UNCHANGED <<live, send, stopper, pi>>
    BY AgentStartIs
  <1>2. wire[1].k \notin {"ack", "nack"}
    OBVIOUS
  <1>3. OrderInv' /\ RunOnWire' /\ SendsStay
    BY <1>1, <1>2, EventsKeepOrder
  <1>4. Generations' /\ PendingIsInFlight' /\ (StopIsNewest' <=> StopIsNewest)
    BY <1>1, <1>3, HeldKeep DEF HearInv
  <1>5. /\ \A o \in Sends : Held(o) => send[o].gen \in Nat /\ send[o].gen <= ses.version
        /\ \A o \in Sends : Held(o) /\ StopIsNewest => send[o].gen <= stopper.wasVersion
        /\ ses.version \in Nat /\ stopper.wasVersion \in Nat
        /\ StopIsNewest => ses.accepted = None
    BY HeldIs DEF Numbers
  <1>6. ASSUME NEW o \in Sends, Confirmed(o), NEW q \in Sends, InFlight(q), Here(q) PROVE send[o].gen < send[q].gen
    <2>1. Taken(o) /\ Held(q)
      BY <1>6 DEF Taken, Confirmed, Held, InFlight
    <2>2. CASE send[q].pc = "prompting"
      BY <1>6, <2>1, <2>2 DEF HearInv, OrderInv, TakenFirst, Out
    <2>3. CASE send[q].pc \in {"acked", "nacked"}
      BY <1>6, <2>1, <2>3 DEF ConfirmedFirst
    <2> QED
      BY <1>6, <2>2, <2>3 DEF InFlight
  <1>7. RunIsHeard'
    <2>1. ASSUME pi'.run, NEW o \in Sends, Confirmed(o)'
          PROVE  /\ ses'.version = send'[o].gen => ses'.accepted = send'[o].gen /\ ses'.stream \in {None, send'[o].gen}
                 /\ StopIsNewest' /\ stopper'.wasVersion = send'[o].gen =>
                       stopper'.wasAccepted = send'[o].gen /\ ses'.stream \in {None, send'[o].gen}
      <3>1. Confirmed(o) /\ Held(o) /\ pi.run
        BY <1>1, <2>1 DEF Confirmed, Held, Here
      <3>2. ASSUME ses.version = send[o].gen \/ (StopIsNewest /\ stopper.wasVersion = send[o].gen) PROVE ses.pending = {}
        <4>1. ASSUME NEW g \in ses.pending PROVE FALSE
          <5>1. PICK q \in Sends : InFlight(q) /\ Here(q) /\ send[q].gen = g
            BY <4>1 DEF HearInv, OwnerInv, PendingIsInFlight
          <5>2. Held(q) /\ send[o].gen < send[q].gen
            BY <1>6, <3>1, <5>1 DEF Held, InFlight
          <5> QED
            BY <1>5, <3>1, <3>2, <5>2
        <4> QED
          BY <4>1
      <3>3. /\ ses.version = send[o].gen => ses.accepted = send[o].gen
            /\ StopIsNewest /\ stopper.wasVersion = send[o].gen => stopper.wasAccepted = send[o].gen
        BY <3>1 DEF HearInv, OwnerInv, RunIsHeard
      <3>4. ses.version = send[o].gen => ses'.accepted = send[o].gen /\ ses'.stream \in {None, send[o].gen}
        BY <1>1, <3>2, <3>3
      <3>5. StopIsNewest /\ stopper.wasVersion = send[o].gen =>
               stopper.wasAccepted = send[o].gen /\ ses'.stream \in {None, send[o].gen}
        BY <1>1, <1>5, <3>2, <3>3
      <3> QED
        BY <1>1, <1>4, <3>4, <3>5
    <2> QED
      BY <2>1 DEF RunIsHeard
  <1> QED
    BY <1>3, <1>4, <1>7 DEF HearInv, OwnerInv

\* A run ended before the one Pi is in: the start that follows has its message out.
LEMMA AgentSettledHears ==
    ASSUME WorkerInv, WorkerInv', HearInv, Hears, wire[1].k = "settled", ~ses.deaf
    PROVE  HearInv'
PROOF
  <1>1. /\ HeardFacts /\ ses'.version = ses.version /\ ses'.pending = ses.pending
        /\ UNCHANGED <<live, send, stopper, pi>>
    BY AgentSettledIs
  <1>2. wire[1].k \notin {"ack", "nack"}
    OBVIOUS
  <1>3. OrderInv' /\ RunOnWire' /\ SendsStay
    BY <1>1, <1>2, EventsKeepOrder
  <1>4. Generations' /\ PendingIsInFlight' /\ (StopIsNewest' <=> StopIsNewest)
    BY <1>1, <1>3, HeldKeep DEF HearInv
  <1>5. /\ \A o \in Sends : Held(o) => send[o].gen \in Nat /\ send[o].gen <= ses.version
        /\ \A o \in Sends : Held(o) /\ StopIsNewest => send[o].gen <= stopper.wasVersion
        /\ ses.version \in Nat /\ stopper.wasVersion \in Nat
    BY HeldIs DEF Numbers
  <1>6. ASSUME pi.run PROVE \E m \in Sends : Out(m)
    <2>1. 1 \in 1..Len(wire) /\ Len(wire) \in Nat
      BY <1>1 DEF HeardFacts
    <2>2. PICK j \in 1..Len(wire) : 1 < j /\ wire[j].k = "start"
      BY <1>6, <2>1 DEF HearInv, RunOnWire
    <2>3. wire[j - 1].k = "ack" \/ (j < Len(wire) /\ wire[j + 1].k = "ack")
      BY <2>2 DEF HearInv, RunOnWire
    <2>4. j - 1 \in 1..Len(wire) /\ (j < Len(wire) => j + 1 \in 1..Len(wire))
      BY <2>1, <2>2
    <2>5. PICK k \in 1..Len(wire) : wire[k].k = "ack"
      BY <2>3, <2>4
    <2>6. IsAnswer(k)
      BY <2>5 DEF IsAnswer
    <2> QED
      BY <2>6 DEF HearInv, OrderInv, WireInOrder
  <1>7. RunIsHeard'
    <2>1. ASSUME pi'.run, NEW o \in Sends, Confirmed(o)'
          PROVE  ses'.version # send'[o].gen /\ ~(StopIsNewest' /\ stopper'.wasVersion = send'[o].gen)
      <3>1. Confirmed(o) /\ Held(o) /\ Taken(o) /\ pi.run
        BY <1>1, <2>1 DEF Confirmed, Held, Taken, Here
      <3>2. PICK m \in Sends : Out(m)
        BY <1>6, <3>1
      <3>3. Held(m) /\ send[o].gen < send[m].gen
        BY <3>1, <3>2 DEF HearInv, OrderInv, TakenFirst, Out, Held
      <3>4. ses.version # send[o].gen
        BY <1>5, <3>1, <3>3
      <3>5. ~(StopIsNewest /\ stopper.wasVersion = send[o].gen)
        BY <1>5, <3>1, <3>3
      <3> QED
        BY <1>1, <1>4, <3>4, <3>5
    <2> QED
      BY <2>1 DEF RunIsHeard
  <1> QED
    BY <1>3, <1>4, <1>7 DEF HearInv, OwnerInv

\* Pi answers the first of the messages it was sent: the answer follows the others.
LEMMA AnsweredKeeps ==
    ASSUME WorkerInv, HearInv, SaidFacts, Rest(1), 1 \in 1..Len(pi.inbox), NEW m \in Sends, pi.inbox[1] = m,
           UNCHANGED <<live, send>>, NEW p \in 1..Len(wire'), p \notin 1..Len(wire),
           wire'[p].k \in {"ack", "nack"}, wire'[p].v = m,
           \A i \in 1..Len(wire') : i \notin 1..Len(wire) /\ wire'[i].k \in {"ack", "nack"} => i = p
    PROVE  OrderInv' /\ Out(m)
PROOF
  <1>1. /\ Len(wire) \in Nat /\ Len(wire') \in Nat /\ Len(wire) < p
        /\ \A i \in 1..Len(wire) : i \in 1..Len(wire') /\ wire'[i] = wire[i] /\ i < p
    BY DEF SaidFacts
  <1>2. /\ pi.up /\ Len(pi.inbox) \in Nat /\ Len(pi'.inbox) = Len(pi.inbox) - 1
        /\ \A i \in 1..Len(pi'.inbox) : i + 1 \in 1..Len(pi.inbox) /\ pi'.inbox[i] = pi.inbox[i + 1]
    BY DEF Rest
  <1>3. Out(m) /\ \A q \in Sends : OnWire(q) => send[q].gen < send[m].gen
    BY <1>2 DEF HearInv, OrderInv, InboxInOrder
  <1>4. \A q \in Sends : (Out(q)' <=> Out(q)) /\ (Taken(q)' <=> Taken(q)) /\ send'[q] = send[q]
    BY DEF Out, Taken, Here
  <1>5. \A q \in Sends : Out(q) => send[q].gen \in Nat
    BY HeldIs DEF Out, Held
  <1>6. IsAnswer(p)' /\ wire'[p].v = m
    BY DEF IsAnswer
  <1>7. ASSUME NEW i \in 1..Len(wire'), IsAnswer(i)'
        PROVE  i = p \/ (i \in 1..Len(wire) /\ IsAnswer(i) /\ wire'[i] = wire[i])
    BY <1>1, <1>7 DEF IsAnswer
  <1>8. ASSUME NEW i \in 1..Len(wire), IsAnswer(i)
        PROVE  /\ wire[i].v \in Sends /\ Out(wire[i].v) /\ OnWire(wire[i].v)
               /\ send[wire[i].v].gen < send[m].gen
    <2>1. wire[i].v \in Sends /\ Out(wire[i].v)
      BY <1>8 DEF HearInv, OrderInv, WireInOrder
    <2>2. OnWire(wire[i].v)
      BY <1>8 DEF OnWire
    <2> QED
      BY <1>3, <2>1, <2>2
  <1>9. ASSUME NEW q \in Sends PROVE OnWire(q)' <=> (OnWire(q) \/ q = m)
    <2>1. ASSUME OnWire(q)' PROVE OnWire(q) \/ q = m
      <3>1. PICK i \in 1..Len(wire') : IsAnswer(i)' /\ wire'[i].v = q
        BY <2>1 DEF OnWire
      <3> QED
        BY <1>6, <1>7, <3>1 DEF OnWire
    <2>2. ASSUME OnWire(q) PROVE OnWire(q)'
      <3>1. PICK i \in 1..Len(wire) : IsAnswer(i) /\ wire[i].v = q
        BY <2>2 DEF OnWire
      <3> QED
        BY <1>1, <3>1 DEF OnWire, IsAnswer
    <2>3. ASSUME q = m PROVE OnWire(q)'
      BY <1>6, <2>3 DEF OnWire
    <2> QED
      BY <2>1, <2>2, <2>3
  <1>10. ASSUME NEW k \in 1..Len(pi.inbox), pi.inbox[k] \in Sends, k # 1
         PROVE  Out(pi.inbox[k]) /\ send[m].gen < send[pi.inbox[k]].gen
    <2>1. 1 < k
      BY <1>2, <1>10
    <2> QED
      BY <1>2, <1>10, <2>1 DEF HearInv, OrderInv, InboxInOrder
  <1>11. WireInOrder'
    <2>1. ASSUME NEW i \in 1..Len(wire'), IsAnswer(i)'
          PROVE  wire'[i].v \in Sends /\ \E q \in Sends : wire'[i].v = q /\ Out(q)'
      BY <1>3, <1>4, <1>6, <1>7, <1>8, <2>1
    <2>2. ASSUME NEW i \in 1..Len(wire'), NEW j \in 1..Len(wire'), IsAnswer(i)', IsAnswer(j)', i < j
          PROVE  send'[wire'[i].v].gen < send'[wire'[j].v].gen
      <3>1. i \in 1..Len(wire) /\ IsAnswer(i) /\ wire'[i] = wire[i]
        BY <1>1, <1>7, <2>2
      <3>2. CASE j = p
        BY <1>4, <1>6, <1>8, <3>1, <3>2
      <3>3. CASE j # p
        <4>1. j \in 1..Len(wire) /\ IsAnswer(j) /\ wire'[j] = wire[j]
          BY <1>7, <2>2, <3>3
        <4>2. send[wire[i].v].gen < send[wire[j].v].gen
          BY <2>2, <3>1, <4>1 DEF HearInv, OrderInv, WireInOrder
        <4> QED
          BY <3>1, <4>1, <4>2
      <3> QED
        BY <3>2, <3>3
    <2>3. ASSUME NEW i \in 1..Len(wire'), IsAnswer(i)', NEW q \in Sends, Out(q)', send'[q].gen < send'[wire'[i].v].gen
          PROVE  OnWire(q)'
      <3>1. Out(q)
        BY <1>4, <2>3
      <3>2. CASE i = p
        <4>1. send[q].gen < send[m].gen
          BY <1>4, <1>6, <2>3, <3>2
        <4>2. OnWire(q) \/ InInbox(q)
          BY <1>2, <3>1 DEF HearInv, OrderInv, InboxInOrder
        <4>3. ASSUME InInbox(q) PROVE FALSE
          <5>1. PICK k \in 1..Len(pi.inbox) : pi.inbox[k] = q
            BY <4>3 DEF InInbox
          <5>2. CASE k = 1
            BY <1>3, <1>5, <4>1, <5>1, <5>2
          <5>3. CASE k # 1
            <6>1. send[m].gen < send[q].gen
              BY <1>10, <5>1, <5>3
            <6> QED
              BY <1>3, <1>5, <3>1, <4>1, <6>1
          <5> QED
            BY <5>2, <5>3
        <4> QED
          BY <1>9, <4>2, <4>3
      <3>3. CASE i # p
        <4>1. i \in 1..Len(wire) /\ IsAnswer(i) /\ wire'[i] = wire[i]
          BY <1>7, <2>3, <3>3
        <4>2. OnWire(q)
          BY <2>3, <3>1, <4>1 DEF HearInv, OrderInv, WireInOrder
        <4> QED
          BY <1>9, <4>2
      <3> QED
        BY <3>2, <3>3
    <2> QED
      <3>1. \A i \in 1..Len(wire') : IsAnswer(i)' => wire'[i].v \in Sends /\ Out(wire[i].v)'
        BY <2>1
      <3> QED
        BY <2>2, <2>3, <3>1 DEF WireInOrder
  <1>12. InboxInOrder'
    <2>1. ASSUME NEW i \in 1..Len(pi'.inbox), pi'.inbox[i] \in Sends
          PROVE  /\ i + 1 \in 1..Len(pi.inbox) /\ pi'.inbox[i] = pi.inbox[i + 1] /\ pi.inbox[i + 1] \in Sends
                 /\ send[m].gen < send[pi.inbox[i + 1]].gen
                 /\ \E q \in Sends : pi'.inbox[i] = q /\ Out(q)'
      <3>1. i + 1 \in 1..Len(pi.inbox) /\ pi'.inbox[i] = pi.inbox[i + 1] /\ i + 1 # 1
        BY <1>2
      <3>2. Out(pi.inbox[i + 1]) /\ send[m].gen < send[pi.inbox[i + 1]].gen
        BY <1>10, <2>1, <3>1
      <3> QED
        BY <1>4, <2>1, <3>1, <3>2
    <2>2. ASSUME NEW i \in 1..Len(pi'.inbox), pi'.inbox[i] \in Sends, NEW q \in Sends, OnWire(q)'
          PROVE  send'[q].gen < send'[pi'.inbox[i]].gen
      <3>1. CASE q = m
        BY <2>1, <2>2, <3>1
      <3>2. CASE q # m
        <4>1. OnWire(q)
          BY <1>9, <2>2, <3>2
        <4>2. send[q].gen < send[pi.inbox[i + 1]].gen
          BY <1>2, <2>1, <2>2, <4>1 DEF HearInv, OrderInv, InboxInOrder
        <4> QED
          BY <2>1, <2>2, <4>2
      <3> QED
        BY <3>1, <3>2
    <2>3. ASSUME NEW i \in 1..Len(pi'.inbox), NEW j \in 1..Len(pi'.inbox),
                 pi'.inbox[i] \in Sends, pi'.inbox[j] \in Sends, i < j
          PROVE  send'[pi'.inbox[i]].gen < send'[pi'.inbox[j]].gen
      <3>1. i + 1 < j + 1
        BY <1>2, <2>3
      <3>2. send[pi.inbox[i + 1]].gen < send[pi.inbox[j + 1]].gen
        BY <1>2, <2>1, <2>3, <3>1 DEF HearInv, OrderInv, InboxInOrder
      <3> QED
        BY <2>1, <2>3, <3>2
    <2>4. ASSUME NEW q \in Sends, Out(q)' PROVE OnWire(q)' \/ InInbox(q)'
      <3>1. OnWire(q) \/ InInbox(q)
        BY <1>2, <1>4, <2>4 DEF HearInv, OrderInv, InboxInOrder
      <3>2. ASSUME InInbox(q), q # m PROVE InInbox(q)'
        <4>1. PICK k \in 1..Len(pi.inbox) : pi.inbox[k] = q
          BY <3>2 DEF InInbox
        <4>2. k # 1
          BY <3>2, <4>1
        <4>3. k - 1 \in 1..Len(pi'.inbox) /\ (k - 1) + 1 = k
          BY <1>2, <4>1, <4>2
        <4>4. pi'.inbox[k - 1] = q
          BY <1>2, <4>1, <4>3
        <4> QED
          BY <4>3, <4>4 DEF InInbox
      <3> QED
        BY <1>9, <3>1, <3>2
    <2> QED
      <3>1. \A i \in 1..Len(pi'.inbox) : pi'.inbox[i] \in Sends => Out(pi.inbox[i])'
        BY <2>1
      <3> QED
        BY <2>2, <2>3, <2>4, <3>1 DEF InboxInOrder
  <1>13. TakenFirst'
    BY <1>4 DEF HearInv, OrderInv, TakenFirst
  <1> QED
    BY <1>3, <1>11, <1>12, <1>13 DEF OrderInv

\* Pi accepts a message into its run, or refuses it.
LEMMA PromptReadHears ==
    ASSUME WorkerInv, WorkerInv', HearInv, PiReads, pi.inbox[1] \in Sends, pi' = [pi EXCEPT !.inbox = Tail(pi.inbox)],
           NEW k \in {"ack", "nack"}, wire' = Append(wire, Says(k, pi.inbox[1]))
    PROVE  HearInv'
PROOF
  <1>1. /\ SaidFacts /\ Rest(1) /\ 1 \in 1..Len(pi.inbox) /\ Len(wire') = Len(wire) + 1
        /\ \A i \in 1..Len(wire') : i \notin 1..Len(wire) => wire'[i].k \in {"ack", "nack"}
        /\ UNCHANGED <<live, ses, send, stopper>>
    BY PromptReadIs
  <1>2. pi'.run => pi.run
    BY PromptReadIs
  <1> DEFINE m == pi.inbox[1]
             line == Says(k, m)
  <1>3. line \in Lines /\ line.k = k /\ line.v = m /\ SessionTypes
    BY LineIs DEF LineKinds, WorkerInv
  <1>4. \A i \in 1..Len(wire') : i \notin 1..Len(wire) => i = Len(wire) + 1 /\ wire'[i] = line
    <2>1. wire' = Append(wire, line)
      OBVIOUS
    <2> HIDE DEF line
    <2> QED
      BY <1>3, <2>1, SaysIs
  <1> HIDE DEF line
  <1> DEFINE p == Len(wire) + 1
  <1>5. p \in 1..Len(wire') /\ p \notin 1..Len(wire) /\ Len(wire) \in Nat
    BY <1>1 DEF SaidFacts
  <1>6. wire'[p].k \in {"ack", "nack"} /\ wire'[p].v = m
    BY <1>3, <1>4, <1>5
  <1>7. \A i \in 1..Len(wire') : i \notin 1..Len(wire) => i = p
    BY <1>4
  <1> HIDE DEF p
  <1>8. OrderInv'
    BY <1>1, <1>5, <1>6, <1>7, AnsweredKeeps
  <1>9. SendsStay /\ OwnersStay /\ ses'.pending \subseteq ses.pending
    BY <1>1 DEF SendsStay, OwnersStay
  <1>10. OwnerInv'
    BY <1>2, <1>9, OwnersKeep DEF HearInv
  <1>11. \A i \in 1..Len(wire') : i \notin 1..Len(wire) =>
            wire'[i].k # "start" /\ (pi'.run => wire'[i].k # "settled")
    BY <1>1
  <1>12. RunOnWire'
    BY <1>1, <1>2, <1>11, RunSaid DEF HearInv
  <1> QED
    BY <1>8, <1>10, <1>12 DEF HearInv

\* A message begins a run: it is newer than any accepted before.
LEMMA RunBeginsHears ==
    ASSUME WorkerInv, WorkerInv', HearInv, PiReads, ~pi.run, pi.inbox[1] \in Sends,
           pi' = [[pi EXCEPT !.inbox = Tail(pi.inbox)] EXCEPT !.run = TRUE],
           NEW more \in {<<Says("ack", pi.inbox[1]), Says("start", None)>>, <<Says("start", None), Says("ack", pi.inbox[1])>>},
           wire' = wire \o more
    PROVE  HearInv'
PROOF
  <1>1. /\ SaidFacts /\ Rest(1) /\ 1 \in 1..Len(pi.inbox) /\ UNCHANGED <<live, ses, send, stopper>>
    BY RunBeginsIs
  <1> DEFINE m == pi.inbox[1]
             a == Says("ack", m)
             b == Says("start", None)
  <1>2. a \in Lines /\ a.k = "ack" /\ a.v = m /\ b \in Lines /\ b.k = "start" /\ SessionTypes /\ m \in Sends
    BY LineIs DEF LineKinds, WorkerInv, None
  <1>3. more = <<a, b>> \/ more = <<b, a>>
    OBVIOUS
  <1> HIDE DEF a, b, m, Lines
  <1>4. /\ more \in Seq(Lines) /\ more # <<>> /\ Len(more) = 2
        /\ \E x, y \in {1, 2} : x # y /\ more[x] = a /\ more[y] = b
    <2>1. CASE more = <<a, b>>
      <3>1. more \in Seq(Lines) /\ more # <<>> /\ Len(more) = 2 /\ more[1] = a /\ more[2] = b
        BY <1>2, <2>1
      <3> QED
        BY <3>1
    <2>2. CASE more = <<b, a>>
      <3>1. more \in Seq(Lines) /\ more # <<>> /\ Len(more) = 2 /\ more[2] = a /\ more[1] = b
        BY <1>2, <2>2
      <3> QED
        BY <3>1
    <2> QED
      BY <1>3, <2>1, <2>2
  <1>5. /\ Len(wire') = Len(wire) + 2 /\ Len(wire) \in Nat
        /\ \A i \in 1..Len(wire') : i \notin 1..Len(wire) =>
              i - Len(wire) \in 1..2 /\ wire'[i] = more[i - Len(wire)]
    BY <1>1, <1>2, <1>4, SaidIs DEF SaidFacts
  <1>6. PICK x \in {1, 2}, y \in {1, 2} : x # y /\ more[x] = a /\ more[y] = b
    BY <1>4
  <1> DEFINE p == Len(wire) + x
             s == Len(wire) + y
  <1>7. /\ p \in 1..Len(wire') /\ p \notin 1..Len(wire) /\ s \in 1..Len(wire') /\ s \notin 1..Len(wire)
        /\ p - Len(wire) = x /\ s - Len(wire) = y /\ (s = p + 1 \/ p = s + 1)
        /\ \A i \in 1..Len(wire') : i \notin 1..Len(wire) => i = p \/ i = s
    <2>1. (x = 1 /\ y = 2) \/ (x = 2 /\ y = 1)
      BY <1>6
    <2>2. \A i \in 1..Len(wire') : i \notin 1..Len(wire) => i = Len(wire) + 1 \/ i = Len(wire) + 2
      BY <1>5
    <2>3. /\ Len(wire) + 1 \in 1..Len(wire') /\ Len(wire) + 1 \notin 1..Len(wire)
          /\ Len(wire) + 2 \in 1..Len(wire') /\ Len(wire) + 2 \notin 1..Len(wire)
          /\ (Len(wire) + 1) - Len(wire) = 1 /\ (Len(wire) + 2) - Len(wire) = 2
          /\ Len(wire) + 2 = (Len(wire) + 1) + 1
      BY <1>5
    <2>4. CASE x = 1 /\ y = 2
      BY <2>2, <2>3, <2>4
    <2>5. CASE x = 2 /\ y = 1
      BY <2>2, <2>3, <2>5
    <2> QED
      BY <2>1, <2>4, <2>5
  <1>8. wire'[p] = a /\ wire'[s] = b
    BY <1>5, <1>6, <1>7
  <1> HIDE DEF p, s
  <1>9. wire'[p].k \in {"ack", "nack"} /\ wire'[p].v = m /\ wire'[p].k = "ack" /\ wire'[s].k = "start"
    BY <1>2, <1>8
  <1>10. \A i \in 1..Len(wire') : i \notin 1..Len(wire) /\ wire'[i].k \in {"ack", "nack"} => i = p
    BY <1>7, <1>9
  <1>11. m = pi.inbox[1]
    BY DEF m
  <1>12. OrderInv' /\ Out(m)
    BY <1>1, <1>2, <1>7, <1>9, <1>10, <1>11, AnsweredKeeps
  <1>13. SendsStay /\ OwnersStay /\ ses'.pending \subseteq ses.pending
    BY <1>1 DEF SendsStay, OwnersStay
  <1>14. Generations' /\ PendingIsInFlight' /\ (StopIsNewest' <=> StopIsNewest)
    BY <1>13, HeldKeep DEF HearInv, OwnersStay
  <1>15. RunIsHeard'
    <2>1. /\ \A o \in Sends : Held(o) => send[o].gen \in Nat /\ send[o].gen <= ses.version
          /\ \A o \in Sends : Held(o) /\ StopIsNewest => send[o].gen <= stopper.wasVersion
          /\ ses.version \in Nat /\ stopper.wasVersion \in Nat
      BY HeldIs DEF Numbers
    <2>2. ASSUME NEW o \in Sends, Confirmed(o)'
          PROVE  ses'.version # send'[o].gen /\ ~(StopIsNewest' /\ stopper'.wasVersion = send'[o].gen)
      <3>1. Held(o) /\ Taken(o)
        BY <1>1, <2>2 DEF Confirmed, Held, Taken, Here
      <3>2. Held(m) /\ send[o].gen < send[m].gen
        BY <1>2, <1>12, <3>1 DEF HearInv, OrderInv, TakenFirst, Out, Held
      <3>3. ses.version # send[o].gen
        BY <1>2, <2>1, <3>1, <3>2
      <3>4. ~(StopIsNewest /\ stopper.wasVersion = send[o].gen)
        BY <1>2, <2>1, <3>1, <3>2
      <3> QED
        BY <1>1, <1>14, <3>3, <3>4
    <2> QED
      BY <2>2 DEF RunIsHeard
  <1>16. RunOnWire'
    <2>1. \A i \in 1..Len(wire) : i \in 1..Len(wire') /\ wire'[i] = wire[i]
      BY <1>1 DEF SaidFacts
    <2>2. ASSUME NEW i \in 1..Len(wire'), wire'[i].k = "settled"
          PROVE  \E j \in 1..Len(wire') : i < j /\ wire'[j].k = "start"
      <3>1. i \in 1..Len(wire)
        BY <1>7, <1>9, <2>2
      <3>2. i < s
        BY <1>5, <1>7, <3>1
      <3> QED
        BY <1>7, <1>9, <3>2
    <2>3. ASSUME NEW i \in 1..Len(wire'), wire'[i].k = "start", 1 < i
          PROVE  wire'[i - 1].k = "ack" \/ (i < Len(wire') /\ wire'[i + 1].k = "ack")
      <3>1. CASE i \in 1..Len(wire)
        <4>1. wire[i].k = "start"
          BY <2>1, <2>3, <3>1
        <4>2. wire[i - 1].k = "ack" \/ (i < Len(wire) /\ wire[i + 1].k = "ack")
          BY <2>3, <3>1, <4>1 DEF HearInv, RunOnWire
        <4>3. i - 1 \in 1..Len(wire) /\ (i < Len(wire) => i + 1 \in 1..Len(wire) /\ i < Len(wire'))
          BY <1>5, <2>3, <3>1
        <4> QED
          BY <2>1, <4>2, <4>3
      <3>2. CASE i \notin 1..Len(wire)
        <4>1. i = s
          BY <1>7, <1>9, <2>3, <3>2
        <4>2. CASE s = p + 1
          <5>1. i - 1 = p
            BY <1>5, <1>7, <4>1, <4>2
          <5> QED
            BY <1>9, <5>1
        <4>3. CASE p = s + 1
          <5>1. i < Len(wire')
            BY <1>5, <1>7, <4>1, <4>3
          <5> QED
            BY <1>9, <4>1, <4>3, <5>1
        <4> QED
          BY <1>7, <4>2, <4>3
      <3> QED
        BY <3>1, <3>2
    <2> QED
      BY <2>2, <2>3 DEF RunOnWire
  <1> QED
    BY <1>12, <1>14, <1>15, <1>16 DEF HearInv, OwnerInv

\* Pi reads what was sent to it.
LEMMA PiReadsHears ==
    ASSUME WorkerInv, WorkerInv', HearInv, PiReads
    PROVE  HearInv'
PROOF
  <1> DEFINE m == pi.inbox[1]
             rest == [pi EXCEPT !.inbox = Tail(pi.inbox)]
             begun == [rest EXCEPT !.run = TRUE]
             lines == {<<Says("ack", m), Says("start", None)>>, <<Says("start", None), Says("ack", m)>>}
  <1>1. pi.up /\ pi.inbox # <<>> /\ Head(pi.inbox) = m
    BY ReadIs DEF PiReads
  <1>2. \/ m \in {"state", "probe"} /\ pi' = rest /\ \E v \in {"idle", "busy"} : wire' = Append(wire, Says(m, v))
        \/ m \in Sends /\ pi' = rest /\ \E k \in {"ack", "nack"} : wire' = Append(wire, Says(k, m))
        \/ m \in Sends /\ ~pi.run /\ pi' = begun /\ \E more \in lines : wire' = wire \o more
        \/ m = "abort" /\ RunAborts
        \/ m = "abort" /\ pi' = rest /\ wire' = Append(wire, Says("abortFailed", None))
    BY <1>1 DEF PiReads, RunAborts
  <1>3. CASE m \in {"state", "probe"} /\ pi' = rest /\ \E v \in {"idle", "busy"} : wire' = Append(wire, Says(m, v))
    BY <1>3, StateSaidHears
  <1>4. CASE m \in Sends /\ pi' = rest /\ \E k \in {"ack", "nack"} : wire' = Append(wire, Says(k, m))
    BY <1>4, PromptReadHears
  <1>5. CASE m \in Sends /\ ~pi.run /\ pi' = begun /\ \E more \in lines : wire' = wire \o more
    BY <1>5, RunBeginsHears
  <1>6. CASE m = "abort" /\ RunAborts
    BY <1>6, RunAbortedHears
  <1>7. CASE m = "abort" /\ pi' = rest /\ wire' = Append(wire, Says("abortFailed", None))
    BY <1>7, AbortRefusedHears
  <1> QED
    BY <1>2, <1>3, <1>4, <1>5, <1>6, <1>7

\* The client reads a line.
LEMMA HearsHears ==
    ASSUME WorkerInv, WorkerInv', HearInv, ConfirmedFirst, ~draining, Hears
    PROVE  HearInv'
PROOF
  <1>1. wire[1].k \in LineKinds
    BY HeardIs DEF HeardFacts, Lines
  <1>2. CASE wire[1].k \in {"ack", "nack"}
    BY <1>2, PromptAnsweredHears
  <1>3. CASE wire[1].k \in {"aborted", "abortFailed"}
    BY <1>3, StopAnsweredHears
  <1>4. CASE \/ wire[1].k \in {"state", "probe"}
             \/ wire[1].k \in {"start", "open", "close", "settled"} /\ (ses.deaf \/ wire[1].k \in {"open", "close"})
    BY <1>4, OthersHear
  <1>5. CASE wire[1].k = "start" /\ ~ses.deaf
    BY <1>5, AgentStartHears
  <1>6. CASE wire[1].k = "settled" /\ ~ses.deaf
    BY <1>6, AgentSettledHears
  <1> QED
    BY <1>1, <1>2, <1>3, <1>4, <1>5, <1>6 DEF LineKinds

\* The messages that wait to go on once a step has been taken.
NewlyEnded == {o \in Sends : send'[o].pc \in {"acked", "nacked"}}

\* A step that is not of the microtasks leaves none, unless a prompt gets no answer.
LEMMA AloneEnds ==
    ASSUME WorkerInv, ~MicrotasksDue,
           \/ UNCHANGED send
           \/ LoadFails \/ \E o \in Sends : SendBegins(o) \/ Prompts(o)
    PROVE  NewlyEnded = {}
PROOF
  <1>1. send \in [Sends -> SendRecs] /\ \A q \in Sends : send[q].pc \notin {"acked", "nacked"}
    BY DEF WorkerInv, SessionTypes, MicrotasksDue
  <1>2. CASE UNCHANGED send
    BY <1>1, <1>2 DEF NewlyEnded
  <1>3. CASE LoadFails
    <2>1. send' = [o \in Sends |-> IF o \in Waiting THEN [send[o] EXCEPT !.pc = "failed"] ELSE send[o]]
      BY <1>3 DEF LoadFails, WaitersFail
    <2>2. ASSUME NEW q \in Sends PROVE send'[q].pc \in {send[q].pc, "failed"}
      BY <1>1, <2>1, <2>2 DEF SendRecs
    <2> QED
      BY <1>1, <2>2 DEF NewlyEnded
  <1>4. ASSUME NEW o \in Sends, SendBegins(o) \/ Prompts(o) PROVE NewlyEnded = {}
    <2>1. \A q \in Sends : q # o => send'[q] = send[q]
      BY <1>1, <1>4 DEF SendBegins, Prompts, Ends
    <2>2. send'[o].pc \in {"loading", "resolving", "prompting", "stale"}
      <3>1. CASE SendBegins(o)
        <4>1. CASE live = None
          BY <1>1, <3>1, <4>1 DEF SendBegins, SendRecs
        <4>2. CASE live # None
          BY <1>1, <3>1, <4>2 DEF SendBegins, SendRecs
        <4> QED
          BY <4>1, <4>2
      <3>2. CASE Prompts(o) /\ Current(send[o].at, send[o].gen)
        BY <1>1, <3>2 DEF Prompts
      <3>3. CASE Prompts(o) /\ ~Current(send[o].at, send[o].gen)
        BY <1>1, <3>3, EndsIs DEF Prompts, SendPcs, WorkerInv
      <3> QED
        BY <1>4, <3>1, <3>2, <3>3
    <2> QED
      BY <1>1, <2>1, <2>2 DEF NewlyEnded
  <1> QED
    BY <1>2, <1>3, <1>4

\* A prompt that is answered, or will get no answer, is newer than all that were taken.
LEMMA EndsLast ==
    ASSUME HearInv, live' = live, (ConfirmedFirst /\ ~draining) \/ \A q \in Sends : send[q].pc \notin {"acked", "nacked"},
           NEW o \in Sends, send[o].pc = "prompting", send'[o].pc \in {"acked", "nacked"},
           send'[o].at = send[o].at, send'[o].gen = send[o].gen,
           \A q \in Sends : q # o => send'[q] = send[q]
    PROVE  ConfirmedFirst'
PROOF
  <1> SUFFICES ASSUME NEW c \in Sends, NEW q \in Sends, Confirmed(c)', Held(q)', send'[q].pc \in {"acked", "nacked"}
               PROVE  send'[c].gen < send'[q].gen
    BY DEF ConfirmedFirst
  <1>1. c # o /\ send'[c] = send[c] /\ Confirmed(c) /\ Taken(c)
    BY DEF Confirmed, Taken, Here
  <1>2. CASE q = o
    BY <1>1, <1>2 DEF HearInv, OrderInv, TakenFirst, Out, Held, Here
  <1>3. CASE q # o
    <2>1. send'[q] = send[q] /\ Held(q) /\ send[q].pc \in {"acked", "nacked"}
      BY <1>3 DEF Held, Here
    <2> QED
      BY <1>1, <2>1 DEF ConfirmedFirst
  <1> QED
    BY <1>2, <1>3

\* While lines are read no confirmed message is newer than one that waits to go on:
\* its continuation has run before the next line is read.
LEMMA ConfirmedKeeps ==
    ASSUME WorkerInv, WorkerInv', HearInv, ConfirmedFirst, [SessionNext]_sessionVars
    PROVE  ConfirmedFirst'
PROOF
  <1>1. ASSUME draining' = MicrotasksDue' PROVE ConfirmedFirst'
    <2> SUFFICES ASSUME ~draining' PROVE \A q \in Sends : send'[q].pc \notin {"acked", "nacked"}
      BY DEF ConfirmedFirst
    <2> QED
      BY <1>1 DEF MicrotasksDue
  <1>2. NewlyEnded = {} => ConfirmedFirst'
    BY DEF NewlyEnded, ConfirmedFirst
  <1>3. (\A o \in Sends : ~Held(o)') => ConfirmedFirst'
    BY DEF ConfirmedFirst
  <1>4. ASSUME NEW o \in Sends, Unanswered(o), ~MicrotasksDue PROVE ConfirmedFirst'
    <2>1. \A q \in Sends : send[q].pc \notin {"acked", "nacked"}
      BY <1>4 DEF MicrotasksDue
    <2>2. /\ send[o].pc = "prompting" /\ live' = live /\ send' = [send EXCEPT ![o].pc = "nacked"]
          /\ send \in [Sends -> SendRecs]
      BY <1>4 DEF Unanswered, WorkerInv, SessionTypes
    <2>3. /\ send'[o].pc = "nacked" /\ send'[o].at = send[o].at /\ send'[o].gen = send[o].gen
          /\ \A q \in Sends : q # o => send'[q] = send[q]
      BY <2>2 DEF SendRecs
    <2> QED
      BY <2>1, <2>2, <2>3, EndsLast
  <1>5. ASSUME Hears, ~draining PROVE ConfirmedFirst'
    <2>1. live' = live
      BY <1>5 DEF Hears
    <2>2. CASE wire[1].k \in {"ack", "nack"}
      <3>1. PICK o \in Sends :
              /\ Out(o) /\ send'[o].pc \in {"acked", "nacked"} /\ \A q \in Sends : q # o => send'[q] = send[q]
              /\ \A q \in Sends : send'[q].at = send[q].at /\ send'[q].gen = send[q].gen
        BY <1>5, <2>2, AnswerIs
      <3> QED
        BY <1>5, <2>1, <3>1, EndsLast DEF Out
    <2>3. CASE wire[1].k \notin {"ack", "nack"}
      <3>1. UNCHANGED send
        BY <1>5, <2>3, HeardIs DEF Hears, Answers, Events, HeardFacts
      <3> QED
        BY <1>5, <2>1, <3>1 DEF ConfirmedFirst, Confirmed, Held, Here
    <2> QED
      BY <2>2, <2>3
  <1>6. ASSUME UNCHANGED sessionVars PROVE ConfirmedFirst'
    BY <1>6 DEF sessionVars, ConfirmedFirst, Confirmed, Held, Here
  <1>7. CASE \E o \in Sends : SendNext(o)
    <2>1. PICK o \in Sends : SendNext(o)
      BY <1>7
    <2> QED
      BY <1>1, <1>2, <1>4, <2>1, AloneEnds DEF SendNext, Continues, Alone
  <1>8. CASE LoadNext
    <2>1. CASE Continues(Resumed)
      BY <1>1, <2>1 DEF Continues
    <2>2. CASE Alone(LoadBegins \/ LoadFails)
      BY <1>2, <2>2, AloneEnds DEF Alone, LoadBegins, callVars
    <2>3. CASE Alone(SessionMade)
      BY <1>3, <2>3, SessionMadeHears DEF Alone
    <2> QED
      BY <1>8, <2>1, <2>2, <2>3 DEF LoadNext, Alone
  <1>9. CASE StopNext
    BY <1>1, <1>9 DEF StopNext, Continues
  <1>10. CASE DeleteNext \/ Closing
    <2>1. CASE Alone(DeleteProceeds \/ Removed)
      BY <1>2, <2>1, AloneEnds DEF Alone, DeleteProceeds, Removed
    <2>2. CASE SessionStopped \/ TransportClosed
      BY <1>3, <2>2, SessionGoneHears
    <2> QED
      BY <1>10, <2>1, <2>2 DEF DeleteNext, Closing, Alone
  <1>11. CASE WatchNext \/ Repair
    <2>1. CASE Continues(WatchDecides)
      BY <1>1, <2>1 DEF Continues
    <2>2. CASE ~MicrotasksDue /\ (WatchAsks \/ WatchLeaves \/ Reconciles)
      BY <1>2, <2>2, AloneEnds DEF WatchAsks, WatchLeaves, Reconciles
    <2> QED
      BY <1>11, <2>1, <2>2 DEF WatchNext, Repair, Alone
  <1>12. CASE Reading
    BY <1>5, <1>12 DEF Reading
  <1>13. CASE PiAnswers \/ PiFinishes
    BY <1>2, <1>13, AloneEnds DEF PiAnswers, PiFinishes, Alone, PiReads, PiSettles, clientVars, callVars
  <1>14. CASE Disturbed
    <2>1. ~MicrotasksDue
      BY <1>14 DEF Disturbed, Alone
    <2>2. UNCHANGED send
      BY <1>14 DEF Disturbed, Alone, SendTimesOut, StopBegins, StopOutlasts, DeleteBegins, RemoveFails,
                   PiOpensTurn, PiDies, clientVars, callVars
    <2> QED
      BY <1>2, <2>1, <2>2, AloneEnds
  <1> QED
    BY <1>6, <1>7, <1>8, <1>9, <1>10, <1>11, <1>12, <1>13, <1>14 DEF SessionNext

\* No step of the Worker's side breaks the invariant.
LEMMA HearStep ==
    WorkerInv /\ HearInv /\ ConfirmedFirst /\ [SessionNext]_sessionVars => HearInv' /\ ConfirmedFirst'
PROOF
  <1> SUFFICES ASSUME WorkerInv, HearInv, ConfirmedFirst, [SessionNext]_sessionVars PROVE HearInv' /\ ConfirmedFirst'
    OBVIOUS
  <1>1. WorkerInv'
    BY WorkerStep
  <1>2. ConfirmedFirst'
    BY <1>1, ConfirmedKeeps
  <1>3. ASSUME NEW o \in Sends, \/ SendLoaded(o) \/ Accepted(o) \/ Refused(o)
                                \/ SendBegins(o) \/ Prompts(o) \/ Unanswered(o) \/ SendTimesOut(o)
        PROVE  HearInv'
    <2>1. CASE SendLoaded(o) \/ SendBegins(o) \/ (Prompts(o) /\ ~Current(send[o].at, send[o].gen))
      BY <1>1, <2>1, IdleSendsKeep
    <2>2. CASE Prompts(o) /\ Current(send[o].at, send[o].gen)
      BY <1>1, <2>2, PromptsHears
    <2>3. CASE Accepted(o) \/ Refused(o)
      <3>1. MessageEnds(o) /\ send[o].pc \in {"acked", "nacked"}
        BY <2>3, AcceptedIs, RefusedIs DEF Accepted, Refused
      <3> QED
        BY <1>1, <3>1, MessageEndsHears
    <2>4. CASE Unanswered(o) \/ SendTimesOut(o)
      BY <1>1, <2>4, UnansweredHears, StopBeginsHears
    <2> QED
      BY <1>3, <2>1, <2>2, <2>3, <2>4
  <1>4. CASE \/ LoadBegins \/ LoadFails \/ Resumed \/ StopOutlasts \/ DeleteBegins \/ RemoveFails
             \/ WatchDecides \/ WatchLeaves \/ UNCHANGED sessionVars
    BY <1>1, <1>2, <1>4, IdleCallsKeep
  <1>5. CASE SessionMade \/ SessionStopped \/ TransportClosed
    BY <1>1, <1>2, <1>5, SessionMadeHears, SessionGoneHears
  <1>6. CASE StopDone \/ StopFails \/ StopBegins
    BY <1>1, <1>2, <1>6, StopEndsHears, StopBeginsHears
  <1>7. CASE DeleteProceeds \/ Reconciles
    BY <1>1, <1>2, <1>7, DeleteProceedsIs, ReconcilesIs, DisownKeeps
  <1>8. CASE Removed \/ WatchAsks
    BY <1>1, <1>2, <1>8, RemovedHears, WatchAsksHears
  <1>9. CASE Hears /\ ~draining
    BY <1>1, <1>2, <1>9, HearsHears
  <1>10. CASE PiReads \/ PiSettles \/ PiOpensTurn \/ PiDies
    BY <1>1, <1>2, <1>10, PiReadsHears, PiSettlesHears, PiOpensTurnHears, PiDiesHears
  <1> QED
    BY <1>2, <1>3, <1>4, <1>5, <1>6, <1>7, <1>8, <1>9, <1>10, SessionStepIs

\* It holds when the Worker's side begins: there is no session.
LEMMA HearInitInv == SessionInit => HearInv /\ ConfirmedFirst
PROOF
  <1> SUFFICES ASSUME SessionInit PROVE HearInv /\ ConfirmedFirst
    OBVIOUS
  <1>1. live = None /\ wire = <<>> /\ Len(wire) = 0 /\ ses.pending = {} /\ ~pi.up /\ ~pi.run
    BY NoProcessIs DEF SessionInit, NoSession
  <1>2. \A o \in Sends : ~Held(o) /\ ~Out(o) /\ ~Taken(o) /\ ~Confirmed(o)
    BY <1>1 DEF Held, Out, Taken, Confirmed, Here
  <1>3. OrderInv
    BY <1>1, <1>2 DEF OrderInv, WireInOrder, InboxInOrder, TakenFirst
  <1>4. OwnerInv
    BY <1>1, <1>2 DEF OwnerInv, Generations, PendingIsInFlight, RunIsHeard
  <1>5. RunOnWire
    BY <1>1 DEF RunOnWire
  <1> QED
    BY <1>2, <1>3, <1>4, <1>5 DEF HearInv, ConfirmedFirst

\* The invariant of what the client hears.
LEMMA HearInvariant == SessionInit /\ [][SessionNext]_sessionVars => [](HearInv /\ ConfirmedFirst)
  BY HearInitInv, HearStep, WorkerInvariant, PTL

\* What the invariant says of a message that was accepted and is still the newest.
LEMMA HearInvHears == WorkerInv /\ HearInv => AcceptedIsHeard
PROOF
  <1> SUFFICES ASSUME WorkerInv, HearInv, live # None, pi.run, NEW o \in Sends,
                      send[o].pc = "accepted", Current(send[o].at, send[o].gen)
               PROVE  Counts(EventGen)
    BY DEF AcceptedIsHeard
  <1>1. Confirmed(o) /\ Held(o) /\ ses.version = send[o].gen
    BY DEF Confirmed, Held, Here, Current
  <1>2. 1 <= send[o].gen /\ send[o].gen # None
    BY <1>1, HeldIs DEF None
  <1>3. ses.accepted = send[o].gen /\ ses.stream \in {None, send[o].gen}
    BY <1>1 DEF HearInv, OwnerInv, RunIsHeard
  <1>4. EventGen = send[o].gen
    BY <1>3 DEF EventGen
  <1> QED
    BY <1>1, <1>2, <1>3, <1>4 DEF Counts

-----------------------------------------------------------------------------
(* What the Worker's side promises.                                        *)

\* A job deleted from the store keeps no session once the deletion has ended, and
\* none is being made for it (deleteThread, deletingSessions and the second look
\* of resumeThread).
THEOREM DeletedHasNoSession == SessionSpec => []GoneHasNoSession
  BY WorkerInvGone, WorkerInvariant, PTL DEF SessionSpec

\* A turn the operator stopped is not taken up again: the stop is confirmed only
\* while its generation is the newest, and Pi has then said all it had to say of
\* the turn (stopThread, handleSessionEvent).
THEOREM StoppedStaysStopped == SessionSpec => StoppedStays
  BY StoppedIsKept, PTL DEF SessionSpec

\* The run of a message Pi accepted is listened to: unless a later call took the
\* generation over, once no prompt is out and all that Pi wrote is read, the events
\* of the run count (sendMessage, promptSession, handleSessionEvent).  A late start
\* or the settling of the run before may take the generation first; answers are
\* confirmed before the next line is read, so the one confirmed last takes it back.
THEOREM AcceptedRunIsHeard == SessionSpec => []AcceptedIsHeard
  BY HearInvHears, HearInvariant, WorkerInvariant, PTL DEF SessionSpec

\* The Worker's side keeps its state in its type; in particular no event is taken
\* for a generation ahead of the session's version.
THEOREM WorkerKeepsTypes == SessionSpec => []SessionTypeOK
  BY WorkerInvTyped, WorkerInvariant, PTL DEF SessionSpec

-----------------------------------------------------------------------------
(* Both sides, as TLC runs them.                                           *)

\* A step of the composition is one of either side's or none.
LEMMA EitherSideIs ==
    /\ Init => RestartInit /\ SessionInit
    /\ [Next]_processesVars => [RestartNext]_restartVars /\ [SessionNext]_sessionVars
  BY DEF Init, Next, Only, processesVars

\* Both invariants hold of the composition.
LEMMA ProcessesInvariant == Spec => []HostInv /\ []WorkerInv
  BY EitherSideIs, HostInvariant, WorkerInvariant, PTL DEF Spec

\* Whoever changes the containers of the appliance owns the lifecycle lock.
COROLLARY ProcessesCoverWork == Spec => []LockCoversWork
  BY ProcessesInvariant, HostInvCovers, PTL

\* The export the gateway's container was created from is kept.
COROLLARY ProcessesKeepGateway == Spec => GatewaySourceKept
PROOF
  <1>1. Init /\ [][Next]_processesVars => RestartInit /\ [][RestartNext]_restartVars
    BY EitherSideIs, PTL
  <1> QED
    BY <1>1, GatewayIsKept, PTL DEF Spec

\* No job that is gone keeps a session.
COROLLARY ProcessesForgetTheGone == Spec => []GoneHasNoSession
  BY ProcessesInvariant, WorkerInvGone, PTL

\* A turn that was stopped stays it.
COROLLARY ProcessesKeepStopped == Spec => StoppedStays
PROOF
  <1>1. Init /\ [][Next]_processesVars => SessionInit /\ [][SessionNext]_sessionVars
    BY EitherSideIs, PTL
  <1> QED
    BY <1>1, StoppedIsKept, PTL DEF Spec

\* The run of a message Pi accepted is listened to, whatever else the host does.
COROLLARY ProcessesHearAccepted == Spec => []AcceptedIsHeard
PROOF
  <1>1. Init /\ [][Next]_processesVars => SessionInit /\ [][SessionNext]_sessionVars
    BY EitherSideIs, PTL
  <1> QED
    BY <1>1, HearInvariant, WorkerInvariant, HearInvHears, PTL DEF Spec

\* Both sides keep their state in its type, whichever processes die.
COROLLARY ProcessesKeepTypes == Spec => []ProcessesTypeOK
PROOF
  <1>1. HostInv /\ WorkerInv => ProcessesTypeOK
    BY WorkerInvTyped DEF HostInv, ProcessesTypeOK
  <1> QED
    BY <1>1, ProcessesInvariant, PTL
=============================================================================
