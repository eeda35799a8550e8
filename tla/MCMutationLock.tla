--------------------------- MODULE MCMutationLock ---------------------------
(***************************************************************************)
(* Programs that use the job lock, as the server does, on two jobs "a" and *)
(* "z" of which "a" sorts first.  A row gives a section's thread, the      *)
(* section whose body calls it, the one awaited first, and its marks.      *)
(***************************************************************************)
EXTENDS MutationLock

Row(thread, parent, after, marks) ==
    [thread |-> thread, parent |-> parent, after |-> after, marks |-> marks]

\* continueWorkerJob on z with its nested callback replacement and its message;
\* the store change it causes (handleStoreChange leaves the context) and a
\* detached continuation that kept it; the ordered locks of all jobs, once for
\* the store change and once for a closing session, which re-enter to post.
Jobs ==
    [steer   |-> Row("z", "none", "none", {}),
     replace |-> Row("z", "steer", "none", {"awaited"}),
     send    |-> Row("z", "steer", "replace", {"awaited", "optional"}),
     change  |-> Row("a", "steer", "none", {"escaped"}),
     changeZ |-> Row("z", "change", "none", {"awaited"}),
     post    |-> Row("z", "changeZ", "none", {"awaited", "optional"}),
     kept    |-> Row("z", "steer", "send", {}),
     keptZ   |-> Row("z", "kept", "none", {"awaited"}),
     keptA   |-> Row("a", "steer", "send", {}),
     cancel  |-> Row("a", "none", "none", {}),
     cancelZ |-> Row("z", "cancel", "none", {"awaited"})]

\* handoffWorkerAtomically from z to the new job a: it registers the callback of
\* a and removes that of z; when something fails after the registration, it
\* removes the callback of a again.  The registration is a store change, which
\* locks both jobs in order.  A report to z and a message to a wait as well.
HandoffCalls ==
    [handoff |-> Row("z", "none", "none", {}),
     track   |-> Row("a", "handoff", "none", {"awaited"}),
     removeZ |-> Row("z", "handoff", "track", {"awaited", "optional"}),
     remove  |-> Row("a", "handoff", "removeZ", {"awaited", "optional"}),
     change  |-> Row("a", "handoff", "track", {"escaped"}),
     changeZ |-> Row("z", "change", "none", {"awaited"}),
     report  |-> Row("z", "none", "none", {}),
     message |-> Row("a", "none", "track", {})]

SectionsOf(program) == DOMAIN program
ThreadOf(program) == [s \in DOMAIN program |-> program[s].thread]
ParentOf(program) == [s \in DOMAIN program |-> program[s].parent]
AfterOf(program)  == [s \in DOMAIN program |-> program[s].after]
Marked(program, mark) == {s \in DOMAIN program : mark \in program[s].marks}

JobsSections == SectionsOf(Jobs)
JobsThread   == ThreadOf(Jobs)
JobsParent   == ParentOf(Jobs)
JobsAfter    == AfterOf(Jobs)
JobsAwaited  == Marked(Jobs, "awaited")
JobsEscaped  == Marked(Jobs, "escaped")
JobsOptional == Marked(Jobs, "optional")

HandoffSections == SectionsOf(HandoffCalls)
HandoffThread   == ThreadOf(HandoffCalls)
HandoffParent   == ParentOf(HandoffCalls)
HandoffAfter    == AfterOf(HandoffCalls)
HandoffAwaited  == Marked(HandoffCalls, "awaited")
HandoffEscaped  == Marked(HandoffCalls, "escaped")
HandoffOptional == Marked(HandoffCalls, "optional")

\* Neither program lets a section outlast the turn it runs under.
ASSUME ProgramsCoverTurns == TurnsCover
=============================================================================
