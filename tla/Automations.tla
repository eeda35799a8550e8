---------------------------- MODULE Automations ----------------------------
(***************************************************************************)
(* The scheduled automation of a session: the scheduler's tick             *)
(* (session-automation-scheduler.ts), the claim, the settlement and the    *)
(* edits of the automation (pair-store.ts), the calendar of its runs       *)
(* (session-automation.ts), the operator's time zone, and Butler's restart.*)
(* An edit is answered when it is saved, and undone when its save fails    *)
(* (persistAutomationMutation, pair-session-manager.ts).                   *)
(*                                                                         *)
(* Time passes in ticks.  A calendar schedule has one occurrence (slot) a  *)
(* day, at a wall-clock time; a zone is by how many ticks its wall clock   *)
(* lags.  An automation holds its next run and the zone's slot it stands   *)
(* for, so a change of zone meets runs scheduled under the previous one.   *)
(* A weekly slot and a window's name their day, a daily one does not; only *)
(* the dated kinds and the interval are explored (Sessions.cfg).           *)
(***************************************************************************)
EXTENDS Integers, FiniteSetsExt

CONSTANTS Kinds,      \* kinds of schedule explored: "once", "daily", "weekly", "window", "interval"
          MaxSlot,    \* the last occurrence of the schedule
          DayLength,  \* ticks from one occurrence to the next
          MaxLag,     \* bound on the zones
          MaxTime,    \* bound on the clock
          MaxEdits,   \* bound on operator edits and zone changes
          MaxAutoFaults \* bound on restarts and failed saves

ASSUME AutomationsAssumption ==
    /\ Kinds \subseteq {"once", "daily", "weekly", "window", "interval"}
    /\ {MaxSlot, DayLength} \subseteq Nat \ {0}
    /\ {MaxLag, MaxTime, MaxEdits, MaxAutoFaults} \subseteq Nat

VARIABLES
    schedule,   \* the kind of schedule
    now, zone,
    auto,       \* pair.automation in memory; fired: the slots it had dispatched since
                \* it was last switched on
    autoFile,   \* the same in the saved state
    claimed,    \* the run that a tick has claimed and is saving, with its automation
    dispatched, \* runs handed to the session and not settled
    undo,       \* the automation that the last edit, while it is saved, would restore
    revived,    \* an undone edit brought back a run that is settled
    replayed,   \* a slot was dispatched again
    edits, autoFaults

autoVars == <<schedule, now, zone, auto, autoFile, claimed, dispatched, undo, revived, replayed,
              edits, autoFaults>>

NoSlot == [slot |-> 0, at |-> 0]
NoClaim == [auto |-> 0, run |-> NoSlot]
NoAuto == [id |-> 0, enabled |-> FALSE, next |-> NoSlot, run |-> NoSlot, last |-> NoSlot, fired |-> {}]

Slots == IF schedule = "once" THEN {1} ELSE 1..MaxSlot

\* The instant of a slot: wall time in the zone, except for an interval.
At(s, z) == s * DayLength + (IF schedule = "interval" THEN 0 ELSE z)

Earliest(slots, z) == IF slots = {} THEN NoSlot ELSE [slot |-> Min(slots), at |-> At(Min(slots), z)]

\* nextAutomationRunAt
NextAfter(t, z) == Earliest({s \in Slots : At(s, z) > t}, z)

\* (Fault) The slot that fired last is not skipped.
NextAfterOnly(t, z, last) == NextAfter(t, z)

\* nextCalendarRunAfterLastRun: slots up to the one that fired last are skipped.  A
\* daily slot does not name its day: it is the day of that run in the present zone.
NextAfterLast(t, z, last) ==
    IF last = NoSlot \/ schedule \in {"once", "interval"} THEN NextAfter(t, z)
    ELSE LET day == IF schedule = "daily" THEN (last.at - z) \div DayLength ELSE last.slot
         IN  Earliest({s \in Slots : At(s, z) > t /\ s > day}, z)

\* automationDispatchEndsAt: the end of the last day, of its window, of the interval.
PastEnd(t, z) ==
    /\ schedule # "once"
    /\ t > At(MaxSlot, z) + (IF schedule \in {"interval", "window"} THEN 0 ELSE DayLength - 1)

Due(a) == a.enabled /\ a.next # NoSlot /\ a.next.at <= now /\ a.run = NoSlot

AutomationInit ==
    /\ schedule \in Kinds
    /\ now = 0 /\ zone = 0
    /\ auto = NoAuto /\ autoFile = NoAuto
    /\ claimed = NoClaim /\ dispatched = {} /\ undo = {} /\ revived = FALSE /\ replayed = FALSE
    /\ edits = 0 /\ autoFaults = 0

-----------------------------------------------------------------------------
(* The scheduler.                                                          *)

\* A due run of a schedule that is over is recorded as skipped.
Expire ==
    /\ claimed = NoClaim /\ Due(auto) /\ PastEnd(now, zone)
    /\ auto' = [auto EXCEPT !.next = NoSlot, !.last = auto.next]
    /\ UNCHANGED <<schedule, now, zone, autoFile, claimed, dispatched, undo, revived, replayed, edits, autoFaults>>

\* An interval that fell behind runs its latest slot only.
ClaimedSlot ==
    IF schedule = "interval"
    THEN Earliest({Max({auto.next.slot} \cup {s \in Slots : At(s, zone) <= now})}, zone)
    ELSE auto.next

\* claimAutomationRun, once the session is found idle: the schedule advances and the
\* claim is to be saved.  A run is known by its slot and the time of its claim.
Claim ==
    /\ claimed = NoClaim /\ Due(auto) /\ ~PastEnd(now, zone)
    /\ auto' = [auto EXCEPT !.run = ClaimedSlot, !.next = NextAfter(now, zone)]
    /\ claimed' = [auto |-> auto.id, run |-> ClaimedSlot]
    /\ UNCHANGED <<schedule, now, zone, autoFile, dispatched, undo, revived, replayed, edits, autoFaults>>

Saving == claimed # NoClaim \/ undo # {}

\* flushPendingSave: everything is saved, and all that waited for it goes on.  A claim is
\* dispatched, be its automation deleted or replaced.
Dispatch ==
    /\ Saving
    /\ LET slots == IF claimed # NoClaim /\ claimed.auto = auto.id THEN {claimed.run.slot} ELSE {}
       IN  /\ auto' = [auto EXCEPT !.fired = @ \cup slots]
           /\ replayed' = (replayed \/ slots \cap auto.fired # {})
    /\ autoFile' = auto'
    /\ claimed' = NoClaim /\ undo' = {}
    /\ dispatched' = dispatched \cup ({claimed} \ {NoClaim})
    /\ UNCHANGED <<schedule, now, zone, revived, edits, autoFaults>>

\* finishAutomationRun: the run is settled and, when the automation is enabled, its
\* next run is found anew.
SettledBy(a, id, run) ==
    IF a.id # id \/ a.run # run THEN a
    ELSE [a EXCEPT !.last = run, !.run = NoSlot,
                   !.next = IF ~a.enabled THEN @
                            ELSE IF schedule # "interval" THEN NextAfterLast(now, zone, run)
                            ELSE IF @ = NoSlot \/ @.at <= now THEN NextAfter(now, zone) ELSE @]

\* The save of the claim fails: the run is settled as failed, never dispatched.
SaveClaimFails ==
    /\ claimed # NoClaim /\ undo = {} /\ autoFaults < MaxAutoFaults
    /\ autoFaults' = autoFaults + 1
    /\ auto' = SettledBy(auto, claimed.auto, claimed.run)
    /\ claimed' = NoClaim
    /\ UNCHANGED <<schedule, now, zone, autoFile, dispatched, undo, revived, replayed, edits>>

\* restoreAutomation: the save of an edit fails, and the automation is again what it was
\* before, a run that is settled since included.  A claim being saved fails with it.
EditUndone ==
    /\ autoFaults < MaxAutoFaults
    /\ autoFaults' = autoFaults + 1
    /\ \E before \in undo :
           /\ auto' = before
           /\ revived' = (before.run # NoSlot /\ [auto |-> before.id, run |-> before.run] \notin dispatched)
    /\ claimed' = NoClaim /\ undo' = {}
    /\ UNCHANGED <<schedule, now, zone, autoFile, dispatched, replayed, edits>>

Finish ==
    \E d \in dispatched :
        /\ dispatched' = dispatched \ {d}
        /\ auto' = SettledBy(auto, d.auto, d.run)
        /\ UNCHANGED <<schedule, now, zone, autoFile, claimed, undo, revived, replayed, edits, autoFaults>>

-----------------------------------------------------------------------------
(* The operator, the clock, the saved state, the restart.                  *)

Edit == edits < MaxEdits /\ edits' = edits + 1

\* persistAutomationMutation: what an edit found, while it is saved.
Undoable == undo' = {auto}

\* configureAutomationSchedule: a running automation refuses.
Configure ==
    /\ Edit
    /\ auto.run = NoSlot /\ NextAfter(now, zone) # NoSlot
    /\ auto' = [auto EXCEPT !.id = IF @ = 0 THEN edits' ELSE @, !.enabled = TRUE,
                            !.next = NextAfter(now, zone), !.fired = {}]
    /\ Undoable
    /\ UNCHANGED <<schedule, now, zone, autoFile, claimed, dispatched, revived, replayed, autoFaults>>

\* setAutomationEnabled
Pause ==
    /\ Edit
    /\ auto.enabled
    /\ auto' = [auto EXCEPT !.enabled = FALSE, !.next = NoSlot]
    /\ Undoable
    /\ UNCHANGED <<schedule, now, zone, autoFile, claimed, dispatched, revived, replayed, autoFaults>>

Resume ==
    /\ Edit
    /\ auto # NoAuto /\ ~auto.enabled /\ NextAfter(now, zone) # NoSlot
    /\ auto' = [auto EXCEPT !.enabled = TRUE, !.next = NextAfter(now, zone), !.fired = {}]
    /\ Undoable
    /\ UNCHANGED <<schedule, now, zone, autoFile, claimed, dispatched, revived, replayed, autoFaults>>

\* deleteAutomation: a run in flight goes on, and settles nothing.
DeleteAutomation ==
    /\ Edit
    /\ auto # NoAuto
    /\ auto' = NoAuto /\ revived' = FALSE
    /\ Undoable
    /\ UNCHANGED <<schedule, now, zone, autoFile, claimed, dispatched, replayed, autoFaults>>

\* recomputeAutomationSchedules: running, overdue and interval automations are left.
MoveZone ==
    /\ Edit
    /\ zone' \in 0..MaxLag \ {zone}
    /\ auto' = IF auto.enabled /\ auto.run = NoSlot /\ schedule # "interval" /\ ~Due(auto)
               THEN [auto EXCEPT !.next = NextAfterLast(now, zone', auto.last)]
               ELSE auto
    /\ UNCHANGED <<schedule, now, autoFile, claimed, dispatched, undo, revived, replayed, autoFaults>>

Elapse ==
    /\ now < MaxTime
    /\ now' = now + 1
    /\ UNCHANGED <<schedule, zone, auto, autoFile, claimed, dispatched, undo, revived, replayed, edits, autoFaults>>

\* queueSave
SaveAutomation ==
    /\ autoFile # auto
    /\ autoFile' = auto
    /\ UNCHANGED <<schedule, now, zone, auto, claimed, dispatched, undo, revived, replayed, edits, autoFaults>>

\* (Fault) A run that the restart cut off is left to finish.
ReconciledAsIs(a) == a

\* load and reconcileAutomationsAfterRestart: a run cut off, or missed, is recorded.
Reconciled(a) ==
    LET interrupted == a.run # NoSlot
        missed == a.enabled /\ ~interrupted /\ a.next # NoSlot /\ a.next.at <= now
        last   == IF interrupted THEN a.run ELSE IF missed THEN a.next ELSE a.last
        over   == schedule # "once" /\ PastEnd(now + 1, zone)
    IN  [a EXCEPT !.run = NoSlot, !.last = last,
                  !.next = IF ~a.enabled \/ over THEN NoSlot
                           ELSE IF schedule # "interval" THEN NextAfterLast(now, zone, last)
                           ELSE IF @ = NoSlot \/ @.at <= now THEN NextAfter(now, zone) ELSE @]

RestartButler ==
    /\ autoFaults < MaxAutoFaults
    /\ autoFaults' = autoFaults + 1
    /\ auto' = Reconciled(autoFile)
    /\ claimed' = NoClaim /\ dispatched' = {} /\ undo' = {} /\ revived' = FALSE
    /\ UNCHANGED <<schedule, now, zone, autoFile, replayed, edits>>

AutomationNext ==
    \/ Expire \/ Claim \/ Dispatch \/ SaveClaimFails \/ EditUndone \/ Finish
    \/ Configure \/ Pause \/ Resume \/ DeleteAutomation \/ MoveZone
    \/ Elapse \/ SaveAutomation \/ RestartButler

AutomationSpec == AutomationInit /\ [][AutomationNext]_autoVars

\* The tick is on a timer and the session does not stay busy for ever; a dispatch
\* ends within its six-hour limit; writes to the state file end.
AutomationFairness ==
    WF_autoVars(Claim \/ Expire) /\ WF_autoVars(Dispatch) /\ WF_autoVars(Finish)

-----------------------------------------------------------------------------
(* Properties.                                                             *)

AutoType(a) ==
    /\ a.id \in 0..MaxEdits /\ a.enabled \in BOOLEAN
    /\ \A s \in {a.next, a.run, a.last} : s = NoSlot \/ (s.slot \in Slots /\ s.at \in Nat)
    /\ a.fired \subseteq Slots

AutomationTypeOK ==
    /\ AutoType(auto) /\ AutoType(autoFile) /\ \A before \in undo : AutoType(before)
    /\ now \in 0..MaxTime /\ zone \in 0..MaxLag

\* Since its schedule was set or switched on, an automation runs no occurrence
\* twice, whatever the operator's zone becomes, through restarts and undone edits.
SlotFiresOnce == ~replayed

\* A run that is due is claimed or recorded as skipped, or its automation edited; and
\* a claimed one is settled: by its result, a failed save or the restart.  The exception
\* is the code's: a run that an undone edit brought back shows as running until a restart.
DueRunEnds ==
    /\ Due(auto) ~> ~Due(auto)
    /\ (auto.run # NoSlot) ~> (auto.run = NoSlot \/ revived)
=============================================================================
