--------------------------- MODULE ClockSchedule ---------------------------
(* The alarms of the clock: rows of scheduled_alarms, and the events that   *)
(* AlarmManager holds for them.  Every operation of ClockRepositoryImpl     *)
(* reads the row once and then goes through a few calls of the scheduler    *)
(* and of the DAO, decided by what it has read; no lock keeps two of them   *)
(* apart.  A ring, a restart and the loss of a permission can fall between  *)
(* any two of those calls.                                                  *)
(*                                                                          *)
(* Time is counted in ticks, and a repeating alarm rings every Period of    *)
(* them.  Timers, the pre-alarm notification and the alert screen are left  *)
(* out; what the alert does to the schedule is the call of snoozeAlarm.     *)
EXTENDS Integers, Sequences

CONSTANTS Alarm, Proc,     \* alarms, and coroutines that may run at once
          None,
          Period,          \* ticks between two rings of a repeating alarm
          MaxTime,         \* the last tick
          Operations,      \* the calls and the faults of this instance
          MaxCalls,        \* bound on the calls of the user
          MaxFaults        \* bound on reboots, deaths, losses and failures

ASSUME ProcAssumption == Proc \subseteq Nat
ASSUME PeriodAssumption == Period \in Nat \ {0, 1}
ASSUME BoundsAssumption == {MaxTime, MaxCalls, MaxFaults} \subseteq Nat
ASSUME NoneAssumption ==
    None \notin [trigger: 0 .. MaxTime + Period, snoozed: 0 .. MaxTime + Period,
                 repeat: BOOLEAN, enabled: BOOLEAN, fired: BOOLEAN]

VARIABLES row,         \* scheduled_alarms
          armed,       \* what AlarmManager holds
          now,
          exact,       \* exact alarms are permitted
          notify,      \* notifications are enabled
          job,         \* the call each coroutine is in
          ringing,     \* the alarms whose alert is shown
          calls, faults,
          apart        \* history: alarms something has happened to

vars == <<row, armed, now, exact, notify, job, ringing, calls, faults, apart>>

Time == 0 .. MaxTime + Period
Rows == [trigger: Time, snoozed: Time, repeat: BOOLEAN,
         enabled: BOOLEAN, fired: BOOLEAN]
Silent == [ring |-> 0, snooze |-> 0]

Idle == [call |-> "IDLE", on |-> {}]
Busy(a) == {p \in Proc : a \in job[p].on}
Free(p) == job[p].call = "IDLE"
(* Coroutines are alike: a new one takes the first free place.              *)
FirstFree(p) == Free(p) /\ \A q \in Proc : Free(q) => p <= q
Overdue(a) ==
    \E kind \in {"ring", "snooze"} : armed[a][kind] # 0 /\ armed[a][kind] <= now
May(op) == op \in Operations

TypeOK ==
    /\ row \in [Alarm -> Rows \cup {None}]
    /\ armed \in [Alarm -> [ring: Time, snooze: Time]]
    /\ now \in 0 .. MaxTime /\ exact \in BOOLEAN /\ notify \in BOOLEAN
    /\ \A p \in Proc :
         /\ job[p].on \subseteq Alarm
         /\ ~Free(p) /\ job[p].call \notin {"RING", "BOOT"} => job[p].todo # <<>>
    /\ ringing \subseteq Alarm /\ apart \subseteq Alarm
    /\ calls \in 0 .. MaxCalls /\ faults \in 0 .. MaxFaults

(***************************************************************************)
(* What an operation will do, decided when it reads the row                *)
(***************************************************************************)
Do(what, a, e) == [do |-> what, alarm |-> a, row |-> e]
Cancel(a) == Do("CANCEL", a, None)
Arm(a, e) == Do("ARM", a, e)
Store(a, e) == Do("STORE", a, e)

(* Mutant: today is not considered.                                         *)
TomorrowTrigger(e, after) ==
    IF e.repeat THEN CHOOSE t \in after + 2 .. after + Period + 1 :
                       (t - e.trigger) % Period = 0
    ELSE IF e.trigger > after THEN e.trigger ELSE 0

(* nextTriggerAtMillis: the same time of day, or the one time of a one-off. *)
NextTrigger(e, after) ==
    IF e.repeat THEN CHOOSE t \in after + 1 .. after + Period :
                       (t - e.trigger) % Period = 0
    ELSE IF e.trigger > after THEN e.trigger ELSE 0

Awaits(e) == e # None /\ e.enabled /\ ~e.fired

Fresh(trigger, repeat) ==
    [trigger |-> trigger, snoozed |-> 0, repeat |-> repeat,
     enabled |-> TRUE, fired |-> FALSE]

(* Some alarms have been set before, and ring at the next tick.             *)
Init ==
    /\ row \in [Alarm -> {None} \cup {Fresh(1, r) : r \in BOOLEAN}]
    /\ armed = [a \in Alarm |-> IF row[a] = None THEN Silent
                               ELSE [Silent EXCEPT !.ring = row[a].trigger]]
    /\ now = 0 /\ exact = TRUE /\ notify = TRUE
    /\ job = [p \in Proc |-> Idle]
    /\ ringing = {} /\ apart = {} /\ calls = 0 /\ faults = 0

(* Mutant: a repeating alarm is scheduled again without a new trigger.      *)
AfterRingUnmoved(a, e, occurrence) ==
    IF e.trigger # occurrence THEN <<>>
    ELSE IF ~e.repeat THEN <<Do("FIRE", a, None)>>
    ELSE <<Cancel(a), Arm(a, e)>>

(* handleScheduledEvent: an occurrence that is neither the snooze nor the   *)
(* trigger of the row is an old one.                                        *)
AfterRing(a, e, occurrence) ==
    IF e.snoozed = occurrence
    THEN LET u == [e EXCEPT !.snoozed = 0, !.fired = ~e.repeat]
         IN  <<Cancel(a), Store(a, u), Arm(a, u)>>
    ELSE IF e.trigger # occurrence THEN <<>>
    ELSE IF ~e.repeat THEN <<Do("FIRE", a, None)>>
    ELSE LET u == [e EXCEPT !.trigger = NextTrigger(e, e.trigger), !.fired = FALSE]
         IN  <<Cancel(a), Store(a, u), Arm(a, u)>>

Due(e) == IF e.snoozed # 0 THEN e.snoozed ELSE e.trigger

(* restoreScheduledEntries, for one row.                                    *)
Restore(a, e) ==
    IF e.fired \/ ~e.enabled THEN <<>>
    ELSE IF ~exact THEN <<Store(a, [e EXCEPT !.enabled = FALSE])>>
    ELSE IF Due(e) > now THEN <<Arm(a, e)>>
    ELSE IF ~e.repeat THEN <<Do("FIRE", a, None)>>
    ELSE LET u == [e EXCEPT !.trigger = NextTrigger(e, now), !.snoozed = 0]
         IN  <<Store(a, u), Arm(a, u)>>

(* All rows are read before the first of them is restored.                  *)
RestoreAll == {Restore(a, row[a]) : a \in {b \in Alarm : row[b] # None}} \ {<<>>}

(***************************************************************************)
(* The calls                                                               *)
(***************************************************************************)
(* The screens list the rows that have not fired.                           *)
Shown == {a \in Alarm : row[a] # None /\ ~row[a].fired}

Enter(p, call, on, todo, undo) ==
    /\ FirstFree(p)
    /\ job' = [job EXCEPT ![p] = IF todo = <<>> THEN Idle ELSE
                  [call |-> call, on |-> on, todo |-> todo, rest |-> {},
                   undo |-> undo, since |-> now]]
    /\ apart' = apart \cup {a \in on : Busy(a) # {}}

UserCall(p, call, a, todo, undo) ==
    /\ May(call) /\ calls < MaxCalls
    /\ calls' = calls + 1
    /\ Enter(p, call, {a}, todo, undo)
    /\ UNCHANGED <<row, armed, now, exact, notify, ringing, faults>>

CreateAlarm(p) ==
    \E a \in Alarm, d \in 1 .. Period, repeat \in BOOLEAN :
        /\ row[a] = None /\ armed[a] = Silent /\ Busy(a) = {} /\ a \notin apart
        /\ exact /\ notify /\ now + d <= MaxTime
        /\ UserCall(p, "CREATE", a,
             <<Arm(a, Fresh(now + d, repeat)), Store(a, Fresh(now + d, repeat))>>,
             <<Cancel(a)>>)

UpdateAlarm(p) ==
    \E a \in Shown, d \in 1 .. Period, repeat \in BOOLEAN :
        /\ exact /\ notify /\ now + d <= MaxTime
        /\ UserCall(p, "UPDATE", a,
             <<Cancel(a), Arm(a, Fresh(now + d, repeat)),
               Store(a, Fresh(now + d, repeat))>>,
             <<Cancel(a), Arm(a, row[a])>>)

DisableAlarm(p) ==
    \E a \in Shown :
        /\ row[a].enabled
        /\ UserCall(p, "DISABLE", a,
             <<Cancel(a), Store(a, [row[a] EXCEPT !.enabled = FALSE])>>,
             <<Arm(a, row[a])>>)

EnableAlarm(p) ==
    \E a \in Shown :
        /\ ~row[a].enabled
        /\ exact /\ NextTrigger(row[a], now) # 0
        /\ LET u == Fresh(NextTrigger(row[a], now), row[a].repeat)
           IN  UserCall(p, "ENABLE", a, <<Arm(a, u), Store(a, u)>>, <<Cancel(a)>>)

CancelAlarm(p) ==
    \E a \in Shown :
        /\ UserCall(p, "DELETE", a, <<Cancel(a), Do("DELETE", a, None)>>, <<>>)

(* The pre-alarm notification, less than a tick before a ring, offers to    *)
(* skip it.                                                                 *)
SkipOccurrence(p) ==
    \E a \in Shown :
        /\ row[a].enabled /\ row[a].repeat
        /\ row[a].trigger = now + 1 /\ now < MaxTime
        /\ LET u == [row[a] EXCEPT !.trigger = NextTrigger(row[a], row[a].trigger),
                                   !.fired = FALSE, !.snoozed = 0]
           IN  UserCall(p, "SKIP", a, <<Cancel(a), Arm(a, u), Store(a, u)>>,
                        <<Cancel(a), Arm(a, row[a])>>)

(* The alert of an alarm is snoozed, by a button, by voice or when it has   *)
(* been left alone.  A snooze is short: it ends before the next ring.       *)
SnoozeAlarm(p) ==
    \E a \in ringing :
        /\ row[a] # None /\ row[a].enabled
        /\ row[a].trigger > now => row[a].trigger > now + 1
        /\ LET u == [row[a] EXCEPT !.fired = FALSE, !.snoozed = now + 1]
           IN  UserCall(p, "SNOOZE", a, <<Cancel(a), Arm(a, u), Store(a, u)>>,
                        <<Cancel(a), Arm(a, row[a])>>)

(***************************************************************************)
(* AlarmManager and the receivers                                          *)
(***************************************************************************)
(* AlarmBroadcastReceiver starts the alert, and then the coroutine that     *)
(* will read the row.                                                       *)
Ring(p) ==
    \E a \in Alarm, kind \in {"ring", "snooze"} :
        /\ FirstFree(p)
        /\ armed[a][kind] # 0 /\ armed[a][kind] <= now
        /\ armed' = [armed EXCEPT ![a][kind] = 0]
        /\ ringing' = ringing \cup {a}
        /\ job' = [job EXCEPT ![p] = [call |-> "RING", on |-> {a},
                      since |-> now, alarm |-> a, occurrence |-> armed[a][kind]]]
        /\ apart' = IF Busy(a) = {} THEN apart ELSE apart \cup {a}
        /\ UNCHANGED <<row, now, exact, notify, calls, faults>>

(* A coroutine goes through plans for several alarms one after the other,   *)
(* in any order.                                                            *)
Planned(p, plans, since) ==
    IF plans = {} THEN job' = [job EXCEPT ![p] = Idle]
    ELSE \E todo \in plans :
           job' = [job EXCEPT ![p] =
             [call |-> "HANDLE", on |-> job[p].on, todo |-> todo,
              rest |-> plans \ {todo}, undo |-> <<>>, since |-> since]]

ReadAfterRing(p) ==
    /\ job[p].call = "RING"
    /\ LET a == job[p].alarm
       IN  Planned(p, IF row[a] = None THEN {}
                      ELSE {AfterRing(a, row[a], job[p].occurrence)} \ {<<>>},
                  now)
    /\ UNCHANGED <<row, armed, now, exact, notify, ringing, calls, faults, apart>>

ReadAfterBoot(p) ==
    /\ job[p].call = "BOOT"
    /\ Planned(p, RestoreAll, now)
    /\ UNCHANGED <<row, armed, now, exact, notify, ringing, calls, faults, apart>>

EndAlert ==
    /\ ringing # {}
    /\ ringing' = {}
    /\ UNCHANGED <<row, armed, now, exact, notify, job, calls, faults, apart>>

(* Events are delivered on time, and an alert ends, as a call does, long    *)
(* before a whole tick is over.                                             *)
Tick ==
    /\ now < MaxTime
    /\ ringing = {}
    /\ \A a \in Alarm : ~Overdue(a)
    /\ \A p \in Proc : ~Free(p) => job[p].since = now
    /\ now' = now + 1
    /\ UNCHANGED <<row, armed, exact, notify, job, ringing, calls, faults, apart>>

(***************************************************************************)
(* The steps of a call                                                     *)
(***************************************************************************)
Next1(p) == Head(job[p].todo)
On(p, what) ==
    /\ job[p].call \notin {"IDLE", "RING", "BOOT"}
    /\ Next1(p).do = what

Goto(p, todo, call) ==
    IF todo # <<>>
    THEN job' = [job EXCEPT ![p] = [@ EXCEPT !.todo = todo, !.call = call]]
    ELSE Planned(p, job[p].rest, job[p].since)
Continue(p) == Goto(p, Tail(job[p].todo), job[p].call)
Undo(p, todo) == Goto(p, todo, "UNDO")

(* Mutant: the event of the snooze is forgotten.                            *)
StepCancelPrimary(p) ==
    /\ On(p, "CANCEL")
    /\ armed' = [armed EXCEPT ![Next1(p).alarm].ring = 0]
    /\ Continue(p)
    /\ UNCHANGED <<row, now, exact, notify, ringing, calls, faults, apart>>

(* cancelAlarmEvents                                                        *)
StepCancel(p) ==
    /\ On(p, "CANCEL")
    /\ armed' = [armed EXCEPT ![Next1(p).alarm] = Silent]
    /\ Continue(p)
    /\ apart' = IF Overdue(Next1(p).alarm) THEN apart \cup {Next1(p).alarm}
                ELSE apart
    /\ UNCHANGED <<row, now, exact, notify, ringing, calls, faults>>

(* The events of a row that were still to come when the call began.         *)
EventsOf(e, since, held) ==
    [ring |-> IF e.enabled /\ ~e.fired /\ e.trigger > since
              THEN e.trigger ELSE held.ring,
     snooze |-> IF e.enabled /\ e.snoozed > since THEN e.snoozed ELSE held.snooze]

(* scheduleAlarmEvents.  Its answer decides only in createAlarm and in      *)
(* updateAlarm.                                                             *)
StepArm(p) ==
    /\ On(p, "ARM")
    /\ LET a == Next1(p).alarm
           events == EventsOf(Next1(p).row, job[p].since, armed[a])
           none == EventsOf(Next1(p).row, job[p].since, Silent) = Silent
       IN  \/ /\ none \/ (exact /\ notify)
              /\ armed' = [armed EXCEPT ![a] = events]
              /\ Continue(p)
              /\ UNCHANGED apart
           \/ /\ ~none /\ ~(exact /\ notify)
              /\ apart' = apart \cup {a}
              /\ IF job[p].call \in {"CREATE", "UPDATE"}
                 THEN Undo(p, Tail(job[p].undo)) ELSE Continue(p)
              /\ UNCHANGED armed
    /\ UNCHANGED <<row, now, exact, notify, ringing, calls, faults>>

StepStore(p) ==
    /\ On(p, "STORE")
    /\ row' = [row EXCEPT ![Next1(p).alarm] = Next1(p).row]
    /\ Continue(p)
    /\ UNCHANGED <<armed, now, exact, notify, ringing, calls, faults, apart>>

(* The insert throws, and the operation takes back what it has scheduled.   *)
(* Nothing catches it in the receivers, where nothing is taken back: there  *)
(* it ends the process (Die).                                               *)
StoreFails(p) ==
    /\ May("FAIL") /\ faults < MaxFaults
    /\ On(p, "STORE") /\ job[p].undo # <<>>
    /\ faults' = faults + 1
    /\ Undo(p, job[p].undo)
    /\ UNCHANGED <<row, armed, now, exact, notify, ringing, calls, apart>>

(* An UPDATE or a DELETE of one row does nothing if the row is gone.        *)
StepFire(p) ==
    /\ On(p, "FIRE")
    /\ row' = [row EXCEPT ![Next1(p).alarm] =
                 IF @ = None THEN None ELSE [@ EXCEPT !.fired = TRUE]]
    /\ Continue(p)
    /\ UNCHANGED <<armed, now, exact, notify, ringing, calls, faults, apart>>

StepDelete(p) ==
    /\ On(p, "DELETE")
    /\ row' = [row EXCEPT ![Next1(p).alarm] = None]
    /\ Continue(p)
    /\ UNCHANGED <<armed, now, exact, notify, ringing, calls, faults, apart>>

Step(p) ==
    \/ ReadAfterRing(p) \/ ReadAfterBoot(p)
    \/ StepCancel(p) \/ StepArm(p) \/ StepStore(p) \/ StoreFails(p)
    \/ StepFire(p) \/ StepDelete(p)

(***************************************************************************)
(* Faults                                                                  *)
(***************************************************************************)
Fault(kind) == May(kind) /\ faults < MaxFaults /\ faults' = faults + 1

(* A trigger that was never advanced, with a snooze still to come: the row  *)
(* counts as future, so restoreScheduledEntries arms the snooze alone.      *)
PassedBehindSnooze(e, t) ==
    Awaits(e) /\ e.repeat /\ e.trigger <= t /\ e.snoozed > t

(* The device is off for a while.  AlarmManager forgets every event, and    *)
(* BootCompletedReceiver starts the coroutine that restores them.           *)
Reboot ==
    /\ Fault("REBOOT")
    /\ now' \in now .. MaxTime
    /\ armed' = [a \in Alarm |-> Silent]
    /\ \E p \in Proc :
         /\ \A q \in Proc : p <= q
         /\ job' = [[q \in Proc |-> Idle] EXCEPT ![p] = [call |-> "BOOT", on |-> Alarm, since |-> now']]
    /\ ringing' = {}
    /\ apart' = {a \in Alarm : PassedBehindSnooze(row[a], now')}
    /\ UNCHANGED <<row, exact, notify, calls>>

(* The process dies; AlarmManager and the table outlive it.                 *)
Killed ==
    /\ job' = [p \in Proc |-> Idle]
    /\ ringing' = {}

Die ==
    /\ Fault("DIE")
    /\ Killed
    /\ apart' = apart \cup UNION {job[p].on : p \in Proc}
    /\ UNCHANGED <<row, armed, now, exact, notify, calls>>

(* The platform cancels the exact alarms of an app that may no longer set   *)
(* them, and stops it.                                                      *)
RevokeExact ==
    /\ Fault("EXACT") /\ exact
    /\ exact' = FALSE
    /\ armed' = [a \in Alarm |-> Silent]
    /\ Killed
    /\ apart' = Alarm
    /\ UNCHANGED <<row, now, notify, calls>>

GrantExact ==
    /\ ~exact /\ exact' = TRUE
    /\ UNCHANGED <<row, armed, now, notify, job, ringing, calls, faults, apart>>

NotificationsOff ==
    /\ Fault("NOTIFY") /\ notify
    /\ notify' = FALSE
    /\ UNCHANGED <<row, armed, now, exact, job, ringing, calls, apart>>

NotificationsOn ==
    /\ ~notify /\ notify' = TRUE
    /\ UNCHANGED <<row, armed, now, exact, job, ringing, calls, faults, apart>>

-----------------------------------------------------------------------------
Call(p) ==
    \/ CreateAlarm(p) \/ UpdateAlarm(p) \/ DisableAlarm(p) \/ EnableAlarm(p)
    \/ CancelAlarm(p) \/ SkipOccurrence(p) \/ SnoozeAlarm(p)

Next ==
    \/ \E p \in Proc : Call(p) \/ Ring(p) \/ Step(p)
    \/ EndAlert \/ Tick
    \/ Reboot \/ Die \/ RevokeExact \/ GrantExact
    \/ NotificationsOff \/ NotificationsOn

Spec == Init /\ [][Next]_vars

(* Coroutines run, AlarmManager delivers, alerts end and time passes.       *)
FairSpec ==
    /\ Spec
    /\ \A p \in Proc : WF_vars(Ring(p)) /\ WF_vars(Step(p))
    /\ WF_vars(EndAlert) /\ WF_vars(Tick)

-----------------------------------------------------------------------------
(* The events held are what the row asks for.                               *)
Settled(e, held) ==
    /\ ~Awaits(e) => held = Silent
    /\ Awaits(e) =>
         /\ held.snooze = e.snoozed
         /\ \/ held.ring = e.trigger
            \/ held.ring = 0 /\ ~e.repeat /\ e.snoozed # 0

InStep(a) == Settled(row[a], armed[a])

(* The table and AlarmManager are kept in step by compensation alone: after *)
(* any sequence of calls, rings, reboots and failed inserts, a waiting      *)
(* alarm is armed for the time its row shows and no other event is left     *)
(* behind, except for an alarm on which two calls have overlapped, whose    *)
(* event was cancelled at the moment it was due, whose scheduling was       *)
(* refused or whose call was killed.  A reboot heals those, unless a snooze *)
(* hides a trigger that has passed.                                         *)
AlarmsAgree == \A a \in Alarm : Busy(a) = {} /\ a \notin apart => InStep(a)

(* A repeating alarm does not stop at an occurrence: each is rung and       *)
(* handled, skipped, or passed over by a restore (handleScheduledEvent,     *)
(* restoreScheduledEntries).                                                *)
Waits(a, t) ==
    a \notin apart /\ Awaits(row[a]) /\ row[a].repeat /\ row[a].trigger = t

RepeatingAlarmGoesOn ==
    \A a \in Alarm, t \in 1 .. MaxTime : Waits(a, t) ~> ~Waits(a, t)

(* "Future scheduled occurrences remain active unless the user explicitly   *)
(* disables the alarm": with both permissions there and nothing in          *)
(* progress, the alarm that the user sees as enabled is armed.              *)
EnabledMeansArmed ==
    \A a \in Alarm :
        exact /\ notify /\ Busy(a) = {} /\ Awaits(row[a]) /\ row[a].repeat
          => armed[a].ring # 0
-----------------------------------------------------------------------------
(* The inductive invariant, first its types.  A snooze ends a tick after it *)
(* was asked for at the latest, an event that is held is never in the past, *)
(* a call lasts less than a tick, and a coroutine goes through the plan of  *)
(* one alarm at a time.                                                     *)
Entries == {e \in Rows : e.snoozed <= now + 1}

StepsOn(a) ==
    [do : {"ARM", "STORE"}, alarm : {a}, row : Entries]
      \cup [do : {"CANCEL", "FIRE", "DELETE"}, alarm : {a}, row : {None}]

Working(p) == job[p].call \notin {"IDLE", "RING", "BOOT"}

JobOK(p) ==
    /\ job[p].on \subseteq Alarm
    /\ Free(p) => job[p] = Idle
    /\ ~Free(p) => job[p].since \in Nat /\ now \in {job[p].since, job[p].since + 1}
    /\ job[p].call = "BOOT" => job[p].on = Alarm
    /\ job[p].call = "RING" =>
         /\ job[p].on = {job[p].alarm}
         /\ job[p].occurrence = job[p].since /\ job[p].occurrence # 0
    /\ Working(p) =>
         /\ job[p].todo # <<>>
         /\ \E a \in job[p].on :
              job[p].todo \in Seq(StepsOn(a)) /\ job[p].undo \in Seq(StepsOn(a))
         /\ \A plan \in job[p].rest :
              plan # <<>> /\ \E a \in job[p].on : plan \in Seq(StepsOn(a))
         /\ job[p].call \in {"CREATE", "UPDATE"} => job[p].undo # <<>>

NotLate ==
    \A a \in Alarm : \A kind \in {"ring", "snooze"} :
        armed[a][kind] # 0 => armed[a][kind] >= now

TypeInv ==
    /\ TypeOK /\ NotLate
    /\ row \in [Alarm -> Entries \cup {None}]
    /\ job = [p \in Proc |-> job[p]]
    /\ \A p \in Proc : JobOK(p)

(* Scheduling the row settles it, if nothing is held for it before.         *)
Arms(e, since) ==
    e # None /\ e.snoozed <= since + 1 /\ Settled(e, EventsOf(e, since, Silent))

(* A row that has rung for good, and one that can be stored.                *)
RungOut(e) == e.snoozed <= now /\ ~e.repeat
Storable(e) == e.fired => e.snoozed = 0 /\ ~e.repeat

(* An operation that can still be taken back.                               *)
Undoes(a, undo, since) ==
    \/ undo = <<Cancel(a)>> /\ ~Awaits(row[a])
    \/ undo = <<Cancel(a), Arm(a, row[a])>> /\ Arms(row[a], since)

(* Scheduling the row will settle it, once its events have been cancelled.  *)
Rearmable(a, since) ==
    /\ row[a] # None /\ InStep(a) /\ row[a].snoozed <= since + 1
    /\ row[a].fired => row[a].snoozed <= since

(* The plan, left alone, ends with the alarm in step: what remains of it    *)
(* fits the row and the events as they are.                                 *)
PlanSettles(a, todo, undo, since, e) ==
    \/ /\ todo = <<Cancel(a), Arm(a, e), Store(a, e)>> /\ Arms(e, since)
       /\ undo = <<Cancel(a), Arm(a, row[a])>> /\ Rearmable(a, since)
    \/ /\ todo = <<Arm(a, e), Store(a, e)>> /\ Arms(e, since)
       /\ armed[a] = Silent /\ Undoes(a, undo, since)
    \/ /\ todo = <<Store(a, e)>> /\ Settled(e, armed[a])
       /\ \/ undo = <<>> \/ Undoes(a, undo, since)
          \/ undo = <<Arm(a, row[a])>> /\ armed[a] = Silent /\ Arms(row[a], since)
    \/ /\ todo = <<Cancel(a), Store(a, e)>> /\ ~Awaits(e)
       /\ undo = <<Arm(a, row[a])>> /\ Rearmable(a, since)
    \/ /\ todo = <<Cancel(a), Store(a, e), Arm(a, e)>> /\ Arms(e, since)
       /\ undo = <<>>
    \/ /\ todo = <<Store(a, e), Arm(a, e)>> /\ Arms(e, since)
       /\ undo = <<>> /\ armed[a] = Silent

Settles(a, todo, undo, since) ==
    \/ \E e \in Rows : Storable(e) /\ PlanSettles(a, todo, undo, since, e)
    \/ todo = <<Arm(a, row[a])>> /\ Arms(row[a], since) /\ armed[a] = Silent
    \/ todo = <<Cancel(a), Arm(a, row[a])>> /\ Arms(row[a], since)
    \/ todo = <<Cancel(a)>> /\ ~Awaits(row[a])
    \/ todo = <<Cancel(a), Do("DELETE", a, None)>> /\ undo = <<>>
    \/ todo = <<Do("DELETE", a, None)>> /\ armed[a] = Silent
    \/ /\ todo = <<Do("FIRE", a, None)>> /\ armed[a] = Silent
       /\ row[a] # None => RungOut(row[a])
    \/ todo # <<>> /\ Head(todo) = Cancel(a) /\ Overdue(a)

(* The event that rang is the one the row shows.                            *)
Rung(a, occurrence) ==
    /\ Awaits(row[a])
    /\ \/ /\ occurrence = row[a].trigger /\ row[a].snoozed = 0
          /\ armed[a] = Silent
       \/ /\ occurrence = row[a].snoozed /\ armed[a].snooze = 0
          /\ \/ armed[a].ring = row[a].trigger
             \/ armed[a].ring = 0 /\ ~row[a].repeat
       \/ occurrence = row[a].snoozed /\ Overdue(a)

Concerns(plan, a) == Head(plan).alarm = a

Heading(a, p) ==
    /\ job[p].call = "RING" => Rung(a, job[p].occurrence)
    /\ job[p].call = "BOOT" =>
         armed[a] = Silent /\ ~PassedBehindSnooze(row[a], now)
    /\ Working(p) /\ Concerns(job[p].todo, a) =>
         /\ Settles(a, job[p].todo, job[p].undo, job[p].since)
         /\ \A plan \in job[p].rest : ~Concerns(plan, a)
    /\ Working(p) /\ ~Concerns(job[p].todo, a) =>
         /\ \A plan \in job[p].rest :
              Concerns(plan, a) => Settles(a, plan, <<>>, job[p].since)
         /\ \A plan, other \in job[p].rest :
              Concerns(plan, a) /\ Concerns(other, a) => plan = other
         /\ (\A plan \in job[p].rest : ~Concerns(plan, a)) => InStep(a)

(* An alarm that has not come apart is in step, or the only coroutine that  *)
(* is busy with it brings it there.                                         *)
AlarmInv(a) ==
    /\ \A p, q \in Busy(a) : p = q
    /\ Busy(a) = {} => InStep(a)
    /\ \A p \in Busy(a) : Heading(a, p)
    /\ armed[a].ring # 0 /\ armed[a].snooze # 0 => armed[a].snooze <= armed[a].ring
    /\ a \in ringing /\ row[a] # None /\ row[a].fired => RungOut(row[a])

AgreeInv == TypeInv /\ \A a \in Alarm \ apart : AlarmInv(a)
=============================================================================
