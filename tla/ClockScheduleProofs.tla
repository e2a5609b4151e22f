------------------------- MODULE ClockScheduleProofs -------------------------
(* Proofs about ClockSchedule: the types of its state, and that the table   *)
(* and AlarmManager agree about every alarm that has not come apart, for    *)
(* any number of alarms and of coroutines, and any bounds.                  *)
EXTENDS ClockSchedule, TLAPS

(***************************************************************************)
(* The next trigger                                                        *)
(***************************************************************************)
(* Of Period ticks in a row one is at the time of day of the alarm.         *)
LEMMA SameTimeOfDay ==
    ASSUME NEW x \in Int
    PROVE  \E d \in 1 .. Period : (d + x) % Period = 0
<1>1. Period \in Nat \ {0}
  BY PeriodAssumption
<1> DEFINE d == Period - (x % Period)
<1>2. x % Period \in 0 .. Period - 1 /\ x \div Period \in Int
  BY <1>1, SMT
<1>3. x = Period * (x \div Period) + (x % Period)
  BY <1>1, SMT
<1>4. d \in 1 .. Period
  BY <1>1, <1>2, SMT
<1>5. d + x = Period * (1 + (x \div Period))
  BY <1>1, <1>2, <1>3, SMT
<1>6. \A k \in Int : (Period * k) % Period = 0
  BY <1>1, SMT
<1>7. (d + x) % Period = 0
  BY <1>2, <1>5, <1>6, SMT
<1> QED
  BY <1>4, <1>7

(* nextTriggerAtMillis answers a time that is still to come, within one     *)
(* period; after a trigger, it answers the trigger of the next period.      *)
LEMMA NextTriggerLater ==
    ASSUME NEW e \in Rows, NEW after \in Nat, e.repeat
    PROVE  /\ NextTrigger(e, after) \in after + 1 .. after + Period
           /\ e.trigger = after => NextTrigger(e, after) = after + Period
<1>1. Period \in Nat \ {0} /\ MaxTime \in Nat
  BY PeriodAssumption, BoundsAssumption
<1>2. e.trigger \in Int
  BY <1>1 DEF Rows, Time
<1> DEFINE gap == after - e.trigger
<1>3. PICK d \in 1 .. Period : (d + gap) % Period = 0
  <2>1. gap \in Int
    BY <1>2
  <2> HIDE DEF gap
  <2> QED
    BY <2>1, SameTimeOfDay
<1>4. after + d \in after + 1 .. after + Period
  BY <1>1, <1>3
<1>5. ((after + d) - e.trigger) % Period = 0
  <2>1. (after + d) - e.trigger = d + gap
    BY <1>1, <1>2, <1>3
  <2> HIDE DEF gap
  <2> QED
    BY <2>1, <1>3
<1>6. /\ NextTrigger(e, after) \in after + 1 .. after + Period
      /\ (NextTrigger(e, after) - e.trigger) % Period = 0
  BY <1>4, <1>5 DEF NextTrigger
<1>7. ASSUME e.trigger = after
      PROVE  NextTrigger(e, after) = after + Period
  <2> DEFINE n == NextTrigger(e, after) - after
  <2>1. n \in 1 .. Period /\ n % Period = 0
    BY <1>1, <1>6, <1>7
  <2>2. \A x \in 0 .. Period - 1 : x % Period = x
    BY <1>1, SMT
  <2>3. n = Period
    <3> HIDE DEF n
    <3> QED
      BY <1>1, <2>1, <2>2
  <2> QED
    BY <1>1, <1>6, <2>3
<1> QED
  BY <1>6, <1>7

(***************************************************************************)
(* The steps of a plan                                                     *)
(***************************************************************************)
LEMMA Numbers == Period \in Nat /\ Period >= 2 /\ MaxTime \in Nat
                 /\ MaxCalls \in Nat /\ MaxFaults \in Nat
BY PeriodAssumption, BoundsAssumption

LEMMA NoneIsNoRow == None \notin Rows
BY NoneAssumption DEF Rows, Time

LEMMA StepTypes ==
    ASSUME NEW a \in Alarm, NEW e \in Entries
    PROVE  /\ Arm(a, e) \in StepsOn(a) /\ Store(a, e) \in StepsOn(a)
           /\ Cancel(a) \in StepsOn(a)
           /\ Do("FIRE", a, None) \in StepsOn(a)
           /\ Do("DELETE", a, None) \in StepsOn(a)
BY DEF StepsOn, Arm, Store, Cancel, Do

LEMMA OwnSteps ==
    ASSUME NEW a \in Alarm
    PROVE  /\ Cancel(a) \in StepsOn(a)
           /\ Do("FIRE", a, None) \in StepsOn(a)
           /\ Do("DELETE", a, None) \in StepsOn(a)
BY DEF StepsOn, Cancel, Do

(* What the next call of a plan may be.                                     *)
LEMMA StepParts ==
    ASSUME NEW a \in Alarm, NEW s \in StepsOn(a)
    PROVE  /\ s.alarm = a
           /\ s.do \in {"ARM", "STORE", "CANCEL", "FIRE", "DELETE"}
           /\ s.do \in {"ARM", "STORE"} => s.row \in Entries
BY DEF StepsOn

LEMMA Plans ==
    ASSUME NEW S, NEW x \in S, NEW y \in S, NEW z \in S
    PROVE  /\ <<>> \in Seq(S) /\ <<x>> \in Seq(S) /\ <<x, y>> \in Seq(S)
           /\ <<x, y, z>> \in Seq(S)
           /\ <<x>> # <<>> /\ <<x, y>> # <<>> /\ <<x, y, z>> # <<>>
BY SMT

LEMMA Tails ==
    ASSUME NEW S, NEW t \in Seq(S), t # <<>>
    PROVE  Head(t) \in S /\ Tail(t) \in Seq(S)
BY SMT

LEMMA EntryTypes ==
    ASSUME now \in Nat, NEW e \in Entries
    PROVE  /\ e \in Rows /\ e.snoozed <= now + 1
           /\ e.trigger \in Nat /\ e.snoozed \in Nat
           /\ e.trigger <= MaxTime + Period /\ e.snoozed <= MaxTime + Period
           /\ e.repeat \in BOOLEAN /\ e.enabled \in BOOLEAN /\ e.fired \in BOOLEAN
           /\ e # None
BY Numbers, NoneIsNoRow DEF Entries, Rows, Time

(* A row is made of its five fields.                                        *)
LEMMA NewEntry ==
    ASSUME now \in Nat,
           NEW t \in 0 .. MaxTime + Period, NEW s \in 0 .. MaxTime + Period,
           NEW r \in BOOLEAN, NEW b \in BOOLEAN, NEW f \in BOOLEAN, s <= now + 1
    PROVE  [trigger |-> t, snoozed |-> s, repeat |-> r,
            enabled |-> b, fired |-> f] \in Entries
BY Numbers DEF Entries, Rows, Time

LEMMA FreshEntry ==
    ASSUME now \in Nat, NEW t \in 0 .. MaxTime + Period, NEW r \in BOOLEAN
    PROVE  Fresh(t, r) \in Entries
BY Numbers DEF Fresh, Entries, Rows, Time

(***************************************************************************)
(* Types                                                                   *)
(***************************************************************************)
LEMMA TypeParts ==
    ASSUME TypeInv
    PROVE  /\ now \in Nat /\ now <= MaxTime
           /\ row \in [Alarm -> Entries \cup {None}]
           /\ armed \in [Alarm -> [ring : Time, snooze : Time]]
           /\ job = [p \in Proc |-> job[p]]
           /\ \A p \in Proc : JobOK(p)
           /\ NotLate /\ ringing \subseteq Alarm /\ apart \subseteq Alarm
           /\ exact \in BOOLEAN /\ notify \in BOOLEAN
           /\ calls \in 0 .. MaxCalls /\ faults \in 0 .. MaxFaults
BY Numbers DEF TypeInv, TypeOK

LEMMA Assembled ==
    ASSUME now' \in 0 .. MaxTime,
           row' \in [Alarm -> Entries' \cup {None}],
           armed' \in [Alarm -> [ring : Time, snooze : Time]],
           job' = [p \in Proc |-> job'[p]],
           \A p \in Proc : JobOK(p)',
           NotLate', ringing' \subseteq Alarm, apart' \subseteq Alarm,
           exact' \in BOOLEAN, notify' \in BOOLEAN,
           calls' \in 0 .. MaxCalls, faults' \in 0 .. MaxFaults
    PROVE  TypeInv'
<1>1. row' \in [Alarm -> Rows \cup {None}]
  BY DEF Entries
<1>2. \A p \in Proc :
         /\ job'[p].on \subseteq Alarm
         /\ ~Free(p)' /\ job'[p].call \notin {"RING", "BOOT"} => job'[p].todo # <<>>
  BY DEF JobOK, Working, Free
<1> QED
  BY <1>1, <1>2 DEF TypeInv, TypeOK

(* One coroutine moves on.                                                  *)
LEMMA OneJobMoves ==
    ASSUME TypeInv, now' = now, NEW p \in Proc, NEW j,
           job' = [job EXCEPT ![p] = j], JobOK(p)'
    PROVE  job' = [q \in Proc |-> job'[q]] /\ \A q \in Proc : JobOK(q)'
<1>1. job = [q \in Proc |-> job[q]] /\ \A q \in Proc : JobOK(q)
  BY TypeParts
<1>2. \A q \in Proc \ {p} : job'[q] = job[q]
  BY <1>1
<1>3. ASSUME NEW q \in Proc \ {p}
      PROVE  JobOK(q)'
  <2>1. JobOK(q) /\ job'[q] = job[q]
    BY <1>1, <1>2
  <2>2. \A a : StepsOn(a)' = StepsOn(a)
    BY DEF StepsOn, Entries
  <2> QED
    BY <2>1, <2>2 DEF JobOK, Free, Working
<1> QED
  BY <1>1, <1>3

LEMMA InitialTypes == Init => TypeInv
<1> SUFFICES ASSUME Init PROVE TypeInv
  OBVIOUS
<1>1. now = 0 /\ now \in 0 .. MaxTime
  BY Numbers DEF Init
<1>2. \A r \in BOOLEAN : Fresh(1, r) \in Entries
  BY <1>1, FreshEntry, Numbers
<1>3. row \in [Alarm -> Entries \cup {None}]
  BY <1>2 DEF Init
<1>4. armed \in [Alarm -> [ring : Time, snooze : Time]] /\ NotLate
  <2>1. ASSUME NEW a \in Alarm
        PROVE  /\ armed[a] \in [ring : Time, snooze : Time]
               /\ armed[a].ring >= now /\ armed[a].snooze >= now
    <3>1. row[a] = None \/ row[a].trigger = 1
      BY DEF Init, Fresh
    <3>2. armed[a] = Silent \/ armed[a] = [Silent EXCEPT !.ring = 1]
      BY <3>1 DEF Init
    <3> QED
      BY <1>1, <3>2, Numbers DEF Silent, Time
  <2>2. armed = [a \in Alarm |-> armed[a]]
    BY DEF Init
  <2> QED
    BY <2>1, <2>2 DEF NotLate
<1>5. job = [p \in Proc |-> job[p]] /\ \A p \in Proc : JobOK(p)
  BY DEF Init, JobOK, Idle, Free, Working
<1> QED
  <2>1. row \in [Alarm -> Rows \cup {None}]
    BY <1>3 DEF Entries
  <2>2. \A p \in Proc : job[p] = Idle
    BY DEF Init
  <2> QED
    BY <1>1, <1>3, <1>4, <1>5, <2>1, <2>2, Numbers
       DEF Init, TypeInv, TypeOK, Idle, Free

Calls == {"CREATE", "UPDATE", "DISABLE", "ENABLE", "DELETE", "SKIP", "SNOOZE"}

(* A call of the user that has read its row.                                *)
LEMMA UserTypes ==
    ASSUME TypeInv, NEW p \in Proc, NEW a \in Alarm, NEW call \in Calls,
           NEW todo \in Seq(StepsOn(a)), NEW undo \in Seq(StepsOn(a)),
           todo # <<>>, call \in {"CREATE", "UPDATE"} => undo # <<>>,
           UserCall(p, call, a, todo, undo)
    PROVE  TypeInv'
<1> DEFINE j == [call |-> call, on |-> {a}, todo |-> todo, rest |-> {},
                 undo |-> undo, since |-> now]
<1>1. /\ calls < MaxCalls /\ calls' = calls + 1
      /\ UNCHANGED <<row, armed, now, exact, notify, ringing, faults>>
      /\ job' = [job EXCEPT ![p] = j]
      /\ apart' = apart \cup {b \in {a} : Busy(b) # {}}
  BY DEF UserCall, Enter
<1>2. now \in Nat
  BY TypeParts
<1>3. JobOK(p)'
  <2>1. job'[p] = j
    BY <1>1, TypeParts
  <2>2. StepsOn(a)' = StepsOn(a)
    BY <1>1 DEF StepsOn, Entries
  <2> QED
    BY <1>1, <1>2, <2>1, <2>2 DEF JobOK, Free, Working, Calls
<1> HIDE DEF j
<1>4. job' = [q \in Proc |-> job'[q]] /\ \A q \in Proc : JobOK(q)'
  BY <1>1, <1>3, OneJobMoves
<1>5. Entries' = Entries /\ (NotLate <=> NotLate')
  BY <1>1 DEF Entries, NotLate
<1>6. calls' \in 0 .. MaxCalls /\ apart' \subseteq Alarm /\ now' \in 0 .. MaxTime
  BY <1>1, TypeParts, Numbers
<1> QED
  BY <1>1, <1>4, <1>5, <1>6, TypeParts, Assembled

LEMMA PlannedTypes ==
    ASSUME TypeInv, NEW p \in Proc, ~Free(p), NEW plans,
           \A plan \in plans :
               plan # <<>> /\ \E a \in job[p].on : plan \in Seq(StepsOn(a)),
           NEW since \in {now, job[p].since},
           Planned(p, plans, since), now' = now
    PROVE  job' = [q \in Proc |-> job'[q]] /\ \A q \in Proc : JobOK(q)'
<1>1. JobOK(p) /\ job = [q \in Proc |-> job[q]] /\ now \in Nat
  BY TypeParts
<1>2. CASE plans = {}
  <2>1. job' = [job EXCEPT ![p] = Idle]
    BY <1>2 DEF Planned
  <2>2. JobOK(p)'
    BY <1>1, <2>1 DEF JobOK, Idle, Free, Working
  <2> QED
    BY <2>1, <2>2, OneJobMoves
<1>3. CASE plans # {}
  <2> DEFINE J(todo) == [call |-> "HANDLE", on |-> job[p].on, todo |-> todo,
                         rest |-> plans \ {todo}, undo |-> <<>>, since |-> since]
  <2>1. PICK todo \in plans : job' = [job EXCEPT ![p] = J(todo)]
    BY <1>3 DEF Planned
  <2>2. job'[p] = J(todo)
    BY <1>1, <2>1
  <2>3. \A a : StepsOn(a)' = StepsOn(a)
    BY DEF StepsOn, Entries
  <2>4. /\ job[p].on \subseteq Alarm
        /\ since \in Nat /\ now \in {since, since + 1}
    BY <1>1 DEF JobOK
  <2>5. PICK a \in job[p].on : todo # <<>> /\ todo \in Seq(StepsOn(a))
    OBVIOUS
  <2>6. <<>> \in Seq(StepsOn(a))
    OBVIOUS
  <2>7. JobOK(p)'
    BY <2>2, <2>3, <2>4, <2>5, <2>6 DEF JobOK, Free, Working
  <2> HIDE DEF J
  <2> QED
    BY <2>1, <2>7, OneJobMoves
<1> QED
  BY <1>2, <1>3

LEMMA GotoTypes ==
    ASSUME TypeInv, NEW p \in Proc, Working(p), NEW a \in job[p].on,
           NEW todo \in Seq(StepsOn(a)), job[p].undo \in Seq(StepsOn(a)),
           NEW call \in {job[p].call, "UNDO"},
           Goto(p, todo, call), now' = now
    PROVE  job' = [q \in Proc |-> job'[q]] /\ \A q \in Proc : JobOK(q)'
<1>1. JobOK(p) /\ job = [q \in Proc |-> job[q]] /\ now \in Nat
  BY TypeParts
<1>2. ~Free(p)
  BY DEF Working, Free
<1>3. CASE todo = <<>>
  BY <1>1, <1>2, <1>3, PlannedTypes DEF Goto, JobOK
<1>4. CASE todo # <<>>
  <2> DEFINE j == [job[p] EXCEPT !.todo = todo, !.call = call]
  <2>1. job' = [job EXCEPT ![p] = j]
    BY <1>4 DEF Goto
  <2>2. job'[p] = j
    BY <1>1, <2>1
  <2>3. /\ j.on = job[p].on /\ j.since = job[p].since /\ j.undo = job[p].undo
        /\ j.rest = job[p].rest /\ j.todo = todo /\ j.call = call
    OBVIOUS
  <2> HIDE DEF j
  <2>4. \A b : StepsOn(b)' = StepsOn(b)
    BY DEF StepsOn, Entries
  <2>5. JobOK(p)'
    BY <1>1, <1>2, <1>4, <2>2, <2>3, <2>4 DEF JobOK, Free, Working
  <2> QED
    BY <2>1, <2>5, OneJobMoves
<1> QED
  BY <1>3, <1>4

(* The plans of the calls, which differ only in the rows they carry.        *)
LEMMA PlanTypes ==
    ASSUME NEW a \in Alarm, NEW e \in Entries, NEW f \in Entries
    PROVE  /\ <<Arm(a, e), Store(a, e)>> \in Seq(StepsOn(a)) \ {<<>>}
           /\ <<Cancel(a), Arm(a, e), Store(a, e)>> \in Seq(StepsOn(a)) \ {<<>>}
           /\ <<Cancel(a), Store(a, e)>> \in Seq(StepsOn(a)) \ {<<>>}
           /\ <<Cancel(a), Store(a, e), Arm(a, e)>> \in Seq(StepsOn(a)) \ {<<>>}
           /\ <<Store(a, e), Arm(a, e)>> \in Seq(StepsOn(a)) \ {<<>>}
           /\ <<Arm(a, e)>> \in Seq(StepsOn(a)) \ {<<>>}
           /\ <<Store(a, e)>> \in Seq(StepsOn(a)) \ {<<>>}
           /\ <<Cancel(a), Arm(a, f)>> \in Seq(StepsOn(a)) \ {<<>>}
<1>1. /\ Arm(a, e) \in StepsOn(a) /\ Store(a, e) \in StepsOn(a)
      /\ Cancel(a) \in StepsOn(a) /\ Arm(a, f) \in StepsOn(a)
  BY StepTypes
<1> QED
  BY <1>1, Plans

LEMMA OwnPlanTypes ==
    ASSUME NEW a \in Alarm
    PROVE  /\ <<Cancel(a)>> \in Seq(StepsOn(a)) \ {<<>>}
           /\ <<Cancel(a), Do("DELETE", a, None)>> \in Seq(StepsOn(a)) \ {<<>>}
           /\ <<Do("FIRE", a, None)>> \in Seq(StepsOn(a)) \ {<<>>}
           /\ <<>> \in Seq(StepsOn(a))
<1>1. /\ Cancel(a) \in StepsOn(a) /\ Do("DELETE", a, None) \in StepsOn(a)
      /\ Do("FIRE", a, None) \in StepsOn(a)
  BY OwnSteps
<1> QED
  BY <1>1, Plans

(* The row that a call of the user would store.                             *)
LEMMA UserRows ==
    ASSUME TypeInv, NEW a \in Alarm, row[a] # None
    PROVE  /\ row[a] \in Entries
           /\ [row[a] EXCEPT !.enabled = FALSE] \in Entries
           /\ row[a].trigger = now + 1 /\ now < MaxTime /\ row[a].repeat =>
                [row[a] EXCEPT !.trigger = NextTrigger(row[a], row[a].trigger),
                               !.fired = FALSE, !.snoozed = 0] \in Entries
           /\ [row[a] EXCEPT !.fired = FALSE, !.snoozed = now + 1] \in Entries
           /\ NextTrigger(row[a], now) # 0 =>
                Fresh(NextTrigger(row[a], now), row[a].repeat) \in Entries
<1>1. row[a] \in Entries /\ now \in Nat /\ now <= MaxTime
  BY TypeParts
<1>2. row[a] \in Rows /\ row[a].trigger \in Nat /\ row[a].snoozed \in Nat
  BY <1>1, EntryTypes
<1>3. [row[a] EXCEPT !.enabled = FALSE] \in Entries
  BY <1>1, <1>2 DEF Entries, Rows
<1>4. ASSUME row[a].trigger = now + 1, now < MaxTime, row[a].repeat
      PROVE  [row[a] EXCEPT !.trigger = NextTrigger(row[a], row[a].trigger),
                            !.fired = FALSE, !.snoozed = 0] \in Entries
  <2>1. NextTrigger(row[a], row[a].trigger) \in Time
    BY <1>1, <1>2, <1>4, NextTriggerLater, Numbers DEF Time
  <2>2. 0 \in Time /\ 0 <= now + 1
    BY <1>1, Numbers DEF Time
  <2> QED
    BY <1>2, <2>1, <2>2 DEF Entries, Rows
<1>5. [row[a] EXCEPT !.fired = FALSE, !.snoozed = now + 1] \in Entries
  <2>1. now + 1 \in Time /\ now + 1 <= now + 1
    BY <1>1, Numbers DEF Time
  <2> QED
    BY <1>2, <2>1 DEF Entries, Rows
<1>6. NextTrigger(row[a], now) \in 0 .. MaxTime + Period
  <2>1. CASE row[a].repeat
    BY <1>1, <1>2, <2>1, NextTriggerLater, Numbers
  <2>2. CASE ~row[a].repeat
    BY <1>1, <1>2, <2>2, EntryTypes, Numbers DEF NextTrigger
  <2> QED
    BY <2>1, <2>2
<1>7. Fresh(NextTrigger(row[a], now), row[a].repeat) \in Entries
  BY <1>1, <1>6, EntryTypes, FreshEntry
<1> QED
  BY <1>1, <1>3, <1>4, <1>5, <1>7

LEMMA CallTypes ==
    ASSUME TypeInv, NEW p \in Proc, Call(p)
    PROVE  TypeInv'
<1>0. now \in Nat /\ now <= MaxTime /\ ringing \subseteq Alarm
  BY TypeParts
<1>1. CASE CreateAlarm(p)
  <2>1. PICK a \in Alarm, d \in 1 .. Period, repeat \in BOOLEAN :
           /\ now + d <= MaxTime
           /\ UserCall(p, "CREATE", a,
                <<Arm(a, Fresh(now + d, repeat)), Store(a, Fresh(now + d, repeat))>>,
                <<Cancel(a)>>)
    BY <1>1 DEF CreateAlarm
  <2>2. Fresh(now + d, repeat) \in Entries
    BY <1>0, <2>1, FreshEntry, Numbers
  <2> QED
    BY <2>1, <2>2, PlanTypes, OwnPlanTypes, UserTypes DEF Calls
<1>2. CASE UpdateAlarm(p)
  <2>1. PICK a \in Shown, d \in 1 .. Period, repeat \in BOOLEAN :
           /\ now + d <= MaxTime
           /\ UserCall(p, "UPDATE", a,
                <<Cancel(a), Arm(a, Fresh(now + d, repeat)),
                  Store(a, Fresh(now + d, repeat))>>,
                <<Cancel(a), Arm(a, row[a])>>)
    BY <1>2 DEF UpdateAlarm
  <2>2. now + d \in 0 .. MaxTime + Period
    BY <1>0, <2>1, Numbers
  <2>3. Fresh(now + d, repeat) \in Entries
    BY <1>0, <2>2, FreshEntry
  <2>4. row[a] \in Entries /\ a \in Alarm
    BY UserRows DEF Shown
  <2> QED
    BY <2>1, <2>3, <2>4, PlanTypes, UserTypes DEF Calls
<1>3. CASE DisableAlarm(p)
  <2> DEFINE u(a) == [row[a] EXCEPT !.enabled = FALSE]
  <2>1. PICK a \in Shown :
           UserCall(p, "DISABLE", a, <<Cancel(a), Store(a, u(a))>>, <<Arm(a, row[a])>>)
    BY <1>3 DEF DisableAlarm
  <2>2. u(a) \in Entries /\ row[a] \in Entries /\ a \in Alarm
    BY UserRows DEF Shown
  <2> HIDE DEF u
  <2> QED
    BY <2>1, <2>2, PlanTypes, UserTypes DEF Calls
<1>4. CASE EnableAlarm(p)
  <2> DEFINE u(a) == Fresh(NextTrigger(row[a], now), row[a].repeat)
  <2>1. PICK a \in Shown :
           /\ NextTrigger(row[a], now) # 0
           /\ UserCall(p, "ENABLE", a, <<Arm(a, u(a)), Store(a, u(a))>>, <<Cancel(a)>>)
    BY <1>4 DEF EnableAlarm
  <2>2. u(a) \in Entries /\ a \in Alarm
    BY <2>1, UserRows DEF Shown
  <2> HIDE DEF u
  <2> QED
    BY <2>1, <2>2, PlanTypes, OwnPlanTypes, UserTypes DEF Calls
<1>5. CASE CancelAlarm(p)
  <2>1. PICK a \in Shown :
           UserCall(p, "DELETE", a, <<Cancel(a), Do("DELETE", a, None)>>, <<>>)
    BY <1>5 DEF CancelAlarm
  <2> QED
    BY <2>1, OwnPlanTypes, UserTypes DEF Calls, Shown
<1>6. CASE SkipOccurrence(p)
  <2> DEFINE u(a) == [row[a] EXCEPT
                        !.trigger = NextTrigger(row[a], row[a].trigger),
                        !.fired = FALSE, !.snoozed = 0]
  <2>1. PICK a \in Shown :
           /\ row[a].repeat /\ row[a].trigger = now + 1 /\ now < MaxTime
           /\ UserCall(p, "SKIP", a, <<Cancel(a), Arm(a, u(a)), Store(a, u(a))>>,
                       <<Cancel(a), Arm(a, row[a])>>)
    BY <1>6 DEF SkipOccurrence
  <2>2. u(a) \in Entries /\ row[a] \in Entries /\ a \in Alarm
    BY <2>1, UserRows DEF Shown
  <2> HIDE DEF u
  <2> QED
    BY <2>1, <2>2, PlanTypes, UserTypes DEF Calls
<1>7. CASE SnoozeAlarm(p)
  <2> DEFINE u(a) == [row[a] EXCEPT !.fired = FALSE, !.snoozed = now + 1]
  <2>1. PICK a \in ringing :
           /\ row[a] # None
           /\ UserCall(p, "SNOOZE", a, <<Cancel(a), Arm(a, u(a)), Store(a, u(a))>>,
                       <<Cancel(a), Arm(a, row[a])>>)
    BY <1>7 DEF SnoozeAlarm
  <2>2. u(a) \in Entries /\ row[a] \in Entries /\ a \in Alarm
    BY <1>0, <2>1, UserRows
  <2> HIDE DEF u
  <2> QED
    BY <2>1, <2>2, PlanTypes, UserTypes DEF Calls
<1> QED
  BY <1>1, <1>2, <1>3, <1>4, <1>5, <1>6, <1>7 DEF Call

LEMMA EventTypes ==
    ASSUME TypeInv, NEW a \in Alarm
    PROVE  /\ armed[a] \in [ring : Time, snooze : Time]
           /\ armed[a].ring \in Nat /\ armed[a].snooze \in Nat
           /\ armed[a].ring # 0 => armed[a].ring >= now
           /\ armed[a].snooze # 0 => armed[a].snooze >= now
BY TypeParts DEF NotLate, Time

(* New events of one alarm, none of them in the past.                       *)
LEMMA NewEvents ==
    ASSUME TypeInv, now' = now, NEW a \in Alarm, NEW h \in [ring : Time, snooze : Time],
           h.ring # 0 => h.ring >= now, h.snooze # 0 => h.snooze >= now,
           armed' = [armed EXCEPT ![a] = h]
    PROVE  armed' \in [Alarm -> [ring : Time, snooze : Time]] /\ NotLate'
<1>1. armed \in [Alarm -> [ring : Time, snooze : Time]] /\ NotLate
  BY TypeParts
<1>2. \A b \in Alarm : armed'[b] = IF b = a THEN h ELSE armed[b]
  BY <1>1
<1>3. NotLate'
  <2> SUFFICES ASSUME NEW b \in Alarm, NEW kind \in {"ring", "snooze"},
                      armed'[b][kind] # 0
               PROVE  armed'[b][kind] >= now'
    BY DEF NotLate
  <2>1. CASE b = a
    <3>1. armed'[b] = h
      BY <1>2, <2>1
    <3>2. CASE kind = "ring"
      BY <3>1, <3>2
    <3>3. CASE kind = "snooze"
      BY <3>1, <3>3
    <3> QED
      BY <3>2, <3>3
  <2>2. CASE b # a
    <3>1. armed'[b] = armed[b]
      BY <1>2, <2>2
    <3> QED
      BY <1>1, <3>1 DEF NotLate
  <2> QED
    BY <2>1, <2>2
<1> QED
  BY <1>1, <1>3

LEMMA RingTypes ==
    ASSUME TypeInv, NEW p \in Proc, Ring(p)
    PROVE  TypeInv'
<1>1. PICK a \in Alarm, kind \in {"ring", "snooze"} :
        /\ armed[a][kind] # 0 /\ armed[a][kind] <= now
        /\ armed' = [armed EXCEPT ![a][kind] = 0]
        /\ ringing' = ringing \cup {a}
        /\ job' = [job EXCEPT ![p] = [call |-> "RING", on |-> {a},
                     since |-> now, alarm |-> a, occurrence |-> armed[a][kind]]]
        /\ apart' = IF Busy(a) = {} THEN apart ELSE apart \cup {a}
        /\ UNCHANGED <<row, now, exact, notify, calls, faults>>
  BY DEF Ring
<1>2. now \in Nat /\ job = [q \in Proc |-> job[q]]
  BY TypeParts
<1>3. armed[a][kind] = now
  <2>1. CASE kind = "ring"
    BY <1>1, <1>2, <2>1, EventTypes
  <2>2. CASE kind = "snooze"
    BY <1>1, <1>2, <2>2, EventTypes
  <2> QED
    BY <2>1, <2>2
<1>4. armed' \in [Alarm -> [ring : Time, snooze : Time]] /\ NotLate'
  <2>1. 0 \in Time
    BY Numbers DEF Time
  <2>2. armed \in [Alarm -> [ring : Time, snooze : Time]]
    BY TypeParts
  <2>3. CASE kind = "ring"
    <3> DEFINE h == [armed[a] EXCEPT !.ring = 0]
    <3>1. armed' = [armed EXCEPT ![a] = h]
      BY <1>1, <2>3
    <3>2. h \in [ring : Time, snooze : Time] /\ h.ring = 0 /\ h.snooze = armed[a].snooze
      BY <2>1, <2>2
    <3> HIDE DEF h
    <3> QED
      BY <1>1, <3>1, <3>2, EventTypes, NewEvents
  <2>4. CASE kind = "snooze"
    <3> DEFINE h == [armed[a] EXCEPT !.snooze = 0]
    <3>1. armed' = [armed EXCEPT ![a] = h]
      BY <1>1, <2>4
    <3>2. h \in [ring : Time, snooze : Time] /\ h.snooze = 0 /\ h.ring = armed[a].ring
      BY <2>1, <2>2
    <3> HIDE DEF h
    <3> QED
      BY <1>1, <3>1, <3>2, EventTypes, NewEvents
  <2> QED
    BY <2>3, <2>4
<1>5. JobOK(p)'
  <2>1. job'[p] = [call |-> "RING", on |-> {a}, since |-> now, alarm |-> a,
                   occurrence |-> now]
    BY <1>1, <1>2, <1>3
  <2>2. now # 0
    BY <1>1, <1>3
  <2> QED
    BY <1>1, <1>2, <2>1, <2>2 DEF JobOK, Free, Working
<1>6. job' = [q \in Proc |-> job'[q]] /\ \A q \in Proc : JobOK(q)'
  BY <1>1, <1>5, OneJobMoves
<1>7. Entries' = Entries /\ ringing' \subseteq Alarm /\ apart' \subseteq Alarm
  BY <1>1, TypeParts DEF Entries
<1>8. now' \in 0 .. MaxTime
  BY <1>1, TypeParts, Numbers
<1> QED
  BY <1>1, <1>4, <1>6, <1>7, <1>8, TypeParts, Assembled

(* Only the coroutine has changed.                                          *)
LEMMA SameTables ==
    ASSUME TypeInv, UNCHANGED <<now, exact, notify, calls>>,
           job' = [q \in Proc |-> job'[q]], \A q \in Proc : JobOK(q)',
           row' \in [Alarm -> Entries \cup {None}],
           armed' \in [Alarm -> [ring : Time, snooze : Time]], NotLate',
           ringing' \subseteq Alarm, apart' \subseteq Alarm,
           faults' \in 0 .. MaxFaults
    PROVE  TypeInv'
<1>1. Entries' = Entries
  BY DEF Entries
<1>2. now' \in 0 .. MaxTime
  BY TypeParts, Numbers
<1> QED
  BY <1>1, <1>2, TypeParts, Assembled

LEMMA AfterRingTypes ==
    ASSUME now \in Nat, now <= MaxTime, NEW a \in Alarm, NEW e \in Entries,
           NEW occurrence \in 1 .. now
    PROVE  AfterRing(a, e, occurrence) \in Seq(StepsOn(a))
<1>1. e \in Rows /\ e.repeat \in BOOLEAN /\ e.trigger \in Nat
  BY EntryTypes
<1>2. CASE e.snoozed = occurrence
  <2> DEFINE u == [e EXCEPT !.snoozed = 0, !.fired = ~e.repeat]
  <2>1. 0 \in Time /\ 0 <= now + 1
    BY Numbers DEF Time
  <2>2. u \in Entries
    BY <1>1, <2>1 DEF Entries, Rows
  <2>3. AfterRing(a, e, occurrence) = <<Cancel(a), Store(a, u), Arm(a, u)>>
    BY <1>2 DEF AfterRing
  <2> HIDE DEF u
  <2> QED
    BY <2>2, <2>3, PlanTypes
<1>3. CASE e.snoozed # occurrence /\ e.trigger # occurrence
  BY <1>3, OwnPlanTypes DEF AfterRing
<1>4. CASE e.snoozed # occurrence /\ e.trigger = occurrence /\ ~e.repeat
  BY <1>4, OwnPlanTypes DEF AfterRing
<1>5. CASE e.snoozed # occurrence /\ e.trigger = occurrence /\ e.repeat
  <2> DEFINE u == [e EXCEPT !.trigger = NextTrigger(e, e.trigger), !.fired = FALSE]
  <2>1. NextTrigger(e, e.trigger) \in Time
    BY <1>1, <1>5, NextTriggerLater, Numbers DEF Time
  <2>2. u \in Entries
    <3>1. e.snoozed <= now + 1
      BY EntryTypes
    <3> QED
      BY <1>1, <2>1, <3>1 DEF Entries, Rows
  <2>3. AfterRing(a, e, occurrence) = <<Cancel(a), Store(a, u), Arm(a, u)>>
    BY <1>5 DEF AfterRing
  <2> HIDE DEF u
  <2> QED
    BY <2>2, <2>3, PlanTypes
<1> QED
  BY <1>1, <1>2, <1>3, <1>4, <1>5

LEMMA RestoreTypes ==
    ASSUME now \in Nat, now <= MaxTime, exact \in BOOLEAN,
           NEW a \in Alarm, NEW e \in Entries
    PROVE  Restore(a, e) \in Seq(StepsOn(a))
<1>1. /\ e \in Rows /\ e.repeat \in BOOLEAN /\ e.enabled \in BOOLEAN
      /\ e.fired \in BOOLEAN /\ e.trigger \in Nat /\ e.snoozed \in Nat
      /\ e.snoozed <= now + 1
  BY EntryTypes
<1>2. Due(e) \in Nat
  BY <1>1 DEF Due
<1>3. CASE e.fired \/ ~e.enabled
  BY <1>3, OwnPlanTypes DEF Restore
<1>4. CASE ~(e.fired \/ ~e.enabled) /\ ~exact
  <2> DEFINE u == [e EXCEPT !.enabled = FALSE]
  <2>1. u \in Entries
    BY <1>1 DEF Entries, Rows
  <2>2. Restore(a, e) = <<Store(a, u)>>
    BY <1>4 DEF Restore
  <2> HIDE DEF u
  <2> QED
    BY <2>1, <2>2, PlanTypes
<1>5. CASE ~(e.fired \/ ~e.enabled) /\ exact /\ Due(e) > now
  <2>1. Restore(a, e) = <<Arm(a, e)>>
    BY <1>2, <1>5 DEF Restore
  <2> QED
    BY <2>1, PlanTypes
<1>6. CASE ~(e.fired \/ ~e.enabled) /\ exact /\ Due(e) <= now /\ ~e.repeat
  <2>1. Restore(a, e) = <<Do("FIRE", a, None)>>
    BY <1>2, <1>6 DEF Restore
  <2> QED
    BY <2>1, OwnPlanTypes
<1>7. CASE ~(e.fired \/ ~e.enabled) /\ exact /\ Due(e) <= now /\ e.repeat
  <2> DEFINE u == [e EXCEPT !.trigger = NextTrigger(e, now), !.snoozed = 0]
  <2>1. NextTrigger(e, now) \in Time /\ 0 \in Time /\ 0 <= now + 1
    BY <1>1, <1>7, NextTriggerLater, Numbers DEF Time
  <2>2. u \in Entries
    BY <1>1, <2>1 DEF Entries, Rows
  <2>3. Restore(a, e) = <<Store(a, u), Arm(a, u)>>
    BY <1>2, <1>7 DEF Restore
  <2> HIDE DEF u
  <2> QED
    BY <2>2, <2>3, PlanTypes
<1>8. Due(e) > now \/ Due(e) <= now
  BY <1>2
<1> QED
  BY ONLY <1>1, <1>3, <1>4, <1>5, <1>6, <1>7, <1>8, exact \in BOOLEAN

LEMMA ReadTypes ==
    ASSUME TypeInv, NEW p \in Proc, ReadAfterRing(p) \/ ReadAfterBoot(p)
    PROVE  TypeInv'
<1>1. /\ now \in Nat /\ now <= MaxTime /\ JobOK(p)
      /\ row \in [Alarm -> Entries \cup {None}]
      /\ exact \in BOOLEAN
  BY TypeParts
<1>2. /\ UNCHANGED <<row, armed, now, exact, notify, ringing, calls, faults, apart>>
      /\ job[p].call \in {"RING", "BOOT"} /\ ~Free(p)
  BY DEF ReadAfterRing, ReadAfterBoot, Free
<1>3. PICK plans :
        /\ Planned(p, plans, now)
        /\ \A plan \in plans :
             plan # <<>> /\ \E a \in job[p].on : plan \in Seq(StepsOn(a))
  <2>1. CASE ReadAfterRing(p)
    <3> DEFINE a == job[p].alarm
               plan == AfterRing(a, row[a], job[p].occurrence)
               plans == IF row[a] = None THEN {} ELSE {plan} \ {<<>>}
    <3>1. Planned(p, plans, now)
      BY <2>1 DEF ReadAfterRing
    <3>2. /\ job[p].on = {a} /\ a \in Alarm
          /\ job[p].occurrence \in 1 .. now
      BY <1>1, <1>2, <2>1 DEF JobOK, ReadAfterRing
    <3>3. row[a] # None => plan \in Seq(StepsOn(a))
      BY <1>1, <3>2, AfterRingTypes
    <3> HIDE DEF plan, a
    <3> QED
      BY <3>1, <3>2, <3>3
  <2>2. CASE ReadAfterBoot(p)
    <3>1. Planned(p, RestoreAll, now) /\ job[p].on = Alarm
      BY <1>1, <2>2 DEF ReadAfterBoot, JobOK
    <3>2. ASSUME NEW plan \in RestoreAll
          PROVE  plan # <<>> /\ \E a \in Alarm : plan \in Seq(StepsOn(a))
      <4>1. PICK a \in Alarm : row[a] # None /\ plan = Restore(a, row[a])
        BY DEF RestoreAll
      <4>2. plan \in Seq(StepsOn(a))
        BY <1>1, <4>1, RestoreTypes
      <4> QED
        BY <4>2 DEF RestoreAll
    <3> QED
      BY <3>1, <3>2
  <2> QED
    BY <2>1, <2>2
<1>4. job' = [q \in Proc |-> job'[q]] /\ \A q \in Proc : JobOK(q)'
  BY <1>2, <1>3, PlannedTypes
<1>5. NotLate' <=> NotLate
  BY <1>2 DEF NotLate
<1> QED
  BY <1>2, <1>4, <1>5, TypeParts, SameTables

(* The next call of a coroutine, and the one alarm it is about.             *)
LEMMA NextStep ==
    ASSUME TypeInv, NEW p \in Proc, NEW what, On(p, what)
    PROVE  \E a \in job[p].on :
             /\ Working(p) /\ a \in Alarm
             /\ job[p].todo \in Seq(StepsOn(a)) /\ job[p].undo \in Seq(StepsOn(a))
             /\ job[p].todo # <<>>
             /\ Next1(p) \in StepsOn(a) /\ Next1(p).alarm = a /\ Next1(p).do = what
             /\ Tail(job[p].todo) \in Seq(StepsOn(a))
             /\ what \in {"ARM", "STORE"} => Next1(p).row \in Entries
<1>1. Working(p) /\ JobOK(p)
  BY TypeParts DEF On, Working
<1>2. PICK a \in job[p].on :
        /\ job[p].todo # <<>>
        /\ job[p].todo \in Seq(StepsOn(a)) /\ job[p].undo \in Seq(StepsOn(a))
  BY <1>1 DEF JobOK
<1>3. a \in Alarm
  BY <1>1, <1>2 DEF JobOK
<1>4. Head(job[p].todo) \in StepsOn(a) /\ Tail(job[p].todo) \in Seq(StepsOn(a))
  BY <1>2, Tails
<1>5. Next1(p).do = what
  BY DEF On
<1>6. Next1(p).alarm = a /\ (what \in {"ARM", "STORE"} => Next1(p).row \in Entries)
  BY <1>3, <1>4, <1>5, StepParts DEF Next1
<1> QED
  BY <1>1, <1>2, <1>3, <1>4, <1>5, <1>6 DEF Next1

LEMMA ContinueTypes ==
    ASSUME TypeInv, NEW p \in Proc, NEW what, On(p, what), Continue(p), now' = now
    PROVE  job' = [q \in Proc |-> job'[q]] /\ \A q \in Proc : JobOK(q)'
<1>1. PICK a \in job[p].on :
        /\ Working(p) /\ job[p].undo \in Seq(StepsOn(a))
        /\ Tail(job[p].todo) \in Seq(StepsOn(a))
  BY NextStep
<1> QED
  BY <1>1, GotoTypes DEF Continue

(* scheduleAlarmEvents never arms an event in the past.                     *)
LEMMA ArmedLater ==
    ASSUME TypeInv, NEW a \in Alarm, NEW e \in Entries,
           NEW since \in Nat, now <= since + 1, NEW held \in {armed[a], Silent}
    PROVE  LET h == EventsOf(e, since, held)
           IN  /\ h \in [ring : Time, snooze : Time]
               /\ h.ring # 0 => h.ring >= now
               /\ h.snooze # 0 => h.snooze >= now
<1>1. /\ e.trigger \in Nat /\ e.snoozed \in Nat /\ now \in Nat
      /\ e.trigger \in Time /\ e.snoozed \in Time
  BY EntryTypes, TypeParts DEF Entries, Rows
<1>2. /\ held \in [ring : Time, snooze : Time]
      /\ held.ring # 0 => held.ring >= now
      /\ held.snooze # 0 => held.snooze >= now
  <2>1. 0 \in Time
    BY Numbers DEF Time
  <2>2. CASE held = Silent
    BY <2>1, <2>2 DEF Silent
  <2>3. CASE held = armed[a]
    BY <2>3, EventTypes
  <2> QED
    BY <2>2, <2>3
<1> DEFINE r == IF e.enabled /\ ~e.fired /\ e.trigger > since
                THEN e.trigger ELSE held.ring
           s == IF e.enabled /\ e.snoozed > since THEN e.snoozed ELSE held.snooze
<1>3. r \in Time /\ s \in Time
  BY <1>1, <1>2
<1>4. (r # 0 => r >= now) /\ (s # 0 => s >= now)
  BY <1>1, <1>2
<1>5. EventsOf(e, since, held) = [ring |-> r, snooze |-> s]
  BY DEF EventsOf
<1> HIDE DEF r, s
<1> QED
  BY <1>3, <1>4, <1>5

LEMMA StepTypesHold ==
    ASSUME TypeInv, NEW p \in Proc, Step(p)
    PROVE  TypeInv'
<1>0. /\ now \in Nat /\ row \in [Alarm -> Entries \cup {None}]
      /\ armed \in [Alarm -> [ring : Time, snooze : Time]] /\ NotLate
      /\ ringing \subseteq Alarm /\ apart \subseteq Alarm /\ faults \in 0 .. MaxFaults
      /\ JobOK(p)
  BY TypeParts
<1>1. CASE ReadAfterRing(p) \/ ReadAfterBoot(p)
  BY <1>1, ReadTypes
<1>2. CASE StepCancel(p)
  <2>1. PICK a \in Alarm : Next1(p).alarm = a
    BY <1>2, NextStep DEF StepCancel
  <2>2. armed' = [armed EXCEPT ![a] = Silent] /\ Continue(p)
        /\ UNCHANGED <<row, now, exact, notify, ringing, calls, faults>>
        /\ apart' \subseteq apart \cup {a}
    BY <1>2, <2>1 DEF StepCancel
  <2>3. job' = [q \in Proc |-> job'[q]] /\ \A q \in Proc : JobOK(q)'
    BY <1>2, <2>2, ContinueTypes DEF StepCancel
  <2>4. Silent \in [ring : Time, snooze : Time] /\ Silent.ring = 0 /\ Silent.snooze = 0
    BY Numbers DEF Silent, Time
  <2>5. armed' \in [Alarm -> [ring : Time, snooze : Time]] /\ NotLate'
    BY <2>2, <2>4, NewEvents
  <2> QED
    BY <1>0, <2>2, <2>3, <2>5, SameTables
<1>3. CASE StepArm(p)
  <2>1. PICK a \in job[p].on :
          /\ Working(p) /\ a \in Alarm /\ Next1(p).alarm = a
          /\ Next1(p).row \in Entries
          /\ job[p].undo \in Seq(StepsOn(a))
    BY <1>3, NextStep DEF StepArm
  <2>2. UNCHANGED <<row, now, exact, notify, ringing, calls, faults>>
    BY <1>3 DEF StepArm
  <2> DEFINE h == EventsOf(Next1(p).row, job[p].since, armed[a])
  <2>3. CASE armed' = [armed EXCEPT ![a] = h] /\ Continue(p) /\ apart' = apart
    <3>1. job' = [q \in Proc |-> job'[q]] /\ \A q \in Proc : JobOK(q)'
      BY <1>3, <2>2, <2>3, ContinueTypes DEF StepArm
    <3>2. job[p].since \in Nat /\ now <= job[p].since + 1
      BY <1>0, <2>1 DEF JobOK, Working, Free
    <3>3. /\ h \in [ring : Time, snooze : Time]
          /\ h.ring # 0 => h.ring >= now
          /\ h.snooze # 0 => h.snooze >= now
      BY <2>1, <3>2, ArmedLater
    <3> HIDE DEF h
    <3>4. armed' \in [Alarm -> [ring : Time, snooze : Time]] /\ NotLate'
      BY <2>1, <2>2, <2>3, <3>3, NewEvents
    <3> QED
      BY <1>0, <2>2, <2>3, <3>1, <3>4, SameTables
  <2>4. CASE /\ apart' = apart \cup {a} /\ armed' = armed
             /\ IF job[p].call \in {"CREATE", "UPDATE"}
                THEN Undo(p, Tail(job[p].undo)) ELSE Continue(p)
    <3>1. job' = [q \in Proc |-> job'[q]] /\ \A q \in Proc : JobOK(q)'
      <4>1. CASE job[p].call \in {"CREATE", "UPDATE"}
        <5>1. job[p].undo # <<>>
          BY <1>0, <2>1, <4>1 DEF JobOK
        <5>2. Tail(job[p].undo) \in Seq(StepsOn(a))
          BY <2>1, <5>1, Tails
        <5> QED
          BY <2>1, <2>2, <2>4, <4>1, <5>2, GotoTypes DEF Undo
      <4>2. CASE job[p].call \notin {"CREATE", "UPDATE"}
        BY <1>3, <2>2, <2>4, <4>2, ContinueTypes DEF StepArm
      <4> QED
        BY <4>1, <4>2
    <3>2. NotLate'
      BY <1>0, <2>2, <2>4 DEF NotLate
    <3>3. apart' \subseteq Alarm
      BY <1>0, <2>1, <2>4
    <3> QED
      BY <1>0, <2>2, <2>4, <3>1, <3>2, <3>3, SameTables
  <2> QED
    BY <1>3, <2>1, <2>3, <2>4 DEF StepArm
<1>4. CASE StepStore(p) \/ StepFire(p) \/ StepDelete(p)
  <2>1. PICK what \in {"STORE", "FIRE", "DELETE"} : On(p, what)
    BY <1>4 DEF StepStore, StepFire, StepDelete
  <2>2. /\ Continue(p)
        /\ UNCHANGED <<armed, now, exact, notify, ringing, calls, faults, apart>>
    BY <1>4 DEF StepStore, StepFire, StepDelete
  <2>3. job' = [q \in Proc |-> job'[q]] /\ \A q \in Proc : JobOK(q)'
    BY <2>1, <2>2, ContinueTypes
  <2>4. row' \in [Alarm -> Entries \cup {None}]
    <3>1. CASE StepStore(p)
      <4>1. Next1(p).row \in Entries
        BY <3>1, NextStep DEF StepStore
      <4> QED
        BY <1>0, <3>1, <4>1 DEF StepStore
    <3>2. CASE StepFire(p)
      <4>1. ASSUME NEW e \in Entries
            PROVE  [e EXCEPT !.fired = TRUE] \in Entries
        BY DEF Entries, Rows
      <4> QED
        BY <1>0, <3>2, <4>1 DEF StepFire
    <3>3. CASE StepDelete(p)
      BY <1>0, <3>3 DEF StepDelete
    <3> QED
      BY <1>4, <3>1, <3>2, <3>3
  <2>5. NotLate'
    BY <1>0, <2>2 DEF NotLate
  <2> QED
    BY <1>0, <2>2, <2>3, <2>4, <2>5, SameTables
<1>5. CASE StoreFails(p)
  <2>1. /\ UNCHANGED <<row, armed, now, exact, notify, ringing, calls, apart>>
        /\ faults < MaxFaults /\ faults' = faults + 1
        /\ Undo(p, job[p].undo) /\ On(p, "STORE")
    BY <1>5 DEF StoreFails
  <2>2. job' = [q \in Proc |-> job'[q]] /\ \A q \in Proc : JobOK(q)'
    <3>1. PICK a \in job[p].on : Working(p) /\ job[p].undo \in Seq(StepsOn(a))
      BY <2>1, NextStep
    <3> QED
      BY <2>1, <3>1, GotoTypes DEF Undo
  <2>3. NotLate' /\ faults' \in 0 .. MaxFaults
    BY <1>0, <2>1, Numbers DEF NotLate
  <2> QED
    BY <1>0, <2>1, <2>2, <2>3, SameTables
<1> QED
  BY <1>1, <1>2, <1>3, <1>4, <1>5 DEF Step

(* What was an entry remains one as time passes.                            *)
LEMMA LaterEntries ==
    ASSUME now \in Nat, now' \in Nat, now' >= now
    PROVE  /\ Entries \subseteq Entries'
           /\ \A a : StepsOn(a) \subseteq StepsOn(a)'
           /\ \A a : Seq(StepsOn(a)) \subseteq Seq(StepsOn(a)')
<1>1. Entries \subseteq Entries'
  <2> SUFFICES ASSUME NEW e \in Entries PROVE e \in Entries'
    OBVIOUS
  <2>1. e \in Rows /\ e.snoozed \in Nat /\ e.snoozed <= now + 1
    BY Numbers DEF Entries, Rows, Time
  <2> QED
    BY <2>1 DEF Entries
<1>2. ASSUME NEW a PROVE StepsOn(a) \subseteq StepsOn(a)'
  BY <1>1 DEF StepsOn
<1>3. ASSUME NEW a PROVE Seq(StepsOn(a)) \subseteq Seq(StepsOn(a)')
  <2> DEFINE S == StepsOn(a)
             T == StepsOn(a)'
  <2>1. S \subseteq T
    BY <1>2
  <2> HIDE DEF S, T
  <2>2. Seq(S) \subseteq Seq(T)
    BY <2>1
  <2> QED
    BY <2>2 DEF S, T
<1> QED
  BY <1>1, <1>2, <1>3

LEMMA TickTypes ==
    ASSUME TypeInv, Tick
    PROVE  TypeInv'
<1>1. /\ now < MaxTime /\ now' = now + 1 /\ now \in Nat
      /\ \A a \in Alarm : ~Overdue(a)
      /\ \A p \in Proc : ~Free(p) => job[p].since = now
      /\ UNCHANGED <<row, armed, exact, notify, job, ringing, calls, faults, apart>>
  BY TypeParts DEF Tick
<1>2. /\ Entries \subseteq Entries'
      /\ \A a : Seq(StepsOn(a)) \subseteq Seq(StepsOn(a)')
  BY <1>1, LaterEntries
<1>3. NotLate'
  <2> SUFFICES ASSUME NEW a \in Alarm, NEW kind \in {"ring", "snooze"},
                      armed[a][kind] # 0
               PROVE  armed[a][kind] >= now + 1
    BY <1>1 DEF NotLate
  <2>1. ~(armed[a][kind] <= now)
    BY <1>1 DEF Overdue
  <2>2. CASE kind = "ring"
    BY <1>1, <2>1, <2>2, EventTypes
  <2>3. CASE kind = "snooze"
    BY <1>1, <2>1, <2>3, EventTypes
  <2> QED
    BY <2>2, <2>3
<1>4. ASSUME NEW p \in Proc
      PROVE  JobOK(p)'
  <2>1. JobOK(p) /\ job' = job
    BY <1>1, TypeParts
  <2>2. ~Free(p) => job[p].since = now /\ job[p].since \in Nat
    BY <1>1
  <2>3. Working(p) =>
         /\ \E a \in job[p].on :
              job[p].todo \in Seq(StepsOn(a)') /\ job[p].undo \in Seq(StepsOn(a)')
         /\ \A plan \in job[p].rest :
              plan # <<>> /\ \E a \in job[p].on : plan \in Seq(StepsOn(a)')
    BY <1>2, <2>1 DEF JobOK
  <2> QED
    BY <1>1, <2>1, <2>2, <2>3 DEF JobOK, Free, Working
<1>5. row' \in [Alarm -> Entries' \cup {None}]
  BY <1>1, <1>2, TypeParts
<1>6. now' \in 0 .. MaxTime
  BY <1>1, Numbers
<1>7. job' = [p \in Proc |-> job'[p]]
  BY <1>1, TypeParts
<1> QED
  BY <1>1, <1>3, <1>4, <1>5, <1>6, <1>7, TypeParts, Assembled

(* Every coroutine is gone.                                                 *)
LEMMA IdleTypes ==
    ASSUME TypeInv, now' = now, Killed
    PROVE  job' = [q \in Proc |-> job'[q]] /\ \A q \in Proc : JobOK(q)'
BY TypeParts DEF Killed, JobOK, Idle, Free, Working

LEMMA SilentTypes ==
    ASSUME now' \in Nat, armed' = [a \in Alarm |-> Silent]
    PROVE  armed' \in [Alarm -> [ring : Time, snooze : Time]] /\ NotLate'
<1>1. Silent \in [ring : Time, snooze : Time]
  BY Numbers DEF Silent, Time
<1>2. \A a \in Alarm : \A kind \in {"ring", "snooze"} : armed'[a][kind] = 0
  BY DEF Silent
<1> QED
  BY <1>1, <1>2 DEF NotLate

LEMMA FaultTypes ==
    ASSUME TypeInv,
           \/ Reboot \/ Die \/ RevokeExact \/ GrantExact
           \/ NotificationsOff \/ NotificationsOn \/ EndAlert
    PROVE  TypeInv'
<1>0. /\ now \in Nat /\ now <= MaxTime /\ job = [q \in Proc |-> job[q]]
      /\ row \in [Alarm -> Entries \cup {None}]
      /\ armed \in [Alarm -> [ring : Time, snooze : Time]] /\ NotLate
      /\ ringing \subseteq Alarm /\ apart \subseteq Alarm /\ faults \in 0 .. MaxFaults
      /\ \A q \in Proc : JobOK(q)
  BY TypeParts
<1>1. CASE Reboot
  <2>1. /\ faults < MaxFaults /\ faults' = faults + 1
        /\ now' \in now .. MaxTime /\ armed' = [a \in Alarm |-> Silent]
        /\ ringing' = {} /\ apart' \subseteq Alarm
        /\ UNCHANGED <<row, exact, notify, calls>>
    BY <1>1 DEF Reboot, Fault
  <2>2. PICK p \in Proc :
          job' = [[q \in Proc |-> Idle] EXCEPT
                    ![p] = [call |-> "BOOT", on |-> Alarm, since |-> now']]
    BY <1>1 DEF Reboot
  <2>3. now' \in Nat /\ now' >= now /\ now' \in 0 .. MaxTime
        /\ faults' \in 0 .. MaxFaults
    BY <1>0, <2>1, Numbers
  <2>4. /\ armed' \in [Alarm -> [ring : Time, snooze : Time]]
        /\ NotLate'
    BY <2>1, <2>3, SilentTypes
  <2>5. row' \in [Alarm -> Entries' \cup {None}]
    BY <1>0, <2>1, <2>3, LaterEntries
  <2>6. /\ job' = [q \in Proc |-> job'[q]]
        /\ \A q \in Proc : job'[q] = Idle
             \/ job'[q] = [call |-> "BOOT", on |-> Alarm, since |-> now']
    BY <2>2
  <2>7. \A q \in Proc : JobOK(q)'
    BY <2>3, <2>6 DEF JobOK, Idle, Free, Working
  <2> QED
    BY <2>1, <2>3, <2>4, <2>5, <2>6, <2>7, TypeParts, Assembled
<1>2. CASE Die
  <2>1. /\ faults < MaxFaults /\ faults' = faults + 1 /\ Killed
        /\ apart' = apart \cup UNION {job[p].on : p \in Proc}
        /\ UNCHANGED <<row, armed, now, exact, notify, calls>>
    BY <1>2 DEF Die, Fault
  <2>2. apart' \subseteq Alarm /\ ringing' = {} /\ faults' \in 0 .. MaxFaults
    BY <1>0, <2>1, Numbers DEF JobOK, Killed
  <2>3. NotLate'
    BY <1>0, <2>1 DEF NotLate
  <2> QED
    BY <1>0, <2>1, <2>2, <2>3, IdleTypes, SameTables
<1>3. CASE RevokeExact
  <2>1. /\ faults < MaxFaults /\ faults' = faults + 1 /\ Killed
        /\ exact' = FALSE /\ armed' = [a \in Alarm |-> Silent]
        /\ apart' = Alarm /\ UNCHANGED <<row, now, notify, calls>>
    BY <1>3 DEF RevokeExact, Fault
  <2>2. /\ armed' \in [Alarm -> [ring : Time, snooze : Time]]
        /\ NotLate' /\ faults' \in 0 .. MaxFaults /\ ringing' = {}
    BY <1>0, <2>1, SilentTypes, Numbers DEF Killed
  <2>3. Entries' = Entries /\ now' \in 0 .. MaxTime
    BY <1>0, <2>1, Numbers DEF Entries
  <2> QED
    BY <1>0, <2>1, <2>2, <2>3, IdleTypes, TypeParts, Assembled
<1>4. CASE GrantExact \/ NotificationsOff \/ NotificationsOn \/ EndAlert
  <2>1. /\ UNCHANGED <<row, armed, now, job, calls, apart>>
        /\ ringing' \subseteq Alarm
        /\ exact' \in BOOLEAN /\ notify' \in BOOLEAN /\ faults' \in 0 .. MaxFaults
    <3>1. exact \in BOOLEAN /\ notify \in BOOLEAN
      BY TypeParts
    <3>2. faults < MaxFaults => faults + 1 \in 0 .. MaxFaults
      BY <1>0, Numbers
    <3>3. CASE GrantExact
      BY <1>0, <3>1, <3>3 DEF GrantExact
    <3>4. CASE NotificationsOff
      BY <1>0, <3>1, <3>2, <3>4 DEF NotificationsOff, Fault
    <3>5. CASE NotificationsOn
      BY <1>0, <3>1, <3>5 DEF NotificationsOn
    <3>6. CASE EndAlert
      BY <1>0, <3>1, <3>6 DEF EndAlert
    <3> QED
      BY <1>4, <3>3, <3>4, <3>5, <3>6
  <2>2. /\ Entries' = Entries /\ now' \in 0 .. MaxTime
        /\ \A a : StepsOn(a)' = StepsOn(a)
    BY <1>0, <2>1, Numbers DEF Entries, StepsOn
  <2>3. \A q \in Proc : JobOK(q)'
    BY <1>0, <2>1, <2>2 DEF JobOK, Free, Working
  <2>4. NotLate'
    BY <1>0, <2>1 DEF NotLate
  <2> QED
    BY <1>0, <2>1, <2>2, <2>3, <2>4, TypeParts, Assembled
<1> QED
  BY <1>1, <1>2, <1>3, <1>4

LEMMA TypesHold == TypeInv /\ [Next]_vars => TypeInv'
<1> SUFFICES ASSUME TypeInv, [Next]_vars PROVE TypeInv'
  OBVIOUS
<1>1. CASE \E p \in Proc : Call(p) \/ Ring(p) \/ Step(p)
  BY <1>1, CallTypes, RingTypes, StepTypesHold
<1>2. CASE Tick
  BY <1>2, TickTypes
<1>3. CASE \/ Reboot \/ Die \/ RevokeExact \/ GrantExact
           \/ NotificationsOff \/ NotificationsOn \/ EndAlert
  BY <1>3, FaultTypes
<1>4. CASE UNCHANGED vars
  <2>1. UNCHANGED <<row, armed, now, exact, notify, job, ringing, calls, faults, apart>>
    BY <1>4 DEF vars
  <2>2. Entries' = Entries /\ \A a : StepsOn(a)' = StepsOn(a)
    BY <2>1 DEF Entries, StepsOn
  <2>3. \A q \in Proc : JobOK(q)'
    BY <2>1, <2>2, TypeParts DEF JobOK, Free, Working
  <2>4. NotLate' /\ now' \in 0 .. MaxTime
    BY <2>1, TypeParts, Numbers DEF NotLate
  <2> QED
    BY <2>1, <2>2, <2>3, <2>4, TypeParts, Assembled
<1> QED
  BY <1>1, <1>2, <1>3, <1>4 DEF Next

(* Every reachable state is of the right type: the rows carry times that    *)
(* exist, no event that AlarmManager holds is in the past, a coroutine      *)
(* works on alarms it has taken on and lasts less than a tick, for any      *)
(* number of alarms and coroutines.                                         *)
THEOREM TypeCorrect == Spec => []TypeOK
<1>1. TypeInv => TypeOK
  BY DEF TypeInv
<1> QED
  BY InitialTypes, TypesHold, <1>1, PTL DEF Spec

(***************************************************************************)
(* A plan leads to agreement                                               *)
(***************************************************************************)
(* What a call of a plan is, and what is left after it.                     *)
LEMMA Heads ==
    ASSUME NEW a, NEW x, NEW y, NEW z
    PROVE  /\ Head(<<x>>) = x /\ Head(<<x, y>>) = x /\ Head(<<x, y, z>>) = x
           /\ Tail(<<x>>) = <<>> /\ Tail(<<x, y>>) = <<y>>
           /\ Tail(<<x, y, z>>) = <<y, z>>
           /\ <<x>> # <<>> /\ <<x, y>> # <<>> /\ <<x, y, z>> # <<>>
BY SMT

LEMMA Kinds ==
    ASSUME NEW a, NEW e
    PROVE  /\ Cancel(a).do = "CANCEL" /\ Cancel(a).alarm = a
           /\ Arm(a, e).do = "ARM" /\ Arm(a, e).alarm = a /\ Arm(a, e).row = e
           /\ Store(a, e).do = "STORE" /\ Store(a, e).alarm = a /\ Store(a, e).row = e
           /\ Do("FIRE", a, None).do = "FIRE" /\ Do("DELETE", a, None).do = "DELETE"
           /\ Do("FIRE", a, None).alarm = a /\ Do("DELETE", a, None).alarm = a
BY DEF Cancel, Arm, Store, Do

LEMMA SilentEvents ==
    /\ Silent.ring = 0 /\ Silent.snooze = 0
    /\ \A h \in [ring : Time, snooze : Time] :
         h.ring = 0 /\ h.snooze = 0 => h = Silent
BY DEF Silent

(* Events cancelled in time can be set again from the row.                  *)
LEMMA CancelledArms ==
    ASSUME TypeInv, NEW a \in Alarm, NEW since \in Nat, since <= now,
           Rearmable(a, since), ~Overdue(a)
    PROVE  Arms(row[a], since)
<1> DEFINE e == row[a]
           h == armed[a]
<1>1. /\ e \in Entries /\ e # None /\ now \in Nat
      /\ h.ring \in Nat /\ h.snooze \in Nat
  BY EventTypes, TypeParts DEF Rearmable
<1>2. /\ e.trigger \in Nat /\ e.snoozed \in Nat /\ e.repeat \in BOOLEAN
      /\ e.enabled \in BOOLEAN /\ e.fired \in BOOLEAN
  BY <1>1, EntryTypes
<1>3. (h.ring # 0 => h.ring > now) /\ (h.snooze # 0 => h.snooze > now)
  BY <1>1 DEF Overdue
<1>4. Settled(e, h) /\ e.snoozed <= since + 1 /\ (e.fired => e.snoozed <= since)
  BY DEF Rearmable, InStep
<1> DEFINE k == EventsOf(e, since, Silent)
<1>5. /\ k = [ring |-> k.ring, snooze |-> k.snooze]
      /\ k.ring = IF e.enabled /\ ~e.fired /\ e.trigger > since THEN e.trigger ELSE 0
      /\ k.snooze = IF e.enabled /\ e.snoozed > since THEN e.snoozed ELSE 0
  BY SilentEvents DEF EventsOf
<1> HIDE DEF e, h, k
<1>6. CASE Awaits(e)
  <2>1. /\ e.enabled /\ ~e.fired /\ h.snooze = e.snoozed
        /\ \/ h.ring = e.trigger
           \/ h.ring = 0 /\ ~e.repeat /\ e.snoozed # 0
    BY <1>4, <1>6 DEF Settled, Awaits
  <2>2. k.snooze = e.snoozed
    BY <1>1, <1>2, <1>3, <1>5, <2>1
  <2>3. k.ring = e.trigger \/ (k.ring = 0 /\ ~e.repeat /\ e.snoozed # 0)
    BY <1>1, <1>2, <1>3, <1>5, <2>1
  <2> QED
    BY <1>1, <1>4, <1>6, <2>2, <2>3 DEF Arms, Settled, e, k
<1>7. CASE ~Awaits(e)
  <2>1. e.fired \/ ~e.enabled
    BY <1>1, <1>7 DEF Awaits
  <2>2. k.ring = 0 /\ k.snooze = 0
    BY <1>2, <1>4, <1>5, <2>1
  <2>3. k = Silent
    BY <1>5, <2>2 DEF Silent
  <2> QED
    BY <1>1, <1>4, <1>7, <2>3 DEF Arms, Settled, e, k
<1> QED
  BY <1>6, <1>7

(* cancelAlarmEvents, as the next call of a plan.                           *)
LEMMA CancelSettles ==
    ASSUME TypeInv, NEW a \in Alarm, NEW todo, NEW undo, NEW since \in Nat,
           since <= now, Settles(a, todo, undo, since), Head(todo).do = "CANCEL",
           ~Overdue(a), armed'[a] = Silent, row'[a] = row[a], now' = now
    PROVE  \/ Tail(todo) # <<>> /\ Settles(a, Tail(todo), undo, since)'
           \/ Tail(todo) = <<>> /\ InStep(a)'
<1>1. ASSUME NEW e \in Rows, Storable(e), PlanSettles(a, todo, undo, since, e)
      PROVE  Tail(todo) # <<>> /\ PlanSettles(a, Tail(todo), undo, since, e)'
  <2>1. CASE /\ todo = <<Cancel(a), Arm(a, e), Store(a, e)>> /\ Arms(e, since)
             /\ undo = <<Cancel(a), Arm(a, row[a])>> /\ Rearmable(a, since)
    <3>1. Tail(todo) = <<Arm(a, e), Store(a, e)>> /\ Tail(todo) # <<>>
      BY <2>1, Heads
    <3>2. Arms(row[a], since)
      BY <2>1, CancelledArms
    <3>3. Undoes(a, undo, since)'
      BY <2>1, <3>2 DEF Undoes
    <3> QED
      BY <2>1, <3>1, <3>3 DEF PlanSettles
  <2>2. CASE /\ todo = <<Cancel(a), Store(a, e)>> /\ ~Awaits(e)
             /\ undo = <<Arm(a, row[a])>> /\ Rearmable(a, since)
    <3>1. Tail(todo) = <<Store(a, e)>> /\ Tail(todo) # <<>>
      BY <2>2, Heads
    <3>2. Arms(row[a], since)
      BY <2>2, CancelledArms
    <3>3. Settled(e, armed'[a])
      BY <2>2 DEF Settled
    <3> QED
      BY <2>2, <3>1, <3>2, <3>3 DEF PlanSettles
  <2>3. CASE /\ todo = <<Cancel(a), Store(a, e), Arm(a, e)>> /\ Arms(e, since)
             /\ undo = <<>>
    <3>1. Tail(todo) = <<Store(a, e), Arm(a, e)>> /\ Tail(todo) # <<>>
      BY <2>3, Heads
    <3> QED
      BY <2>3, <3>1 DEF PlanSettles
  <2>4. /\ todo # <<Arm(a, e), Store(a, e)>> /\ todo # <<Store(a, e)>>
        /\ todo # <<Store(a, e), Arm(a, e)>>
    BY Heads, Kinds
  <2> QED
    BY <1>1, <2>1, <2>2, <2>3, <2>4 DEF PlanSettles
<1>2. ASSUME todo = <<Cancel(a), Arm(a, row[a])>>, Arms(row[a], since)
      PROVE  Tail(todo) # <<>> /\ Settles(a, Tail(todo), undo, since)'
  <2>1. Tail(todo) = <<Arm(a, row[a])>> /\ Tail(todo) # <<>>
    BY <1>2, Heads
  <2> QED
    BY <1>2, <2>1 DEF Settles
<1>3. ASSUME todo = <<Cancel(a)>>, ~Awaits(row[a])
      PROVE  Tail(todo) = <<>> /\ InStep(a)'
  BY <1>3, Heads DEF InStep, Settled
<1>4. ASSUME todo = <<Cancel(a), Do("DELETE", a, None)>>
      PROVE  Tail(todo) # <<>> /\ Settles(a, Tail(todo), undo, since)'
  <2>1. Tail(todo) = <<Do("DELETE", a, None)>> /\ Tail(todo) # <<>>
    BY <1>4, Heads
  <2> QED
    BY <2>1 DEF Settles
<1>5. /\ todo # <<Arm(a, row[a])>> /\ todo # <<Do("DELETE", a, None)>>
      /\ todo # <<Do("FIRE", a, None)>>
  BY Heads, Kinds
<1>6. CASE \E e \in Rows : Storable(e) /\ PlanSettles(a, todo, undo, since, e)
  BY <1>1, <1>6 DEF Settles
<1> QED
  BY <1>2, <1>3, <1>4, <1>5, <1>6 DEF Settles

(* A snooze that is set with the next trigger comes before it.              *)
LEMMA SnoozeFirst ==
    ASSUME now \in Nat, NEW e \in Entries, NEW since \in Nat, Arms(e, since)
    PROVE  LET h == EventsOf(e, since, Silent)
           IN  h.ring # 0 /\ h.snooze # 0 => h.snooze <= h.ring
<1>1. e.trigger \in Nat /\ e.snoozed \in Nat /\ e.snoozed <= since + 1
  BY EntryTypes DEF Arms
<1> DEFINE h == EventsOf(e, since, Silent)
<1>2. /\ h.ring = IF e.enabled /\ ~e.fired /\ e.trigger > since THEN e.trigger ELSE 0
      /\ h.snooze = IF e.enabled /\ e.snoozed > since THEN e.snoozed ELSE 0
  BY SilentEvents DEF EventsOf
<1> HIDE DEF h
<1>3. h.ring # 0 /\ h.snooze # 0 => h.snooze <= h.ring
  BY <1>1, <1>2
<1> QED
  BY <1>3 DEF h

(* scheduleAlarmEvents, as the next call of a plan.                         *)
LEMMA ArmSettles ==
    ASSUME TypeInv, NEW a \in Alarm, NEW todo, NEW undo, NEW since \in Nat,
           Settles(a, todo, undo, since),
           Head(todo).do = "ARM", Head(todo).row \in Entries,
           armed'[a] = EventsOf(Head(todo).row, since, armed[a]),
           row'[a] = row[a], now' = now
    PROVE  /\ \/ Tail(todo) # <<>> /\ Settles(a, Tail(todo), undo, since)'
              \/ Tail(todo) = <<>> /\ InStep(a)'
           /\ armed'[a].ring # 0 /\ armed'[a].snooze # 0 =>
                armed'[a].snooze <= armed'[a].ring
<1>1. ASSUME NEW e, Head(todo) = Arm(a, e), armed[a] = Silent, Arms(e, since)
      PROVE  /\ armed'[a] = EventsOf(e, since, Silent)
             /\ Settled(e, armed'[a])
             /\ armed'[a].ring # 0 /\ armed'[a].snooze # 0 =>
                  armed'[a].snooze <= armed'[a].ring
  <2>1. Head(todo).row = e /\ e \in Entries
    BY <1>1, Kinds
  <2>2. armed'[a] = EventsOf(e, since, Silent)
    BY <1>1, <2>1
  <2> QED
    BY <1>1, <2>1, <2>2, SnoozeFirst, TypeParts DEF Arms
<1>2. ASSUME NEW e \in Rows, Storable(e),
             todo = <<Arm(a, e), Store(a, e)>>, Arms(e, since),
             armed[a] = Silent, Undoes(a, undo, since)
      PROVE  /\ Tail(todo) # <<>> /\ Settles(a, Tail(todo), undo, since)'
             /\ armed'[a].ring # 0 /\ armed'[a].snooze # 0 =>
                  armed'[a].snooze <= armed'[a].ring
  <2>1. Head(todo) = Arm(a, e) /\ Tail(todo) = <<Store(a, e)>> /\ Tail(todo) # <<>>
    BY <1>2, Heads
  <2>2. Settled(e, armed'[a])
    BY <1>1, <1>2, <2>1
  <2>3. Undoes(a, undo, since)'
    BY <1>2 DEF Undoes
  <2>4. PlanSettles(a, Tail(todo), undo, since, e)'
    BY <2>1, <2>2, <2>3 DEF PlanSettles
  <2> QED
    BY <1>1, <1>2, <2>1, <2>4 DEF Settles
<1>3. ASSUME todo = <<Arm(a, row[a])>>, Arms(row[a], since), armed[a] = Silent
      PROVE  /\ Tail(todo) = <<>> /\ InStep(a)'
             /\ armed'[a].ring # 0 /\ armed'[a].snooze # 0 =>
                  armed'[a].snooze <= armed'[a].ring
  <2>1. Head(todo) = Arm(a, row[a]) /\ Tail(todo) = <<>>
    BY <1>3, Heads
  <2> QED
    BY <1>1, <1>3, <2>1 DEF InStep
<1>4. ASSUME NEW e \in Rows, PlanSettles(a, todo, undo, since, e)
      PROVE  /\ todo = <<Arm(a, e), Store(a, e)>> /\ Arms(e, since)
             /\ armed[a] = Silent /\ Undoes(a, undo, since)
  <2>1. /\ todo # <<Cancel(a), Arm(a, e), Store(a, e)>>
        /\ todo # <<Store(a, e)>> /\ todo # <<Cancel(a), Store(a, e)>>
        /\ todo # <<Cancel(a), Store(a, e), Arm(a, e)>>
        /\ todo # <<Store(a, e), Arm(a, e)>>
    BY Heads, Kinds
  <2> QED
    BY <1>4, <2>1 DEF PlanSettles
<1>5. /\ todo # <<Cancel(a), Arm(a, row[a])>> /\ todo # <<Cancel(a)>>
      /\ todo # <<Cancel(a), Do("DELETE", a, None)>>
      /\ todo # <<Do("DELETE", a, None)>> /\ todo # <<Do("FIRE", a, None)>>
      /\ Head(todo) # Cancel(a)
  BY Heads, Kinds
<1>6. CASE \E e \in Rows : Storable(e) /\ PlanSettles(a, todo, undo, since, e)
  BY <1>2, <1>4, <1>6
<1>7. CASE todo = <<Arm(a, row[a])>> /\ Arms(row[a], since) /\ armed[a] = Silent
  BY <1>3, <1>7
<1> QED
  BY <1>5, <1>6, <1>7 DEF Settles

(* The plans that begin with an insert.                                     *)
LEMMA StoreForms ==
    ASSUME NEW a \in Alarm, NEW todo, NEW undo, NEW since,
           Settles(a, todo, undo, since), Head(todo).do = "STORE"
    PROVE  \E e \in Rows :
             /\ Storable(e) /\ Head(todo) = Store(a, e)
             /\ \/ /\ todo = <<Store(a, e)>> /\ Settled(e, armed[a])
                   /\ \/ undo = <<>> \/ Undoes(a, undo, since)
                      \/ /\ undo = <<Arm(a, row[a])>> /\ armed[a] = Silent
                         /\ Arms(row[a], since)
                \/ /\ todo = <<Store(a, e), Arm(a, e)>> /\ Arms(e, since)
                   /\ undo = <<>> /\ armed[a] = Silent
<1>1. /\ todo # <<Cancel(a), Arm(a, row[a])>> /\ todo # <<Cancel(a)>>
      /\ todo # <<Cancel(a), Do("DELETE", a, None)>>
      /\ todo # <<Do("DELETE", a, None)>> /\ todo # <<Do("FIRE", a, None)>>
      /\ todo # <<Arm(a, row[a])>> /\ Head(todo) # Cancel(a)
  BY Heads, Kinds
<1>2. PICK e \in Rows : Storable(e) /\ PlanSettles(a, todo, undo, since, e)
  BY <1>1 DEF Settles
<1>3. /\ todo # <<Cancel(a), Arm(a, e), Store(a, e)>>
      /\ todo # <<Arm(a, e), Store(a, e)>> /\ todo # <<Cancel(a), Store(a, e)>>
      /\ todo # <<Cancel(a), Store(a, e), Arm(a, e)>>
  BY Heads, Kinds
<1>4. todo = <<Store(a, e)>> \/ todo = <<Store(a, e), Arm(a, e)>>
  BY <1>2, <1>3 DEF PlanSettles
<1>5. Head(todo) = Store(a, e)
  BY <1>4, Heads
<1> QED
  BY <1>2, <1>3, <1>5 DEF PlanSettles

(* The insert, as the next call of a plan.                                  *)
LEMMA StoreSettles ==
    ASSUME NEW a \in Alarm, NEW todo, NEW undo, NEW since,
           Settles(a, todo, undo, since), Head(todo).do = "STORE",
           row'[a] = Head(todo).row, armed'[a] = armed[a], now' = now, now \in Nat
    PROVE  /\ \/ Tail(todo) # <<>> /\ Settles(a, Tail(todo), undo, since)'
              \/ Tail(todo) = <<>> /\ InStep(a)'
           /\ row'[a].fired => RungOut(row[a])'
<1>1. PICK e \in Rows :
             /\ Storable(e) /\ Head(todo) = Store(a, e)
             /\ \/ todo = <<Store(a, e)>> /\ Settled(e, armed[a])
                \/ /\ todo = <<Store(a, e), Arm(a, e)>> /\ Arms(e, since)
                   /\ undo = <<>> /\ armed[a] = Silent
  BY StoreForms
<1>2. row'[a] = e
  BY <1>1, Kinds
<1>3. row'[a].fired => RungOut(row[a])'
  BY <1>1, <1>2 DEF Storable, RungOut
<1>4. CASE todo = <<Store(a, e)>> /\ Settled(e, armed[a])
  BY <1>2, <1>3, <1>4, Heads DEF InStep
<1>5. CASE todo = <<Store(a, e), Arm(a, e)>> /\ Arms(e, since) /\ armed[a] = Silent
  <2>1. Tail(todo) = <<Arm(a, e)>> /\ Tail(todo) # <<>>
    BY <1>5, Heads
  <2>2. Settles(a, Tail(todo), undo, since)'
    BY <1>2, <1>5, <2>1 DEF Settles
  <2> QED
    BY <1>3, <2>1, <2>2
<1> QED
  BY <1>1, <1>4, <1>5

(* The insert that throws: the operation goes on with its compensation.     *)
LEMMA FailureSettles ==
    ASSUME NEW a \in Alarm, NEW todo, NEW undo, NEW since,
           Settles(a, todo, undo, since), Head(todo).do = "STORE", undo # <<>>,
           row'[a] = row[a], armed'[a] = armed[a], now' = now
    PROVE  Settles(a, undo, undo, since)'
<1>1. \/ Undoes(a, undo, since)
      \/ undo = <<Arm(a, row[a])>> /\ armed[a] = Silent /\ Arms(row[a], since)
  BY StoreForms
<1>2. CASE undo = <<Cancel(a)>> /\ ~Awaits(row[a])
  BY <1>2 DEF Settles
<1>3. CASE undo = <<Cancel(a), Arm(a, row[a])>> /\ Arms(row[a], since)
  BY <1>3 DEF Settles
<1>4. CASE undo = <<Arm(a, row[a])>> /\ armed[a] = Silent /\ Arms(row[a], since)
  BY <1>4 DEF Settles
<1> QED
  BY <1>1, <1>2, <1>3, <1>4 DEF Undoes

(* markFired and delete, as the next call of a plan.                        *)
LEMMA EndSettles ==
    ASSUME NEW a \in Alarm, NEW todo, NEW undo, NEW since,
           Settles(a, todo, undo, since), Head(todo).do \in {"FIRE", "DELETE"}
    PROVE  /\ Tail(todo) = <<>> /\ armed[a] = Silent
           /\ Head(todo).do = "FIRE" /\ row[a] # None => RungOut(row[a])
<1>1. /\ todo # <<Cancel(a), Arm(a, row[a])>> /\ todo # <<Cancel(a)>>
      /\ todo # <<Cancel(a), Do("DELETE", a, None)>>
      /\ todo # <<Arm(a, row[a])>> /\ Head(todo) # Cancel(a)
  BY Heads, Kinds
<1>2. ASSUME NEW e
      PROVE  /\ todo # <<Cancel(a), Arm(a, e), Store(a, e)>>
             /\ todo # <<Arm(a, e), Store(a, e)>> /\ todo # <<Store(a, e)>>
             /\ todo # <<Cancel(a), Store(a, e)>>
             /\ todo # <<Cancel(a), Store(a, e), Arm(a, e)>>
             /\ todo # <<Store(a, e), Arm(a, e)>>
  BY Heads, Kinds
<1>3. \A e : ~PlanSettles(a, todo, undo, since, e)
  BY <1>2 DEF PlanSettles
<1>4. CASE todo = <<Do("DELETE", a, None)>> /\ armed[a] = Silent
  BY <1>4, Heads, Kinds
<1>5. CASE /\ todo = <<Do("FIRE", a, None)>> /\ armed[a] = Silent
           /\ row[a] # None => RungOut(row[a])
  BY <1>5, Heads
<1> QED
  BY <1>1, <1>3, <1>4, <1>5 DEF Settles

(***************************************************************************)
(* Steps that leave an alarm alone                                         *)
(***************************************************************************)
Same(a) ==
    /\ row'[a] = row[a] /\ armed'[a] = armed[a]
    /\ now' \in {now, now + 1}

LEMMA OverdueLater ==
    ASSUME TypeInv, NEW a \in Alarm, Same(a), Overdue(a)
    PROVE  Overdue(a)'
<1>1. now \in Nat /\ armed[a].ring \in Nat /\ armed[a].snooze \in Nat
  BY TypeParts, EventTypes
<1>2. \/ armed[a].ring # 0 /\ armed[a].ring <= now
      \/ armed[a].snooze # 0 /\ armed[a].snooze <= now
  BY DEF Overdue
<1>3. CASE armed[a].ring # 0 /\ armed[a].ring <= now
  <2>1. armed'[a]["ring"] # 0 /\ armed'[a]["ring"] <= now'
    BY <1>1, <1>3 DEF Same
  <2> QED
    BY <2>1 DEF Overdue
<1>4. CASE armed[a].snooze # 0 /\ armed[a].snooze <= now
  <2>1. armed'[a]["snooze"] # 0 /\ armed'[a]["snooze"] <= now'
    BY <1>1, <1>4 DEF Same
  <2> QED
    BY <2>1 DEF Overdue
<1> QED
  BY <1>2, <1>3, <1>4

LEMMA SettlesLater ==
    ASSUME TypeInv, NEW a \in Alarm, Same(a),
           NEW todo, NEW undo, NEW since, Settles(a, todo, undo, since)
    PROVE  Settles(a, todo, undo, since)'
<1>1. row'[a] = row[a] /\ armed'[a] = armed[a] /\ (InStep(a)' <=> InStep(a))
  BY DEF Same, InStep
<1>2. Undoes(a, undo, since)' <=> Undoes(a, undo, since)
  BY <1>1 DEF Undoes
<1>3. Rearmable(a, since)' <=> Rearmable(a, since)
  BY <1>1 DEF Rearmable
<1>4. \A e : PlanSettles(a, todo, undo, since, e)' <=> PlanSettles(a, todo, undo, since, e)
  BY <1>1, <1>2, <1>3 DEF PlanSettles
<1>5. row[a] # None /\ RungOut(row[a]) => RungOut(row[a])'
  <2>1. now \in Nat /\ (row[a] # None => row[a] \in Entries)
    BY TypeParts
  <2>2. row[a] # None => row[a].snoozed \in Nat
    BY <2>1, EntryTypes
  <2> QED
    BY <2>1, <2>2 DEF Same, RungOut
<1>6. CASE \E e \in Rows : Storable(e) /\ PlanSettles(a, todo, undo, since, e)
  BY <1>4, <1>6 DEF Settles
<1>7. CASE /\ todo = <<Do("FIRE", a, None)>> /\ armed[a] = Silent
           /\ row[a] # None => RungOut(row[a])
  BY <1>1, <1>5, <1>7 DEF Settles
<1>8. CASE todo # <<>> /\ Head(todo) = Cancel(a) /\ Overdue(a)
  BY <1>8, OverdueLater DEF Settles
<1>9. CASE \/ todo = <<Arm(a, row[a])>> /\ Arms(row[a], since) /\ armed[a] = Silent
           \/ todo = <<Cancel(a), Arm(a, row[a])>> /\ Arms(row[a], since)
           \/ todo = <<Cancel(a)>> /\ ~Awaits(row[a])
           \/ todo = <<Cancel(a), Do("DELETE", a, None)>> /\ undo = <<>>
           \/ todo = <<Do("DELETE", a, None)>> /\ armed[a] = Silent
  BY <1>1, <1>9 DEF Settles
<1> QED
  BY <1>6, <1>7, <1>8, <1>9 DEF Settles

LEMMA RungLater ==
    ASSUME TypeInv, NEW a \in Alarm, Same(a), NEW occurrence, Rung(a, occurrence)
    PROVE  Rung(a, occurrence)'
<1>1. row'[a] = row[a] /\ armed'[a] = armed[a]
  BY DEF Same
<1> QED
  BY <1>1, OverdueLater DEF Rung

(* A snooze never hides a trigger that was still to come when it was set.   *)
LEMMA NotPassedLater ==
    ASSUME TypeInv, NEW a \in Alarm, Same(a), ~PassedBehindSnooze(row[a], now)
    PROVE  ~PassedBehindSnooze(row[a], now)'
<1> SUFFICES ASSUME PassedBehindSnooze(row[a], now') PROVE FALSE
  BY DEF Same
<1>1. row[a] # None /\ row[a].trigger <= now' /\ row[a].snoozed > now'
  BY DEF PassedBehindSnooze, Awaits
<1>2. now \in Nat /\ row[a] \in Entries
  BY <1>1, TypeParts
<1>3. row[a].snoozed \in Nat /\ row[a].snoozed <= now + 1
  BY <1>2, EntryTypes
<1>4. now' = now
  BY <1>1, <1>2, <1>3 DEF Same
<1> QED
  BY <1>4

LEMMA HeadingLater ==
    ASSUME TypeInv, NEW a \in Alarm, Same(a), NEW p \in Proc, Heading(a, p),
           job'[p] = job[p]
    PROVE  Heading(a, p)'
<1>1. InStep(a)' <=> InStep(a)
  BY DEF Same, InStep
<1>2. \A plan : Concerns(plan, a)' <=> Concerns(plan, a)
  BY DEF Concerns
<1>3. Working(p)' <=> Working(p)
  BY DEF Working
<1>4. job[p].call = "RING" => Rung(a, job[p].occurrence)'
  BY RungLater DEF Heading
<1>5. job[p].call = "BOOT" => armed'[a] = Silent /\ ~PassedBehindSnooze(row[a], now)'
  BY NotPassedLater DEF Heading, Same
<1>6. Working(p) /\ Concerns(job[p].todo, a) =>
         /\ Settles(a, job[p].todo, job[p].undo, job[p].since)'
         /\ \A plan \in job[p].rest : ~Concerns(plan, a)
  BY SettlesLater DEF Heading
<1>7. Working(p) /\ ~Concerns(job[p].todo, a) =>
         /\ \A plan \in job[p].rest :
              Concerns(plan, a) => Settles(a, plan, <<>>, job[p].since)'
         /\ \A plan, other \in job[p].rest :
              Concerns(plan, a) /\ Concerns(other, a) => plan = other
         /\ (\A plan \in job[p].rest : ~Concerns(plan, a)) => InStep(a)
  BY SettlesLater DEF Heading
<1> QED
  BY <1>1, <1>2, <1>3, <1>4, <1>5, <1>6, <1>7 DEF Heading, Same

(* Nothing has happened to the alarm, and nobody has come or gone.          *)
LEMMA Untouched ==
    ASSUME TypeInv, NEW a \in Alarm, AlarmInv(a), Same(a),
           a \in ringing' => a \in ringing,
           Busy(a)' = Busy(a), \A q \in Busy(a) : job'[q] = job[q]
    PROVE  AlarmInv(a)'
<1>1. InStep(a)' <=> InStep(a)
  BY DEF Same, InStep
<1>2. \A q \in Busy(a) : Heading(a, q)'
  BY HeadingLater DEF AlarmInv, Busy
<1>3. a \in ringing' /\ row'[a] # None /\ row'[a].fired => RungOut(row[a])'
  <2>1. now \in Nat /\ (row[a] # None => row[a] \in Entries)
    BY TypeParts
  <2>2. row[a] # None => row[a].snoozed \in Nat
    BY <2>1, EntryTypes
  <2> QED
    BY <2>1, <2>2 DEF AlarmInv, Same, RungOut
<1>4. /\ \A q, r \in Busy(a) : q = r
      /\ Busy(a) = {} => InStep(a)
      /\ armed[a].ring # 0 /\ armed[a].snooze # 0 => armed[a].snooze <= armed[a].ring
  BY DEF AlarmInv
<1>5. armed'[a] = armed[a]
  BY DEF Same
<1> QED
  BY <1>1, <1>2, <1>3, <1>4, <1>5 DEF AlarmInv

(***************************************************************************)
(* A coroutine that goes on                                                *)
(***************************************************************************)
Tidy(a) ==
    /\ armed[a].ring # 0 /\ armed[a].snooze # 0 => armed[a].snooze <= armed[a].ring
    /\ a \in ringing /\ row[a] # None /\ row[a].fired => RungOut(row[a])

LEMMA TidyLater ==
    ASSUME TypeInv, NEW a \in Alarm, AlarmInv(a), row'[a] = row[a],
           armed'[a] = armed[a], now' = now, a \in ringing' => a \in ringing
    PROVE  Tidy(a)'
BY DEF AlarmInv, Tidy, RungOut

(* It has made its plans for all its alarms and takes the first.            *)
LEMMA PlannedSettles ==
    ASSUME TypeInv, NEW a \in Alarm, NEW p \in Busy(a), \A q \in Busy(a) : q = p,
           NEW plans, NEW since, Planned(p, plans, since), Tidy(a)',
           \A plan \in plans : Concerns(plan, a) => Settles(a, plan, <<>>, since)',
           \A plan, other \in plans :
               Concerns(plan, a) /\ Concerns(other, a) => plan = other,
           (\A plan \in plans : ~Concerns(plan, a)) => InStep(a)'
    PROVE  AlarmInv(a)'
<1>1. job = [q \in Proc |-> job[q]] /\ p \in Proc /\ a \in job[p].on
  BY TypeParts DEF Busy
<1>2. CASE plans = {}
  <2>1. job' = [job EXCEPT ![p] = Idle]
    BY <1>2 DEF Planned
  <2>2. Busy(a)' = {}
    BY <1>1, <2>1 DEF Busy, Idle
  <2>3. InStep(a)'
    BY <1>2
  <2> QED
    BY <2>2, <2>3 DEF AlarmInv, Tidy
<1>3. CASE plans # {}
  <2> DEFINE J(todo) == [call |-> "HANDLE", on |-> job[p].on, todo |-> todo,
                         rest |-> plans \ {todo}, undo |-> <<>>, since |-> since]
  <2>1. PICK todo \in plans : job' = [job EXCEPT ![p] = J(todo)]
    BY <1>3 DEF Planned
  <2>2. /\ job'[p] = J(todo)
        /\ \A q \in Proc \ {p} : job'[q] = job[q]
    BY <1>1, <2>1
  <2>3. /\ job'[p].call = "HANDLE" /\ job'[p].on = job[p].on
        /\ job'[p].todo = todo /\ job'[p].rest = plans \ {todo}
        /\ job'[p].undo = <<>> /\ job'[p].since = since
    BY <2>2
  <2> HIDE DEF J
  <2>4. Busy(a)' = {p}
    BY <1>1, <2>2, <2>3 DEF Busy
  <2>5. \A plan : Concerns(plan, a)' <=> Concerns(plan, a)
    BY DEF Concerns
  <2>6. Working(p)'
    BY <2>3 DEF Working
  <2>7. Heading(a, p)'
    <3>1. CASE Concerns(todo, a)
      <4>1. \A plan \in plans \ {todo} : ~Concerns(plan, a)
        BY <3>1
      <4>2. Settles(a, todo, <<>>, since)'
        BY <3>1
      <4> QED
        BY <2>3, <2>5, <2>6, <3>1, <4>1, <4>2 DEF Heading
    <3>2. CASE ~Concerns(todo, a)
      <4>1. (\A plan \in plans \ {todo} : ~Concerns(plan, a)) => InStep(a)'
        BY <3>2
      <4>2. \A plan \in plans \ {todo} :
              Concerns(plan, a) => Settles(a, plan, <<>>, since)'
        OBVIOUS
      <4>3. \A plan, other \in plans \ {todo} :
              Concerns(plan, a) /\ Concerns(other, a) => plan = other
        OBVIOUS
      <4> QED
        BY <2>3, <2>5, <2>6, <3>2, <4>1, <4>2, <4>3 DEF Heading
    <3> QED
      BY <3>1, <3>2
  <2> QED
    BY <2>4, <2>7 DEF AlarmInv, Tidy
<1> QED
  BY <1>2, <1>3

(* What a step on one alarm does to the job of its coroutine.               *)
LEMMA GotoParts ==
    ASSUME TypeInv, NEW p \in Proc, NEW todo, NEW call, Goto(p, todo, call)
    PROVE  /\ \A q \in Proc \ {p} : job'[q] = job[q]
           /\ job'[p].on \in {job[p].on, {}}
           /\ todo # <<>> =>
                /\ job'[p].on = job[p].on /\ job'[p].todo = todo
                /\ job'[p].call = call /\ job'[p].rest = job[p].rest
                /\ job'[p].undo = job[p].undo /\ job'[p].since = job[p].since
           /\ todo = <<>> => Planned(p, job[p].rest, job[p].since)
<1>1. job = [q \in Proc |-> job[q]]
  BY TypeParts
<1>2. CASE todo # <<>>
  <2> DEFINE j == [job[p] EXCEPT !.todo = todo, !.call = call]
  <2>1. job' = [job EXCEPT ![p] = j]
    BY <1>2 DEF Goto
  <2>2. /\ j.on = job[p].on /\ j.since = job[p].since /\ j.undo = job[p].undo
        /\ j.rest = job[p].rest /\ j.todo = todo /\ j.call = call
    OBVIOUS
  <2> HIDE DEF j
  <2> QED
    BY <1>1, <1>2, <2>1, <2>2
<1>3. CASE todo = <<>>
  <2>1. Planned(p, job[p].rest, job[p].since)
    BY <1>3 DEF Goto
  <2>2. CASE job[p].rest = {}
    BY <1>1, <1>3, <2>1, <2>2 DEF Planned, Idle
  <2>3. CASE job[p].rest # {}
    <3> DEFINE J(plan) == [call |-> "HANDLE", on |-> job[p].on, todo |-> plan,
                           rest |-> job[p].rest \ {plan}, undo |-> <<>>,
                           since |-> job[p].since]
    <3>1. PICK plan \in job[p].rest : job' = [job EXCEPT ![p] = J(plan)]
      BY <2>1, <2>3 DEF Planned
    <3>2. J(plan).on = job[p].on
      OBVIOUS
    <3> HIDE DEF J
    <3> QED
      BY <1>1, <1>3, <2>1, <3>1, <3>2
  <2> QED
    BY <2>2, <2>3
<1> QED
  BY <1>2, <1>3

LEMMA GotoElsewhere ==
    ASSUME TypeInv, NEW a \in Alarm, AlarmInv(a), row'[a] = row[a],
           armed'[a] = armed[a], now' = now, a \in ringing' => a \in ringing,
           NEW p \in Proc, Working(p), NEW b \in Alarm, b # a,
           Concerns(job[p].todo, b), NEW todo \in Seq(StepsOn(b)),
           NEW call \in {job[p].call, "UNDO"}, Goto(p, todo, call)
    PROVE  AlarmInv(a)'
<1>1. /\ \A q \in Proc \ {p} : job'[q] = job[q]
      /\ job'[p].on \in {job[p].on, {}}
      /\ todo # <<>> =>
           /\ job'[p].on = job[p].on /\ job'[p].todo = todo
           /\ job'[p].call = call /\ job'[p].rest = job[p].rest
           /\ job'[p].undo = job[p].undo /\ job'[p].since = job[p].since
      /\ todo = <<>> => Planned(p, job[p].rest, job[p].since)
  BY GotoParts
<1>2. Same(a)
  BY DEF Same
<1>3. CASE p \notin Busy(a)
  <2>1. Busy(a)' = Busy(a)
    BY <1>1, <1>3 DEF Busy
  <2>2. \A q \in Busy(a) : job'[q] = job[q]
    BY <1>1, <1>3 DEF Busy
  <2> QED
    BY <1>2, <2>1, <2>2, Untouched
<1>4. CASE p \in Busy(a)
  <2>1. Heading(a, p) /\ \A q \in Busy(a) : q = p
    BY <1>4 DEF AlarmInv
  <2>2. ~Concerns(job[p].todo, a)
    BY DEF Concerns
  <2>0. PICK plans, since : plans = job[p].rest /\ since = job[p].since
    OBVIOUS
  <2>3. /\ \A plan \in plans : Concerns(plan, a) => Settles(a, plan, <<>>, since)'
        /\ \A plan, other \in plans :
             Concerns(plan, a) /\ Concerns(other, a) => plan = other
        /\ (\A plan \in plans : ~Concerns(plan, a)) => InStep(a)'
    <3>1. /\ \A plan \in plans : Concerns(plan, a) => Settles(a, plan, <<>>, since)
          /\ \A plan, other \in plans :
               Concerns(plan, a) /\ Concerns(other, a) => plan = other
          /\ (\A plan \in plans : ~Concerns(plan, a)) => InStep(a)
      BY <2>0, <2>1, <2>2 DEF Heading
    <3>2. InStep(a)' <=> InStep(a)
      BY DEF InStep
    <3>3. \A plan : Settles(a, plan, <<>>, since) => Settles(a, plan, <<>>, since)'
      BY <1>2, SettlesLater
    <3> QED
      BY ONLY <3>1, <3>2, <3>3
  <2>4. Tidy(a)'
    BY TidyLater
  <2>5. CASE todo = <<>>
    <3>1. Planned(p, plans, since)
      BY <1>1, <2>0, <2>5
    <3> QED
      BY ONLY TypeInv, a \in Alarm, <1>4, <2>1, <2>3, <2>4, <3>1, PlannedSettles
  <2>6. CASE todo # <<>>
    <3>1. Head(todo) \in StepsOn(b)
      BY <2>6, Tails
    <3>2. ~Concerns(todo, a)
      BY <3>1, StepParts DEF Concerns
    <3>3. Busy(a)' = {p}
      BY <1>1, <1>4, <2>1, <2>6 DEF Busy
    <3>4. Working(p)'
      BY <1>1, <2>6 DEF Working
    <3>5. \A plan : Concerns(plan, a)' <=> Concerns(plan, a)
      BY DEF Concerns
    <3>6. Heading(a, p)'
      BY <1>1, <2>0, <2>3, <2>6, <3>2, <3>4, <3>5 DEF Heading, Working
    <3> QED
      BY <2>4, <3>3, <3>6 DEF AlarmInv, Tidy
  <2> QED
    BY <2>5, <2>6
<1> QED
  BY <1>3, <1>4

LEMMA GotoHere ==
    ASSUME TypeInv, NEW a \in Alarm, AlarmInv(a), Tidy(a)', now' = now,
           NEW p \in Busy(a), Working(p), Concerns(job[p].todo, a),
           NEW todo \in Seq(StepsOn(a)), NEW call \in {job[p].call, "UNDO"},
           Goto(p, todo, call),
           NEW undo, NEW since, undo = job[p].undo, since = job[p].since,
           \/ todo # <<>> /\ Settles(a, todo, undo, since)'
           \/ todo = <<>> /\ InStep(a)'
    PROVE  AlarmInv(a)'
<1>1. p \in Proc
  BY DEF Busy
<1>2. /\ \A q \in Proc \ {p} : job'[q] = job[q]
      /\ todo # <<>> =>
           /\ job'[p].on = job[p].on /\ job'[p].todo = todo
           /\ job'[p].call = call /\ job'[p].rest = job[p].rest
           /\ job'[p].undo = job[p].undo /\ job'[p].since = job[p].since
      /\ todo = <<>> => Planned(p, job[p].rest, job[p].since)
  BY <1>1, GotoParts
<1>3. Heading(a, p) /\ \A q \in Busy(a) : q = p
  BY DEF AlarmInv
<1>4. \A plan \in job[p].rest : ~Concerns(plan, a)
  BY <1>3 DEF Heading
<1>5. CASE todo = <<>>
  BY <1>2, <1>3, <1>4, <1>5, PlannedSettles
<1>6. CASE todo # <<>>
  <2>1. Head(todo) \in StepsOn(a)
    BY <1>6, Tails
  <2>2. Concerns(todo, a)
    BY <2>1, StepParts DEF Concerns
  <2>3. Busy(a)' = {p}
    BY <1>2, <1>3, <1>6 DEF Busy
  <2>4. Working(p)'
    BY <1>2, <1>6 DEF Working
  <2>5. \A plan : Concerns(plan, a)' <=> Concerns(plan, a)
    BY DEF Concerns
  <2>6. Heading(a, p)'
    BY <1>2, <1>4, <1>6, <2>2, <2>4, <2>5 DEF Heading, Working
  <2> QED
    BY <2>3, <2>6 DEF AlarmInv, Tidy
<1> QED
  BY <1>5, <1>6

(***************************************************************************)
(* What a coroutine plans when it has read the row                         *)
(***************************************************************************)
LEMMA SettlesByPlan ==
    ASSUME NEW a \in Alarm, NEW todo, NEW undo, NEW since, NEW e \in Rows,
           Storable(e), PlanSettles(a, todo, undo, since, e)
    PROVE  Settles(a, todo, undo, since)
BY DEF Settles

(* handleScheduledEvent, when the event was the one its row shows.          *)
LEMMA RungSettles ==
    ASSUME TypeInv, NEW a \in Alarm, NEW occurrence \in 1 .. now,
           now <= occurrence + 1, Rung(a, occurrence)
    PROVE  LET plan == AfterRing(a, row[a], occurrence)
           IN  plan # <<>> /\ Concerns(plan, a) /\ Settles(a, plan, <<>>, now)
<1> DEFINE e == row[a]
           plan == AfterRing(a, e, occurrence)
<1>1. /\ now \in Nat /\ e \in Entries /\ Awaits(e) /\ e # None
      /\ e.enabled /\ ~e.fired
      /\ armed[a].ring \in Nat
  BY TypeParts, EventTypes DEF Rung, Awaits
<1>2. /\ e \in Rows /\ e.trigger \in Nat /\ e.snoozed \in Nat
      /\ e.repeat \in BOOLEAN /\ e.enabled \in BOOLEAN /\ e.fired \in BOOLEAN
  BY <1>1, EntryTypes
<1>3. CASE e.snoozed = occurrence
  <2> DEFINE u == [e EXCEPT !.snoozed = 0, !.fired = ~e.repeat]
  <2>1. plan = <<Cancel(a), Store(a, u), Arm(a, u)>>
    BY <1>3 DEF AfterRing
  <2>2. /\ u \in Rows /\ u.trigger = e.trigger /\ u.snoozed = 0
        /\ u.fired = ~e.repeat /\ u.enabled = e.enabled /\ u.repeat = e.repeat
    <3>1. 0 \in Time
      BY Numbers DEF Time
    <3> QED
      BY <1>2, <3>1 DEF Rows
  <2>3. u # None /\ Storable(u)
    BY <2>2, NoneIsNoRow DEF Storable
  <2>4. plan # <<>> /\ Head(plan) = Cancel(a) /\ Concerns(plan, a)
    BY <2>1, Heads, Kinds DEF Concerns
  <2> DEFINE k == EventsOf(u, now, Silent)
  <2>5. /\ k = [ring |-> k.ring, snooze |-> k.snooze]
        /\ k.ring = IF u.enabled /\ ~u.fired /\ u.trigger > now THEN u.trigger ELSE 0
        /\ k.snooze = IF u.enabled /\ u.snoozed > now THEN u.snoozed ELSE 0
    BY SilentEvents DEF EventsOf
  <2> HIDE DEF u, k, plan
  <2>6. k.snooze = 0
    BY <1>1, <2>2, <2>5
  <2>7. ASSUME Settled(u, k)
        PROVE  Settles(a, plan, <<>>, now)
    <3>1. Arms(u, now)
      BY <1>1, <2>2, <2>3, <2>7 DEF Arms, k
    <3>2. PlanSettles(a, plan, <<>>, now, u)
      BY <2>1, <3>1 DEF PlanSettles
    <3> QED
      BY <2>2, <2>3, <3>2, SettlesByPlan
  <2>8. CASE ~e.repeat
    <3>1. u.fired /\ k.ring = 0
      BY <1>2, <2>2, <2>5, <2>8
    <3>2. k = Silent /\ ~Awaits(u)
      BY <2>5, <2>6, <3>1 DEF Silent, Awaits
    <3> QED
      BY <2>4, <2>7, <3>2 DEF Settled, plan
  <2>9. CASE e.repeat /\ (e.trigger = 0 \/ e.trigger > now)
    <3>1. k.ring = u.trigger
      BY <1>1, <1>2, <2>2, <2>5, <2>9
    <3>2. Awaits(u)
      BY <1>1, <1>2, <2>2, <2>3, <2>9 DEF Awaits
    <3> QED
      BY <2>2, <2>4, <2>6, <2>7, <3>1, <3>2 DEF Settled, plan
  <2>10. CASE e.repeat /\ e.trigger # 0 /\ e.trigger <= now
    <3>1. Overdue(a)
      <4>1. \/ armed[a].ring = e.trigger
            \/ Overdue(a)
        BY <1>3, <2>10 DEF Rung
      <4>2. armed[a].ring = e.trigger =>
              armed[a]["ring"] # 0 /\ armed[a]["ring"] <= now
        BY <2>10
      <4> QED
        BY <4>1, <4>2 DEF Overdue
    <3> QED
      BY <2>4, <3>1 DEF Settles, plan
  <2>11. e.trigger = 0 \/ e.trigger > now \/ (e.trigger # 0 /\ e.trigger <= now)
    BY <1>1, <1>2
  <2> QED
    BY <2>8, <2>9, <2>10, <2>11
<1>4. CASE e.snoozed # occurrence
  <2>1. occurrence = e.trigger /\ e.snoozed = 0 /\ armed[a] = Silent
    BY <1>4 DEF Rung
  <2>2. CASE ~e.repeat
    <3>1. plan = <<Do("FIRE", a, None)>>
      BY <1>4, <2>1, <2>2 DEF AfterRing
    <3>2. plan # <<>> /\ Concerns(plan, a)
      BY <3>1, Heads, Kinds DEF Concerns
    <3>3. Settles(a, plan, <<>>, now)
      BY <1>1, <2>1, <2>2, <3>1 DEF Settles, RungOut
    <3> QED
      BY <3>2, <3>3
  <2>3. CASE e.repeat
    <3> DEFINE t == NextTrigger(e, e.trigger)
               u == [e EXCEPT !.trigger = t, !.fired = FALSE]
    <3>1. plan = <<Cancel(a), Store(a, u), Arm(a, u)>>
      BY <1>4, <2>1, <2>3 DEF AfterRing
    <3>2. t = occurrence + Period
      BY <1>2, <2>1, <2>3, NextTriggerLater
    <3>3. t \in Time /\ t > now
      BY <1>1, <3>2, Numbers, TypeParts DEF Time
    <3> HIDE DEF t
    <3>4. /\ u \in Rows /\ u.trigger = t /\ u.snoozed = 0
          /\ ~u.fired /\ u.enabled = e.enabled /\ u.repeat = e.repeat
      BY <1>2, <2>1, <3>3 DEF Rows
    <3>5. u # None /\ Storable(u)
      BY <3>4, NoneIsNoRow DEF Storable
    <3>6. plan # <<>> /\ Concerns(plan, a)
      BY <3>1, Heads, Kinds DEF Concerns
    <3> DEFINE k == EventsOf(u, now, Silent)
    <3>7. /\ k.ring = IF u.enabled /\ ~u.fired /\ u.trigger > now THEN u.trigger ELSE 0
          /\ k.snooze = IF u.enabled /\ u.snoozed > now THEN u.snoozed ELSE 0
      BY SilentEvents DEF EventsOf
    <3> HIDE DEF u, k, plan
    <3>8. k.ring = u.trigger /\ k.snooze = u.snoozed
      BY <1>1, <3>3, <3>4, <3>7
    <3>9. Settled(u, k)
      BY <1>1, <3>4, <3>5, <3>8 DEF Settled, Awaits
    <3>10. Arms(u, now)
      BY <1>1, <3>4, <3>5, <3>9 DEF Arms, k
    <3>11. PlanSettles(a, plan, <<>>, now, u)
      BY <3>1, <3>10 DEF PlanSettles
    <3> QED
      BY <3>4, <3>5, <3>6, <3>11, SettlesByPlan DEF plan
  <2> QED
    BY <1>2, <2>2, <2>3
<1> QED
  BY <1>3, <1>4

(* A row that will ring and whose events are all still to come.             *)
LEMMA ArmsWaiting ==
    ASSUME NEW u \in Rows, NEW since \in Nat, Awaits(u), u.snoozed <= since + 1,
           u.snoozed = 0 \/ u.snoozed > since,
           u.trigger > since \/ (~u.repeat /\ u.snoozed # 0)
    PROVE  Arms(u, since)
<1>1. /\ u.trigger \in Nat /\ u.snoozed \in Nat /\ u.repeat \in BOOLEAN
      /\ u # None /\ u.enabled /\ ~u.fired
  BY Numbers, NoneIsNoRow DEF Rows, Time, Awaits
<1> DEFINE k == EventsOf(u, since, Silent)
<1>2. /\ k.ring = IF u.enabled /\ ~u.fired /\ u.trigger > since THEN u.trigger ELSE 0
      /\ k.snooze = IF u.enabled /\ u.snoozed > since THEN u.snoozed ELSE 0
  BY SilentEvents DEF EventsOf
<1> HIDE DEF k
<1>3. k.snooze = u.snoozed
  BY <1>1, <1>2
<1>4. k.ring = u.trigger \/ (k.ring = 0 /\ ~u.repeat /\ u.snoozed # 0)
  BY <1>1, <1>2
<1>5. Settled(u, k)
  BY <1>3, <1>4 DEF Settled
<1> QED
  BY <1>1, <1>5 DEF Arms, k

(* restoreScheduledEntries, for one row, when nothing is held for it.       *)
LEMMA RestoreSettles ==
    ASSUME TypeInv, NEW a \in Alarm, row[a] # None, armed[a] = Silent,
           ~PassedBehindSnooze(row[a], now)
    PROVE  LET plan == Restore(a, row[a])
           IN  /\ plan = <<>> => InStep(a)
               /\ plan # <<>> => Concerns(plan, a) /\ Settles(a, plan, <<>>, now)
<1> DEFINE e == row[a]
           plan == Restore(a, e)
<1>1. now \in Nat /\ e \in Entries /\ exact \in BOOLEAN
  BY TypeParts
<1>2. /\ e \in Rows /\ e.trigger \in Nat /\ e.snoozed \in Nat
      /\ e.repeat \in BOOLEAN /\ e.enabled \in BOOLEAN /\ e.fired \in BOOLEAN
      /\ e # None /\ e.snoozed <= now + 1
  BY <1>1, EntryTypes
<1>3. Due(e) \in Nat /\ (e.snoozed # 0 => Due(e) = e.snoozed)
      /\ (e.snoozed = 0 => Due(e) = e.trigger)
  BY <1>2 DEF Due
<1>4. CASE e.fired \/ ~e.enabled
  <2>1. plan = <<>> /\ ~Awaits(e)
    BY <1>4 DEF Restore, Awaits
  <2> QED
    BY <2>1 DEF InStep, Settled
<1>5. CASE ~(e.fired \/ ~e.enabled) /\ ~exact
  <2> DEFINE u == [e EXCEPT !.enabled = FALSE]
  <2>1. plan = <<Store(a, u)>>
    BY <1>5 DEF Restore
  <2>2. u \in Rows /\ ~u.enabled /\ u.fired = e.fired
    BY <1>2 DEF Rows
  <2> HIDE DEF u, plan
  <2>3. Settled(u, armed[a]) /\ Storable(u)
    BY <1>5, <2>2 DEF Settled, Awaits, Storable
  <2>4. PlanSettles(a, plan, <<>>, now, u)
    BY <2>1, <2>3 DEF PlanSettles
  <2>5. Settles(a, plan, <<>>, now)
    BY <2>2, <2>3, <2>4, SettlesByPlan
  <2>6. plan # <<>> /\ Concerns(plan, a)
    BY <2>1, Heads, Kinds DEF Concerns
  <2> QED
    BY <2>5, <2>6 DEF plan
<1>6. CASE ~(e.fired \/ ~e.enabled) /\ exact /\ Due(e) > now
  <2>1. plan = <<Arm(a, e)>>
    BY <1>3, <1>6 DEF Restore
  <2>2. Awaits(e) /\ (e.snoozed = 0 \/ e.snoozed > now)
    BY <1>2, <1>3, <1>6 DEF Awaits
  <2>3. e.trigger > now \/ (~e.repeat /\ e.snoozed # 0)
    <3>1. CASE e.snoozed = 0
      BY <1>3, <1>6, <3>1
    <3>2. CASE e.snoozed # 0
      BY <1>1, <1>2, <2>2, <3>2 DEF PassedBehindSnooze
    <3> QED
      BY <3>1, <3>2
  <2>4. Arms(e, now)
    BY <1>1, <1>2, <2>2, <2>3, ArmsWaiting
  <2>5. Settles(a, plan, <<>>, now)
    BY <2>1, <2>4 DEF Settles
  <2>6. plan # <<>> /\ Concerns(plan, a)
    BY <2>1, Heads, Kinds DEF Concerns
  <2> QED
    BY <2>5, <2>6
<1>7. CASE ~(e.fired \/ ~e.enabled) /\ exact /\ Due(e) <= now /\ ~e.repeat
  <2>1. plan = <<Do("FIRE", a, None)>>
    BY <1>1, <1>3, <1>7 DEF Restore
  <2>2. RungOut(e)
    BY <1>1, <1>2, <1>3, <1>7 DEF RungOut
  <2>3. Settles(a, plan, <<>>, now)
    BY <2>1, <2>2 DEF Settles
  <2>4. plan # <<>> /\ Concerns(plan, a)
    BY <2>1, Heads, Kinds DEF Concerns
  <2> QED
    BY <2>3, <2>4
<1>8. CASE ~(e.fired \/ ~e.enabled) /\ exact /\ Due(e) <= now /\ e.repeat
  <2> DEFINE t == NextTrigger(e, now)
             u == [e EXCEPT !.trigger = t, !.snoozed = 0]
  <2>1. plan = <<Store(a, u), Arm(a, u)>>
    BY <1>1, <1>3, <1>8 DEF Restore
  <2>2. t \in Time /\ t > now /\ 0 \in Time
    BY <1>1, <1>2, <1>8, NextTriggerLater, Numbers, TypeParts DEF Time
  <2> HIDE DEF t
  <2>3. /\ u \in Rows /\ u.trigger = t /\ u.snoozed = 0
        /\ u.fired = e.fired /\ u.enabled = e.enabled
    BY <1>2, <2>2 DEF Rows
  <2> HIDE DEF u, plan
  <2>4. Awaits(u) /\ Storable(u)
    BY <1>8, <2>3, NoneIsNoRow DEF Awaits, Storable
  <2>5. Arms(u, now)
    BY <1>1, <2>2, <2>3, <2>4, ArmsWaiting
  <2>6. PlanSettles(a, plan, <<>>, now, u)
    BY <2>1, <2>5 DEF PlanSettles
  <2>7. Settles(a, plan, <<>>, now)
    BY <2>3, <2>4, <2>6, SettlesByPlan
  <2>8. plan # <<>> /\ Concerns(plan, a)
    BY <2>1, Heads, Kinds DEF Concerns
  <2> QED
    BY <2>7, <2>8 DEF plan
<1>9. Due(e) > now \/ Due(e) <= now
  BY <1>1, <1>3
<1> QED
  BY ONLY <1>1, <1>2, <1>4, <1>5, <1>6, <1>7, <1>8, <1>9

(* Every plan of a restore is for the alarm of its row.                     *)
LEMMA RestorePlans ==
    ASSUME TypeInv, NEW plan \in RestoreAll
    PROVE  \E a \in Alarm : /\ row[a] # None /\ plan = Restore(a, row[a])
                            /\ plan # <<>> /\ Concerns(plan, a)
<1>1. PICK a \in Alarm : row[a] # None /\ plan = Restore(a, row[a]) /\ plan # <<>>
  BY DEF RestoreAll
<1>2. plan \in Seq(StepsOn(a))
  BY <1>1, RestoreTypes, TypeParts
<1>3. Head(plan) \in StepsOn(a)
  BY <1>1, <1>2, Tails
<1> QED
  BY <1>1, <1>3, StepParts DEF Concerns

LEMMA ReadAgrees ==
    ASSUME TypeInv, NEW p \in Proc, ReadAfterRing(p) \/ ReadAfterBoot(p),
           NEW a \in Alarm, AlarmInv(a)
    PROVE  AlarmInv(a)'
<1>1. /\ UNCHANGED <<row, armed, now, ringing>>
      /\ job[p].call \in {"RING", "BOOT"} /\ ~Free(p) /\ JobOK(p)
  BY TypeParts DEF ReadAfterRing, ReadAfterBoot, Free
<1>2. Same(a) /\ Tidy(a)'
  BY <1>1, TidyLater DEF Same
<1>3. PICK plans, since :
        /\ Planned(p, plans, since) /\ since = now
        /\ ReadAfterBoot(p) => plans = RestoreAll
        /\ ReadAfterRing(p) =>
             plans = IF row[job[p].alarm] = None THEN {}
                     ELSE {AfterRing(job[p].alarm, row[job[p].alarm],
                                     job[p].occurrence)} \ {<<>>}
  BY DEF ReadAfterRing, ReadAfterBoot
<1>4. /\ \A q \in Proc \ {p} : job'[q] = job[q]
      /\ job'[p].on \in {job[p].on, {}}
  <2>1. job = [q \in Proc |-> job[q]]
    BY TypeParts
  <2>2. CASE plans = {}
    BY <1>3, <2>1, <2>2 DEF Planned, Idle
  <2>3. CASE plans # {}
    <3> DEFINE J(plan) == [call |-> "HANDLE", on |-> job[p].on, todo |-> plan,
                           rest |-> plans \ {plan}, undo |-> <<>>,
                           since |-> since]
    <3>1. PICK plan \in plans : job' = [job EXCEPT ![p] = J(plan)]
      BY <1>3, <2>3 DEF Planned
    <3>2. J(plan).on = job[p].on
      OBVIOUS
    <3> HIDE DEF J
    <3> QED
      BY <2>1, <3>1, <3>2
  <2> QED
    BY <2>2, <2>3
<1>5. CASE p \notin Busy(a)
  <2>1. Busy(a)' = Busy(a)
    BY <1>4, <1>5 DEF Busy
  <2>2. \A q \in Busy(a) : job'[q] = job[q]
    BY <1>4, <1>5 DEF Busy
  <2> QED
    BY <1>1, <1>2, <2>1, <2>2, Untouched
<1>6. CASE p \in Busy(a)
  <2>1. Heading(a, p) /\ \A q \in Busy(a) : q = p
    BY <1>6 DEF AlarmInv
  <2>2. /\ \A plan \in plans : Concerns(plan, a) => Settles(a, plan, <<>>, since)
        /\ \A plan, other \in plans :
             Concerns(plan, a) /\ Concerns(other, a) => plan = other
        /\ (\A plan \in plans : ~Concerns(plan, a)) => InStep(a)
    <3>1. CASE ReadAfterRing(p)
      <4>1. job[p].call = "RING"
        BY <3>1 DEF ReadAfterRing
      <4>2. Rung(a, job[p].occurrence) /\ job[p].alarm = a
        BY <1>1, <1>6, <2>1, <4>1 DEF Heading, JobOK, Busy
      <4>3. job[p].occurrence \in 1 .. now /\ now <= job[p].occurrence + 1
        BY <1>1, <4>1, TypeParts DEF JobOK
      <4> DEFINE plan == AfterRing(a, row[a], job[p].occurrence)
      <4>4. /\ plan # <<>> /\ Concerns(plan, a) /\ Settles(a, plan, <<>>, now)
        BY <4>2, <4>3, RungSettles
      <4>5. row[a] # None
        BY <4>2 DEF Rung, Awaits
      <4>6. plans = {plan}
        BY <1>3, <3>1, <4>2, <4>4, <4>5
      <4> HIDE DEF plan
      <4> QED
        BY <1>3, <4>4, <4>6
    <3>2. CASE ReadAfterBoot(p)
      <4>1. armed[a] = Silent /\ ~PassedBehindSnooze(row[a], now)
        BY <2>1, <3>2 DEF Heading, ReadAfterBoot
      <4>2. plans = RestoreAll
        BY <1>3, <3>2
      <4>3. ASSUME NEW plan \in plans, Concerns(plan, a)
            PROVE  row[a] # None /\ plan = Restore(a, row[a]) /\ plan # <<>>
        <5>1. PICK b \in Alarm : /\ row[b] # None /\ plan = Restore(b, row[b])
                                 /\ plan # <<>> /\ Concerns(plan, b)
          BY <4>2, RestorePlans
        <5> QED
          BY <4>3, <5>1 DEF Concerns
      <4>4. ASSUME NEW plan \in plans, Concerns(plan, a)
            PROVE  Settles(a, plan, <<>>, since)
        BY <1>3, <4>1, <4>3, <4>4, RestoreSettles
      <4>5. ASSUME \A plan \in plans : ~Concerns(plan, a)
            PROVE  InStep(a)
        <5>1. CASE row[a] = None
          BY <4>1, <5>1 DEF InStep, Settled, Awaits
        <5>2. CASE row[a] # None /\ Restore(a, row[a]) = <<>>
          BY <4>1, <5>2, RestoreSettles
        <5>3. CASE row[a] # None /\ Restore(a, row[a]) # <<>>
          <6>1. Restore(a, row[a]) \in plans
            BY <4>2, <5>3 DEF RestoreAll
          <6>2. Concerns(Restore(a, row[a]), a)
            BY <4>1, <5>3, RestoreSettles
          <6> QED
            BY <4>5, <6>1, <6>2
        <5> QED
          BY <5>1, <5>2, <5>3
      <4> QED
        BY <4>3, <4>4, <4>5
    <3> QED
      BY <3>1, <3>2
  <2>3. /\ \A plan \in plans : Concerns(plan, a) => Settles(a, plan, <<>>, since)'
        /\ (\A plan \in plans : ~Concerns(plan, a)) => InStep(a)'
    <3>1. InStep(a)' <=> InStep(a)
      BY <1>1 DEF InStep
    <3>2. \A plan : Settles(a, plan, <<>>, since) => Settles(a, plan, <<>>, since)'
      BY <1>2, SettlesLater
    <3> QED
      BY ONLY <2>2, <3>1, <3>2
  <2> QED
    BY ONLY TypeInv, a \in Alarm, <1>2, <1>3, <1>6, <2>1, <2>2, <2>3, PlannedSettles
<1> QED
  BY <1>5, <1>6

(***************************************************************************)
(* The steps of a call                                                     *)
(***************************************************************************)
(* The next call of a coroutine is about one alarm, and what it leads to.   *)
LEMMA NextOf ==
    ASSUME TypeInv, NEW p \in Proc, NEW what, On(p, what)
    PROVE  \E b \in job[p].on :
             /\ Working(p) /\ b \in Alarm /\ p \in Busy(b)
             /\ Concerns(job[p].todo, b) /\ Next1(p).alarm = b
             /\ Head(job[p].todo) = Next1(p) /\ Next1(p).do = what
             /\ Tail(job[p].todo) \in Seq(StepsOn(b))
             /\ job[p].undo \in Seq(StepsOn(b))
             /\ what \in {"ARM", "STORE"} => Next1(p).row \in Entries
             /\ AlarmInv(b) =>
                  Settles(b, job[p].todo, job[p].undo, job[p].since)
             /\ job[p].since \in Nat /\ job[p].since <= now
<1>1. PICK b \in job[p].on :
             /\ Working(p) /\ b \in Alarm
             /\ job[p].undo \in Seq(StepsOn(b))
             /\ Next1(p).alarm = b /\ Next1(p).do = what
             /\ Tail(job[p].todo) \in Seq(StepsOn(b))
             /\ what \in {"ARM", "STORE"} => Next1(p).row \in Entries
  BY NextStep
<1>2. Head(job[p].todo) = Next1(p) /\ Concerns(job[p].todo, b)
  BY <1>1 DEF Next1, Concerns
<1>3. p \in Busy(b)
  BY <1>1 DEF Busy
<1>4. job[p].since \in Nat /\ job[p].since <= now
  BY <1>1, TypeParts DEF JobOK, Working, Free
<1>5. AlarmInv(b) => Settles(b, job[p].todo, job[p].undo, job[p].since)
  BY <1>1, <1>2, <1>3 DEF AlarmInv, Heading
<1> QED
  BY <1>1, <1>2, <1>3, <1>4, <1>5

LEMMA StepAgrees ==
    ASSUME TypeInv, NEW p \in Proc, Step(p),
           NEW a \in Alarm, a \notin apart', AlarmInv(a)
    PROVE  AlarmInv(a)'
<1>0. /\ now \in Nat /\ row \in [Alarm -> Entries \cup {None}]
      /\ armed \in [Alarm -> [ring : Time, snooze : Time]]
  BY TypeParts
<1>1. CASE ReadAfterRing(p) \/ ReadAfterBoot(p)
  BY <1>1, ReadAgrees
<1>2. CASE StepCancel(p) \/ StepStore(p) \/ StepFire(p) \/ StepDelete(p)
  <2>1. PICK what \in {"CANCEL", "STORE", "FIRE", "DELETE"} :
          /\ On(p, what)
          /\ what = "CANCEL" => StepCancel(p)
          /\ what = "STORE" => StepStore(p)
          /\ what = "FIRE" => StepFire(p)
          /\ what = "DELETE" => StepDelete(p)
    BY <1>2 DEF StepCancel, StepStore, StepFire, StepDelete
  <2>2. PICK todo, undo, since :
          todo = job[p].todo /\ undo = job[p].undo /\ since = job[p].since
    OBVIOUS
  <2>3. PICK b \in job[p].on :
          /\ Working(p) /\ b \in Alarm /\ p \in Busy(b)
          /\ Concerns(job[p].todo, b) /\ Next1(p).alarm = b
          /\ Head(todo) = Next1(p) /\ Next1(p).do = what
          /\ Tail(todo) \in Seq(StepsOn(b))
          /\ AlarmInv(b) => Settles(b, todo, undo, since)
          /\ since \in Nat /\ since <= now
    BY <2>1, <2>2, NextOf
  <2>4. Goto(p, Tail(todo), job[p].call)
    BY <1>2, <2>2 DEF StepCancel, StepStore, StepFire, StepDelete, Continue
  <2>5. /\ now' = now /\ ringing' = ringing
        /\ \A c \in Alarm \ {b} : row'[c] = row[c] /\ armed'[c] = armed[c]
    BY <1>0, <2>1, <2>3 DEF StepCancel, StepStore, StepFire, StepDelete
  <2>6. CASE b # a
    BY <2>3, <2>4, <2>5, <2>6, GotoElsewhere
  <2>7. CASE b = a
    <3>1. Settles(a, todo, undo, since)
      BY <2>3, <2>7
    <3>2. /\ \/ Tail(todo) # <<>> /\ Settles(a, Tail(todo), undo, since)'
             \/ Tail(todo) = <<>> /\ InStep(a)'
          /\ Tidy(a)'
      <4>1. CASE what = "CANCEL"
        <5>1. /\ armed'[a] = Silent /\ row'[a] = row[a] /\ ~Overdue(a)
              /\ UNCHANGED <<now, ringing>>
          BY <1>0, <2>1, <2>3, <2>7, <4>1 DEF StepCancel
        <5>2. Tidy(a)'
          BY <5>1, SilentEvents DEF Tidy, AlarmInv, RungOut
        <5>3. Head(todo).do = "CANCEL"
          BY <2>3, <4>1
        <5> QED
          BY <2>3, <3>1, <5>1, <5>2, <5>3, CancelSettles
      <4>2. CASE what = "STORE"
        <5>1. /\ row'[a] = Head(todo).row /\ armed'[a] = armed[a]
              /\ UNCHANGED <<now, ringing>>
          BY <1>0, <2>1, <2>3, <2>7, <4>2 DEF StepStore
        <5>2. Head(todo).do = "STORE"
          BY <2>3, <4>2
        <5>3. /\ \/ Tail(todo) # <<>> /\ Settles(a, Tail(todo), undo, since)'
                 \/ Tail(todo) = <<>> /\ InStep(a)'
              /\ row'[a].fired => RungOut(row[a])'
          BY <1>0, <3>1, <5>1, <5>2, StoreSettles
        <5>4. Tidy(a)'
          BY <5>1, <5>3 DEF Tidy, AlarmInv
        <5> QED
          BY <5>3, <5>4
      <4>3. CASE what \in {"FIRE", "DELETE"}
        <5>1. /\ Tail(todo) = <<>> /\ armed[a] = Silent
              /\ what = "FIRE" /\ row[a] # None => RungOut(row[a])
          BY <2>3, <3>1, <4>3, EndSettles
        <5>2. armed'[a] = Silent /\ UNCHANGED <<now, ringing>>
          BY <2>1, <4>3, <5>1 DEF StepFire, StepDelete
        <5>3. CASE what = "DELETE"
          <6>1. row'[a] = None
            BY <1>0, <2>1, <2>3, <2>7, <5>3 DEF StepDelete
          <6> QED
            BY <5>1, <5>2, <6>1, SilentEvents DEF Tidy, InStep, Settled, Awaits
        <5>4. CASE what = "FIRE"
          <6>1. row'[a] = IF row[a] = None THEN None
                          ELSE [row[a] EXCEPT !.fired = TRUE]
            BY <1>0, <2>1, <2>3, <2>7, <5>4 DEF StepFire
          <6>2. row[a] # None =>
                  /\ row'[a].fired = TRUE /\ row'[a].snoozed = row[a].snoozed
                  /\ row'[a].repeat = row[a].repeat
            <7>1. row[a] # None => row[a] \in Rows
              BY <1>0 DEF Entries
            <7> QED
              BY <6>1, <7>1 DEF Rows
          <6>3. ~Awaits(row'[a])
            BY <6>1, <6>2 DEF Awaits
          <6>4. InStep(a)'
            BY <5>2, <6>3 DEF InStep, Settled
          <6>5. row'[a] # None => RungOut(row[a])'
            BY <5>1, <5>2, <5>4, <6>1, <6>2 DEF RungOut
          <6> QED
            BY <5>1, <5>2, <6>4, <6>5, SilentEvents DEF Tidy
        <5> QED
          BY <4>3, <5>3, <5>4
      <4> QED
        BY <4>1, <4>2, <4>3
    <3>3. p \in Busy(a) /\ Concerns(job[p].todo, a) /\ Tail(todo) \in Seq(StepsOn(a))
      BY <2>3, <2>7
    <3> QED
      BY <2>2, <2>3, <2>4, <2>5, <3>2, <3>3, GotoHere
  <2> QED
    BY <2>6, <2>7
<1>3. CASE StepArm(p)
  <2>2. PICK todo, undo, since :
          todo = job[p].todo /\ undo = job[p].undo /\ since = job[p].since
    OBVIOUS
  <2>3. PICK b \in job[p].on :
          /\ Working(p) /\ b \in Alarm /\ p \in Busy(b)
          /\ Concerns(job[p].todo, b) /\ Next1(p).alarm = b
          /\ Head(todo) = Next1(p) /\ Next1(p).do = "ARM"
          /\ Tail(todo) \in Seq(StepsOn(b)) /\ undo \in Seq(StepsOn(b))
          /\ Next1(p).row \in Entries
          /\ AlarmInv(b) => Settles(b, todo, undo, since)
          /\ since \in Nat /\ since <= now
    BY <1>3, <2>2, NextOf DEF StepArm
  <2>4. UNCHANGED <<row, now, ringing>>
    BY <1>3 DEF StepArm
  <2>5. CASE /\ armed' = [armed EXCEPT ![b] = EventsOf(Next1(p).row, since, armed[b])]
             /\ Goto(p, Tail(todo), job[p].call)
    <3>1. CASE b # a
      <4>1. armed'[a] = armed[a]
        BY <1>0, <2>5, <3>1
      <4> QED
        BY <2>3, <2>4, <2>5, <3>1, <4>1, GotoElsewhere
    <3>2. CASE b = a
      <4>1. armed'[a] = EventsOf(Head(todo).row, since, armed[a])
        BY <1>0, <2>3, <2>5, <3>2
      <4>2. Settles(a, todo, undo, since) /\ Head(todo).do = "ARM"
            /\ Head(todo).row \in Entries
        BY <2>3, <3>2
      <4>3. /\ \/ Tail(todo) # <<>> /\ Settles(a, Tail(todo), undo, since)'
               \/ Tail(todo) = <<>> /\ InStep(a)'
            /\ armed'[a].ring # 0 /\ armed'[a].snooze # 0 =>
                 armed'[a].snooze <= armed'[a].ring
        BY <2>3, <2>4, <4>1, <4>2, ArmSettles
      <4>4. Tidy(a)'
        BY <2>4, <4>3 DEF Tidy, AlarmInv, RungOut
      <4>5. p \in Busy(a) /\ Concerns(job[p].todo, a)
            /\ Tail(todo) \in Seq(StepsOn(a))
        BY <2>3, <3>2
      <4> QED
        BY <2>2, <2>3, <2>4, <2>5, <4>3, <4>4, <4>5, GotoHere
    <3> QED
      BY <3>1, <3>2
  <2>6. CASE /\ apart' = apart \cup {b} /\ armed' = armed
             /\ IF job[p].call \in {"CREATE", "UPDATE"}
                THEN Undo(p, Tail(undo)) ELSE Goto(p, Tail(todo), job[p].call)
    <3>1. b # a
      BY <2>6
    <3>2. CASE job[p].call \in {"CREATE", "UPDATE"}
      <4>1. undo # <<>>
        BY <2>2, <2>3, <3>2, TypeParts DEF JobOK
      <4>2. Tail(undo) \in Seq(StepsOn(b))
        BY <2>3, <4>1, Tails
      <4>3. Goto(p, Tail(undo), "UNDO")
        BY <2>6, <3>2 DEF Undo
      <4> QED
        BY <2>3, <2>4, <2>6, <3>1, <4>2, <4>3, GotoElsewhere
    <3>3. CASE job[p].call \notin {"CREATE", "UPDATE"}
      BY <2>3, <2>4, <2>6, <3>1, <3>3, GotoElsewhere
    <3> QED
      BY <3>2, <3>3
  <2> QED
    BY <1>3, <2>2, <2>3, <2>5, <2>6 DEF StepArm, Continue
<1>4. CASE StoreFails(p)
  <2>1. /\ UNCHANGED <<row, armed, now, ringing>>
        /\ Goto(p, job[p].undo, "UNDO") /\ On(p, "STORE") /\ job[p].undo # <<>>
    BY <1>4 DEF StoreFails, Undo
  <2>2. PICK todo, undo, since :
          todo = job[p].todo /\ undo = job[p].undo /\ since = job[p].since
    OBVIOUS
  <2>3. PICK b \in job[p].on :
          /\ Working(p) /\ b \in Alarm /\ p \in Busy(b)
          /\ Concerns(job[p].todo, b)
          /\ Head(todo) = Next1(p) /\ Next1(p).do = "STORE"
          /\ undo \in Seq(StepsOn(b))
          /\ AlarmInv(b) => Settles(b, todo, undo, since)
    BY <2>1, <2>2, NextOf
  <2>4. CASE b # a
    BY <2>1, <2>2, <2>3, <2>4, GotoElsewhere
  <2>5. CASE b = a
    <3>1. Settles(a, todo, undo, since) /\ Head(todo).do = "STORE" /\ undo # <<>>
      BY <2>1, <2>2, <2>3, <2>5
    <3>2. Settles(a, undo, undo, since)'
      BY <2>1, <3>1, FailureSettles
    <3>3. Tidy(a)'
      BY <2>1, TidyLater
    <3>4. p \in Busy(a) /\ Concerns(job[p].todo, a) /\ undo \in Seq(StepsOn(a))
      BY <2>3, <2>5
    <3>5. Goto(p, undo, "UNDO")
      BY <2>1, <2>2
    <3> QED
      BY <2>1, <2>2, <2>3, <3>1, <3>2, <3>3, <3>4, <3>5, GotoHere
  <2> QED
    BY <2>4, <2>5
<1> QED
  BY <1>1, <1>2, <1>3, <1>4 DEF Step

(***************************************************************************)
(* The calls of the user                                                   *)
(***************************************************************************)
LEMMA UserAgrees ==
    ASSUME TypeInv, NEW p \in Proc, NEW b \in Alarm, NEW call \in Calls,
           NEW todo, NEW undo, todo # <<>>, Concerns(todo, b),
           UserCall(p, call, b, todo, undo),
           NEW a \in Alarm, a \notin apart', AlarmInv(a),
           b = a /\ InStep(a) => Settles(a, todo, undo, now)
    PROVE  AlarmInv(a)'
<1>1. /\ UNCHANGED <<row, armed, now, ringing>> /\ Free(p)
      /\ job' = [job EXCEPT ![p] =
           [call |-> call, on |-> {b}, todo |-> todo, rest |-> {},
            undo |-> undo, since |-> now]]
      /\ apart' = apart \cup {c \in {b} : Busy(c) # {}}
  BY DEF UserCall, Enter, FirstFree
<1>2. job = [q \in Proc |-> job[q]] /\ job[p] = Idle
  BY <1>1, TypeParts DEF JobOK
<1>3. /\ job'[p].call = call /\ job'[p].on = {b} /\ job'[p].todo = todo
      /\ job'[p].rest = {} /\ job'[p].undo = undo /\ job'[p].since = now
      /\ \A q \in Proc \ {p} : job'[q] = job[q]
  BY <1>1, <1>2
<1>4. \A c : p \notin Busy(c)
  BY <1>2 DEF Busy, Idle
<1>5. Same(a) /\ Tidy(a)'
  BY <1>1, TidyLater DEF Same
<1>6. CASE b # a
  <2>1. Busy(a)' = Busy(a)
    BY <1>3, <1>4, <1>6 DEF Busy
  <2>2. \A q \in Busy(a) : job'[q] = job[q]
    BY <1>3, <1>4 DEF Busy
  <2> QED
    BY <1>1, <1>5, <2>1, <2>2, Untouched
<1>7. CASE b = a
  <2>1. Busy(a) = {} /\ InStep(a)
    BY <1>1, <1>7 DEF AlarmInv
  <2>2. Busy(a)' = {p}
    BY <1>3, <1>7, <2>1 DEF Busy
  <2>3. PICK since : since = now
    OBVIOUS
  <2>4. Settles(a, todo, undo, since)'
    <3>1. Settles(a, todo, undo, since)
      BY <1>7, <2>1, <2>3
    <3> QED
      BY ONLY TypeInv, a \in Alarm, <1>5, <3>1, SettlesLater
  <2>5. Working(p)' /\ Concerns(todo, a)
    BY <1>3, <1>7 DEF Working, Calls
  <2>6. \A plan : Concerns(plan, a)' <=> Concerns(plan, a)
    BY DEF Concerns
  <2>7. Heading(a, p)'
    BY <1>3, <2>3, <2>4, <2>5, <2>6 DEF Heading, Working
  <2> QED
    BY <1>5, <2>2, <2>7 DEF AlarmInv, Tidy
<1> QED
  BY <1>6, <1>7

(* A new entry is armed for good.                                           *)
LEMMA FreshArms ==
    ASSUME now \in Nat, NEW t \in 0 .. MaxTime + Period, t > now, NEW r \in BOOLEAN
    PROVE  /\ Arms(Fresh(t, r), now) /\ Storable(Fresh(t, r))
           /\ Fresh(t, r) \in Rows
<1> DEFINE u == Fresh(t, r)
<1>1. /\ u \in Rows /\ u.trigger = t /\ u.snoozed = 0 /\ u.enabled /\ ~u.fired
  BY FreshEntry, EntryTypes DEF Fresh
<1>2. Awaits(u) /\ Storable(u)
  BY <1>1, NoneIsNoRow DEF Awaits, Storable
<1> HIDE DEF u
<1>3. Arms(u, now)
  BY <1>1, <1>2, ArmsWaiting
<1> QED
  BY <1>1, <1>2, <1>3 DEF u

(* A row that a screen shows can be armed again.                            *)
LEMMA ShownRearmable ==
    ASSUME TypeInv, NEW a \in Alarm, row[a] # None, InStep(a),
           row[a].fired => RungOut(row[a])
    PROVE  Rearmable(a, now)
<1>1. row[a] \in Entries /\ now \in Nat
  BY TypeParts
<1> QED
  BY <1>1, EntryTypes DEF Rearmable, RungOut

LEMMA CallAgrees ==
    ASSUME TypeInv, NEW p \in Proc, Call(p),
           NEW a \in Alarm, a \notin apart', AlarmInv(a)
    PROVE  AlarmInv(a)'
<1>0. now \in Nat /\ now <= MaxTime /\ ringing \subseteq Alarm
  BY TypeParts
<1>1. CASE CreateAlarm(p)
  <2>1. PICK b \in Alarm, d \in 1 .. Period, repeat \in BOOLEAN :
           /\ row[b] = None /\ armed[b] = Silent
           /\ now + d <= MaxTime
           /\ UserCall(p, "CREATE", b,
                <<Arm(b, Fresh(now + d, repeat)), Store(b, Fresh(now + d, repeat))>>,
                <<Cancel(b)>>)
    BY <1>1 DEF CreateAlarm
  <2> DEFINE u == Fresh(now + d, repeat)
             todo == <<Arm(b, u), Store(b, u)>>
             undo == <<Cancel(b)>>
  <2>2. Arms(u, now) /\ Storable(u) /\ u \in Rows
    <3>1. now + d \in 0 .. MaxTime + Period /\ now + d > now
      BY <1>0, <2>1, Numbers
    <3> QED
      BY <1>0, <3>1, FreshArms
  <2>3. UserCall(p, "CREATE", b, todo, undo)
    BY <2>1
  <2> HIDE DEF u
  <2>4. todo # <<>> /\ Concerns(todo, b)
    BY Heads, Kinds DEF Concerns
  <2>5. Settles(b, todo, undo, now)
    <3>1. Undoes(b, undo, now)
      BY <2>1 DEF Undoes, Awaits
    <3>2. PlanSettles(b, todo, undo, now, u)
      BY <2>1, <2>2, <3>1 DEF PlanSettles
    <3> QED
      BY <2>2, <3>2, SettlesByPlan
  <2> HIDE DEF todo, undo
  <2> QED
    BY <2>3, <2>4, <2>5, UserAgrees DEF Calls
<1>2. CASE UpdateAlarm(p)
  <2>1. PICK b \in Shown, d \in 1 .. Period, repeat \in BOOLEAN :
           /\ now + d <= MaxTime
           /\ UserCall(p, "UPDATE", b,
                <<Cancel(b), Arm(b, Fresh(now + d, repeat)),
                  Store(b, Fresh(now + d, repeat))>>,
                <<Cancel(b), Arm(b, row[b])>>)
    BY <1>2 DEF UpdateAlarm
  <2> DEFINE u == Fresh(now + d, repeat)
             todo == <<Cancel(b), Arm(b, u), Store(b, u)>>
             undo == <<Cancel(b), Arm(b, row[b])>>
  <2>2. Arms(u, now) /\ Storable(u) /\ u \in Rows
    <3>1. now + d \in 0 .. MaxTime + Period /\ now + d > now
      BY <1>0, <2>1, Numbers
    <3> QED
      BY <1>0, <3>1, FreshArms
  <2>3. UserCall(p, "UPDATE", b, todo, undo)
    BY <2>1
  <2>4. b \in Alarm /\ row[b] # None /\ ~row[b].fired
    BY DEF Shown
  <2> HIDE DEF u
  <2>5. todo # <<>> /\ Concerns(todo, b)
    BY Heads, Kinds DEF Concerns
  <2>6. InStep(b) => Settles(b, todo, undo, now)
    <3>1. InStep(b) => Rearmable(b, now)
      BY <2>4, ShownRearmable
    <3>2. InStep(b) => PlanSettles(b, todo, undo, now, u)
      BY <2>2, <3>1 DEF PlanSettles
    <3> QED
      BY <2>2, <2>4, <3>2, SettlesByPlan
  <2> HIDE DEF todo, undo
  <2> QED
    BY <2>3, <2>4, <2>5, <2>6, UserAgrees DEF Calls
<1>3. CASE DisableAlarm(p)
  <2>1. PICK b \in Shown :
           /\ row[b].enabled
           /\ UserCall(p, "DISABLE", b,
                <<Cancel(b), Store(b, [row[b] EXCEPT !.enabled = FALSE])>>,
                <<Arm(b, row[b])>>)
    BY <1>3 DEF DisableAlarm
  <2> DEFINE u == [row[b] EXCEPT !.enabled = FALSE]
             todo == <<Cancel(b), Store(b, u)>>
             undo == <<Arm(b, row[b])>>
  <2>2. b \in Alarm /\ row[b] # None /\ ~row[b].fired
    BY DEF Shown
  <2>3. u \in Rows /\ ~u.enabled /\ u.fired = row[b].fired
    <3>1. row[b] \in Rows
      BY <2>2, TypeParts DEF Entries
    <3> QED
      BY <3>1 DEF Rows
  <2>4. UserCall(p, "DISABLE", b, todo, undo)
    BY <2>1
  <2> HIDE DEF u
  <2>5. todo # <<>> /\ Concerns(todo, b)
    BY Heads, Kinds DEF Concerns
  <2>6. InStep(b) => Settles(b, todo, undo, now)
    <3>1. InStep(b) => Rearmable(b, now)
      BY <2>2, ShownRearmable
    <3>2. ~Awaits(u) /\ Storable(u)
      BY <2>2, <2>3 DEF Awaits, Storable
    <3>3. InStep(b) => PlanSettles(b, todo, undo, now, u)
      BY <3>1, <3>2 DEF PlanSettles
    <3> QED
      BY <2>2, <2>3, <3>2, <3>3, SettlesByPlan
  <2> HIDE DEF todo, undo
  <2> QED
    BY <2>2, <2>4, <2>5, <2>6, UserAgrees DEF Calls
<1>4. CASE EnableAlarm(p)
  <2>1. PICK b \in Shown :
           /\ ~row[b].enabled /\ NextTrigger(row[b], now) # 0
           /\ UserCall(p, "ENABLE", b,
                <<Arm(b, Fresh(NextTrigger(row[b], now), row[b].repeat)),
                  Store(b, Fresh(NextTrigger(row[b], now), row[b].repeat))>>,
                <<Cancel(b)>>)
    BY <1>4 DEF EnableAlarm
  <2> DEFINE t == NextTrigger(row[b], now)
             u == Fresh(t, row[b].repeat)
             todo == <<Arm(b, u), Store(b, u)>>
             undo == <<Cancel(b)>>
  <2>2. b \in Alarm /\ row[b] # None /\ ~row[b].fired
    BY DEF Shown
  <2>3. /\ row[b] \in Rows /\ row[b].trigger \in Nat /\ row[b].repeat \in BOOLEAN
        /\ row[b].trigger <= MaxTime + Period
    BY <1>0, <2>2, TypeParts, EntryTypes
  <2>4. t \in 0 .. MaxTime + Period /\ t > now
    <3>1. CASE row[b].repeat
      BY <1>0, <2>3, <3>1, NextTriggerLater, Numbers
    <3>2. CASE ~row[b].repeat
      BY <1>0, <2>1, <2>3, <3>2, Numbers DEF NextTrigger
    <3> QED
      BY <3>1, <3>2
  <2>5. UserCall(p, "ENABLE", b, todo, undo)
    BY <2>1
  <2> HIDE DEF t
  <2>6. Arms(u, now) /\ Storable(u) /\ u \in Rows
    BY <1>0, <2>3, <2>4, FreshArms
  <2> HIDE DEF u
  <2>7. todo # <<>> /\ Concerns(todo, b)
    BY Heads, Kinds DEF Concerns
  <2>8. InStep(b) => Settles(b, todo, undo, now)
    <3>1. ~Awaits(row[b])
      BY <2>1 DEF Awaits
    <3>2. InStep(b) => armed[b] = Silent
      BY <3>1 DEF InStep, Settled
    <3>3. Undoes(b, undo, now)
      BY <3>1 DEF Undoes
    <3>4. InStep(b) => PlanSettles(b, todo, undo, now, u)
      BY <2>6, <3>2, <3>3 DEF PlanSettles
    <3> QED
      BY <2>2, <2>6, <3>4, SettlesByPlan
  <2> HIDE DEF todo, undo
  <2> QED
    BY <2>2, <2>5, <2>7, <2>8, UserAgrees DEF Calls
<1>5. CASE CancelAlarm(p)
  <2>1. PICK b \in Shown :
           UserCall(p, "DELETE", b, <<Cancel(b), Do("DELETE", b, None)>>, <<>>)
    BY <1>5 DEF CancelAlarm
  <2> DEFINE todo == <<Cancel(b), Do("DELETE", b, None)>>
  <2>2. b \in Alarm /\ todo # <<>> /\ Concerns(todo, b)
    BY Heads, Kinds DEF Concerns, Shown
  <2>3. Settles(b, todo, <<>>, now)
    BY DEF Settles
  <2> HIDE DEF todo
  <2>4. UserCall(p, "DELETE", b, todo, <<>>)
    BY <2>1 DEF todo
  <2> QED
    BY <2>2, <2>3, <2>4, UserAgrees DEF Calls
<1>6. CASE SkipOccurrence(p)
  <2>1. PICK b \in Shown :
           /\ row[b].enabled /\ row[b].repeat /\ row[b].trigger = now + 1 /\ now < MaxTime
           /\ UserCall(p, "SKIP", b,
                <<Cancel(b),
                  Arm(b, [row[b] EXCEPT !.trigger = NextTrigger(row[b], row[b].trigger),
                                        !.fired = FALSE, !.snoozed = 0]),
                  Store(b, [row[b] EXCEPT !.trigger = NextTrigger(row[b], row[b].trigger),
                                          !.fired = FALSE, !.snoozed = 0])>>,
                <<Cancel(b), Arm(b, row[b])>>)
    BY <1>6 DEF SkipOccurrence
  <2> DEFINE t == NextTrigger(row[b], row[b].trigger)
             u == [row[b] EXCEPT !.trigger = t, !.fired = FALSE, !.snoozed = 0]
             todo == <<Cancel(b), Arm(b, u), Store(b, u)>>
             undo == <<Cancel(b), Arm(b, row[b])>>
  <2>2. b \in Alarm /\ row[b] # None /\ ~row[b].fired
    BY DEF Shown
  <2>3. row[b] \in Rows /\ row[b].trigger \in Nat
    BY <1>0, <2>2, TypeParts, EntryTypes
  <2>4. t \in Time /\ t > now /\ 0 \in Time
    BY <1>0, <2>1, <2>3, NextTriggerLater, Numbers DEF Time
  <2>5. UserCall(p, "SKIP", b, todo, undo)
    BY <2>1
  <2> HIDE DEF t
  <2>6. u \in Rows /\ u.trigger = t /\ u.snoozed = 0 /\ ~u.fired /\ u.enabled
    BY <2>1, <2>3, <2>4 DEF Rows
  <2> HIDE DEF u
  <2>7. Awaits(u) /\ Storable(u)
    BY <2>6, NoneIsNoRow DEF Awaits, Storable
  <2>8. Arms(u, now)
    BY <1>0, <2>4, <2>6, <2>7, ArmsWaiting
  <2>9. todo # <<>> /\ Concerns(todo, b)
    BY Heads, Kinds DEF Concerns
  <2>10. InStep(b) => Settles(b, todo, undo, now)
    <3>1. InStep(b) => Rearmable(b, now)
      BY <2>2, ShownRearmable
    <3>2. InStep(b) => PlanSettles(b, todo, undo, now, u)
      BY <2>8, <3>1 DEF PlanSettles
    <3> QED
      BY <2>2, <2>6, <2>7, <3>2, SettlesByPlan
  <2> HIDE DEF todo, undo
  <2> QED
    BY <2>2, <2>5, <2>9, <2>10, UserAgrees DEF Calls
<1>7. CASE SnoozeAlarm(p)
  <2>1. PICK b \in ringing :
           /\ row[b] # None /\ row[b].enabled
           /\ row[b].trigger > now => row[b].trigger > now + 1
           /\ UserCall(p, "SNOOZE", b,
                <<Cancel(b), Arm(b, [row[b] EXCEPT !.fired = FALSE, !.snoozed = now + 1]),
                  Store(b, [row[b] EXCEPT !.fired = FALSE, !.snoozed = now + 1])>>,
                <<Cancel(b), Arm(b, row[b])>>)
    BY <1>7 DEF SnoozeAlarm
  <2> DEFINE e == row[b]
             u == [e EXCEPT !.fired = FALSE, !.snoozed = now + 1]
             todo == <<Cancel(b), Arm(b, u), Store(b, u)>>
             undo == <<Cancel(b), Arm(b, e)>>
  <2>2. b \in Alarm /\ e # None /\ e \in Entries
    BY <1>0, <2>1, TypeParts
  <2>3. e \in Rows /\ e.trigger \in Nat /\ e.repeat \in BOOLEAN /\ e.fired \in BOOLEAN
    BY <1>0, <2>2, EntryTypes
  <2>4. UserCall(p, "SNOOZE", b, todo, undo)
    BY <2>1
  <2>5. /\ u \in Rows /\ u.trigger = e.trigger /\ u.snoozed = now + 1 /\ ~u.fired
        /\ u.enabled /\ u.repeat = e.repeat
    <3>1. now + 1 \in Time
      BY <1>0, Numbers DEF Time
    <3> QED
      BY <2>1, <2>3, <3>1 DEF Rows
  <2> HIDE DEF u
  <2>6. Awaits(u) /\ Storable(u)
    BY <2>5, NoneIsNoRow DEF Awaits, Storable
  <2>7. todo # <<>> /\ Concerns(todo, b) /\ Head(todo) = Cancel(b)
    BY Heads, Kinds DEF Concerns
  <2>8. ASSUME b = a, InStep(a)
        PROVE  Settles(a, todo, undo, now)
    <3>1. Rearmable(a, now)
      <4>1. row[a].fired => RungOut(row[a])
        BY <2>1, <2>8 DEF AlarmInv
      <4> QED
        BY <2>2, <2>8, <4>1, ShownRearmable
    <3>2. ASSUME Arms(u, now)
          PROVE  Settles(a, todo, undo, now)
      <4>1. PlanSettles(a, todo, undo, now, u)
        BY <2>8, <3>1, <3>2 DEF PlanSettles
      <4> QED
        BY <2>5, <2>6, <4>1, SettlesByPlan
    <3>3. CASE e.trigger > now \/ ~e.repeat
      <4>1. Arms(u, now)
        BY <1>0, <2>5, <2>6, <3>3, ArmsWaiting
      <4> QED
        BY <3>2, <4>1
    <3>4. CASE e.repeat /\ e.trigger <= now
      <4>1. Awaits(e)
        BY <2>1, <2>2, <2>8, <3>4 DEF Awaits, AlarmInv, RungOut
      <4>2. armed[a].ring = e.trigger
        BY <2>8, <3>4, <4>1 DEF InStep, Settled
      <4>3. CASE e.trigger = 0
        <5> DEFINE k == EventsOf(u, now, Silent)
        <5>1. /\ k.ring = IF u.enabled /\ ~u.fired /\ u.trigger > now THEN u.trigger ELSE 0
              /\ k.snooze = IF u.enabled /\ u.snoozed > now THEN u.snoozed ELSE 0
          BY SilentEvents DEF EventsOf
        <5> HIDE DEF k
        <5>2. k.ring = u.trigger /\ k.snooze = u.snoozed
          BY <1>0, <2>5, <4>3, <5>1
        <5>3. Settled(u, k)
          BY <2>6, <5>2 DEF Settled
        <5>4. Arms(u, now)
          BY <1>0, <2>5, <2>6, <5>3 DEF Arms, k, Awaits
        <5> QED
          BY <3>2, <5>4
      <4>4. CASE e.trigger # 0
        <5>1. armed[a]["ring"] # 0 /\ armed[a]["ring"] <= now
          BY <3>4, <4>2, <4>4
        <5>2. Overdue(a)
          BY <5>1 DEF Overdue
        <5> QED
          BY <2>7, <2>8, <5>2 DEF Settles
      <4> QED
        BY <4>3, <4>4
    <3>5. e.trigger > now \/ e.trigger <= now
      BY <1>0, <2>3
    <3> QED
      BY <2>3, <3>3, <3>4, <3>5
  <2> HIDE DEF todo, undo, e
  <2> QED
    BY <2>2, <2>4, <2>7, <2>8, UserAgrees DEF Calls
<1> QED
  BY <1>1, <1>2, <1>3, <1>4, <1>5, <1>6, <1>7 DEF Call

(***************************************************************************)
(* Rings, time and faults                                                  *)
(***************************************************************************)
(* An event of an alarm in step is the one that its row shows.              *)
LEMMA DeliveredRings ==
    ASSUME TypeInv, NEW a \in Alarm, NEW kind \in {"ring", "snooze"},
           AlarmInv(a), InStep(a), armed[a][kind] # 0, armed[a][kind] <= now,
           NEW occurrence, occurrence = armed[a][kind],
           armed' = [armed EXCEPT ![a][kind] = 0], UNCHANGED <<row, now>>
    PROVE  /\ Awaits(row[a]) /\ Rung(a, occurrence)'
           /\ (armed'[a].ring = 0 \/ armed'[a].snooze = 0)
<1> DEFINE e == row[a]
           h == armed[a]
<1>1. now \in Nat /\ h \in [ring : Time, snooze : Time] /\ h.ring \in Nat /\ h.snooze \in Nat
  BY TypeParts, EventTypes
<1>2. Awaits(e)
  BY <1>1 DEF InStep, Settled, Silent
<1>3. /\ h.snooze = e.snoozed
      /\ (h.ring = e.trigger \/ (h.ring = 0 /\ ~e.repeat))
  BY <1>2 DEF InStep, Settled
<1>4. e \in Entries /\ e.snoozed \in Nat
  BY <1>2, TypeParts, EntryTypes DEF Awaits
<1>5. (h.ring # 0 => h.ring >= now) /\ (h.snooze # 0 => h.snooze >= now)
  BY TypeParts, EventTypes DEF NotLate
<1>6. row' = row /\ now' = now
  OBVIOUS
<1>7. CASE kind = "ring"
  <2>1. armed' = [armed EXCEPT ![a] = [h EXCEPT !.ring = 0]]
    BY <1>7
  <2>2. armed'[a].ring = 0 /\ armed'[a].snooze = h.snooze
    BY <1>1, <2>1, TypeParts
  <2>3. h.ring = now /\ h.ring = e.trigger /\ occurrence = now
    BY <1>1, <1>3, <1>5, <1>7
  <2>4. CASE e.snoozed = 0
    <3>1. armed'[a] = Silent
      BY <1>1, <1>3, <2>1, <2>4, TypeParts DEF Silent
    <3> QED
      BY <1>2, <1>6, <2>2, <2>3, <2>4, <3>1 DEF Rung
  <2>5. CASE e.snoozed # 0
    <3>1. h.snooze <= h.ring
      BY <1>3, <1>7, <2>5 DEF AlarmInv
    <3>2. e.snoozed = now
      BY <1>1, <1>3, <1>5, <2>3, <2>5, <3>1
    <3>3. armed'[a]["snooze"] # 0 /\ armed'[a]["snooze"] <= now'
      BY <1>1, <1>3, <1>6, <2>2, <2>5, <3>2
    <3>4. Overdue(a)'
      BY <3>3 DEF Overdue
    <3> QED
      BY <1>2, <1>6, <2>2, <2>3, <3>2, <3>4 DEF Rung
  <2> QED
    BY <1>2, <2>2, <2>4, <2>5
<1>8. CASE kind = "snooze"
  <2>1. armed' = [armed EXCEPT ![a] = [h EXCEPT !.snooze = 0]]
    BY <1>8
  <2>2. armed'[a].snooze = 0 /\ armed'[a].ring = h.ring
    BY <1>1, <2>1, TypeParts
  <2>3. occurrence = e.snoozed
    BY <1>3, <1>8
  <2> QED
    BY <1>2, <1>3, <1>6, <2>2, <2>3 DEF Rung
<1> QED
  BY <1>7, <1>8

LEMMA RingAgrees ==
    ASSUME TypeInv, NEW p \in Proc, Ring(p),
           NEW a \in Alarm, a \notin apart', AlarmInv(a)
    PROVE  AlarmInv(a)'
<1>1. PICK b \in Alarm, kind \in {"ring", "snooze"} :
        /\ Free(p) /\ armed[b][kind] # 0 /\ armed[b][kind] <= now
        /\ armed' = [armed EXCEPT ![b][kind] = 0]
        /\ ringing' = ringing \cup {b}
        /\ job' = [job EXCEPT ![p] = [call |-> "RING", on |-> {b},
                     since |-> now, alarm |-> b, occurrence |-> armed[b][kind]]]
        /\ apart' = IF Busy(b) = {} THEN apart ELSE apart \cup {b}
        /\ UNCHANGED <<row, now>>
  BY DEF Ring, FirstFree
<1>2. PICK occurrence : occurrence = armed[b][kind]
  OBVIOUS
<1>3. job = [q \in Proc |-> job[q]] /\ job[p] = Idle
  BY <1>1, TypeParts DEF JobOK
<1>4. /\ job'[p].call = "RING" /\ job'[p].on = {b}
      /\ job'[p].occurrence = occurrence
      /\ \A q \in Proc \ {p} : job'[q] = job[q]
  BY <1>1, <1>2, <1>3
<1>5. \A c : p \notin Busy(c)
  BY <1>3 DEF Busy, Idle
<1>6. CASE b # a
  <2>1. Busy(a)' = Busy(a) /\ \A q \in Busy(a) : job'[q] = job[q]
    BY <1>4, <1>5, <1>6 DEF Busy
  <2>2. armed'[a] = armed[a]
    BY <1>1, <1>6, TypeParts
  <2>3. Same(a) /\ (a \in ringing' => a \in ringing)
    BY <1>1, <1>6, <2>2 DEF Same
  <2> QED
    BY <2>1, <2>3, Untouched
<1>7. CASE b = a
  <2>1. Busy(a) = {} /\ InStep(a)
    BY <1>1, <1>7 DEF AlarmInv
  <2>2. Busy(a)' = {p}
    BY <1>4, <1>7, <2>1 DEF Busy
  <2>3. /\ Awaits(row[a]) /\ Rung(a, occurrence)'
        /\ (armed'[a].ring = 0 \/ armed'[a].snooze = 0)
    BY <1>1, <1>2, <1>7, <2>1, DeliveredRings
  <2>4. Heading(a, p)'
    BY <1>4, <2>3 DEF Heading, Working
  <2>5. row' = row /\ ~row[a].fired
    BY <1>1, <2>3 DEF Awaits
  <2> QED
    BY <2>2, <2>3, <2>4, <2>5 DEF AlarmInv
<1> QED
  BY <1>6, <1>7

LEMMA TickAgrees ==
    ASSUME TypeInv, Tick, NEW a \in Alarm, AlarmInv(a)
    PROVE  AlarmInv(a)'
<1>1. Same(a) /\ UNCHANGED <<job, ringing>>
  BY DEF Tick, Same
<1>2. Busy(a)' = Busy(a)
  BY <1>1 DEF Busy
<1> QED
  BY <1>1, <1>2, Untouched

(* A restart brings every alarm back into the hands of one coroutine, even  *)
(* one that had come apart.                                                 *)
LEMMA RebootAgrees ==
    ASSUME TypeInv, Reboot, NEW a \in Alarm, a \notin apart'
    PROVE  AlarmInv(a)'
<1>1. /\ armed' = [b \in Alarm |-> Silent] /\ ringing' = {} /\ row' = row
      /\ apart' = {b \in Alarm : PassedBehindSnooze(row[b], now')}
  BY DEF Reboot
<1>2. PICK p \in Proc :
        job' = [[q \in Proc |-> Idle] EXCEPT
                  ![p] = [call |-> "BOOT", on |-> Alarm, since |-> now']]
  BY DEF Reboot
<1>3. job'[p].call = "BOOT" /\ job'[p].on = Alarm /\ \A q \in Proc \ {p} : job'[q] = Idle
  BY <1>2
<1>4. Busy(a)' = {p}
  BY <1>3 DEF Busy, Idle
<1>5. armed'[a] = Silent /\ ~PassedBehindSnooze(row[a], now)'
  BY <1>1
<1>6. Heading(a, p)'
  BY <1>3, <1>5 DEF Heading, Working
<1> QED
  BY <1>1, <1>4, <1>5, <1>6, SilentEvents DEF AlarmInv

(* The death of the process spares the alarms that nobody worked on.        *)
LEMMA DieAgrees ==
    ASSUME TypeInv, Die, NEW a \in Alarm, a \notin apart', AlarmInv(a)
    PROVE  AlarmInv(a)'
<1>1. /\ UNCHANGED <<row, armed, now>> /\ Killed
      /\ apart' = apart \cup UNION {job[p].on : p \in Proc}
  BY DEF Die
<1>2. Busy(a) = {} /\ Busy(a)' = {}
  BY <1>1 DEF Busy, Killed, Idle
<1>3. Same(a) /\ (a \in ringing' => a \in ringing)
  BY <1>1 DEF Same, Killed
<1> QED
  BY <1>2, <1>3, Untouched

(* Permissions, and the end of an alert, concern no alarm.                  *)
LEMMA OthersAgree ==
    ASSUME TypeInv, NEW a \in Alarm, AlarmInv(a),
           \/ GrantExact \/ NotificationsOff \/ NotificationsOn \/ EndAlert
           \/ UNCHANGED vars
    PROVE  AlarmInv(a)'
<1>1. UNCHANGED <<row, armed, now, job>> /\ (a \in ringing' => a \in ringing)
  BY DEF GrantExact, NotificationsOff, NotificationsOn, EndAlert, vars
<1>2. Same(a) /\ Busy(a)' = Busy(a)
  BY <1>1 DEF Same, Busy
<1> QED
  BY <1>1, <1>2, Untouched

LEMMA InitialAgreement == Init => AgreeInv
<1> SUFFICES ASSUME Init PROVE AgreeInv
  OBVIOUS
<1>1. TypeInv
  BY InitialTypes
<1> SUFFICES ASSUME NEW a \in Alarm PROVE AlarmInv(a)
  BY <1>1 DEF AgreeInv
<1>2. Busy(a) = {} /\ a \notin ringing
  BY DEF Init, Busy, Idle
<1>3. CASE row[a] = None
  <2>1. armed[a] = Silent
    BY <1>3 DEF Init
  <2> QED
    BY <1>2, <1>3, <2>1, SilentEvents DEF AlarmInv, InStep, Settled, Awaits
<1>4. CASE row[a] # None
  <2>1. PICK r \in BOOLEAN : row[a] = Fresh(1, r)
    BY <1>4 DEF Init
  <2>2. armed[a] = [Silent EXCEPT !.ring = row[a].trigger]
    BY <1>4 DEF Init
  <2>3. armed[a].ring = row[a].trigger /\ armed[a].snooze = 0
    BY <2>2 DEF Silent
  <2>4. row[a].snoozed = 0 /\ row[a].enabled /\ ~row[a].fired
    BY <2>1 DEF Fresh
  <2>5. InStep(a)
    BY <1>4, <2>3, <2>4 DEF InStep, Settled, Awaits
  <2> QED
    BY <1>2, <2>3, <2>5 DEF AlarmInv
<1> QED
  BY <1>3, <1>4

(* An alarm that has not come apart by a step had not before it, unless a   *)
(* restart put it right.                                                    *)
LEMMA AgreementHolds == AgreeInv /\ [Next]_vars => AgreeInv'
<1> SUFFICES ASSUME AgreeInv, [Next]_vars PROVE AgreeInv'
  OBVIOUS
<1>1. TypeInv /\ TypeInv'
  BY TypesHold DEF AgreeInv
<1> SUFFICES ASSUME NEW a \in Alarm, a \notin apart' PROVE AlarmInv(a)'
  BY <1>1 DEF AgreeInv
<1>2. a \notin apart => AlarmInv(a)
  BY DEF AgreeInv
<1>3. CASE \E p \in Proc : Call(p)
  <2>1. PICK p \in Proc : Call(p)
    BY <1>3
  <2>2. apart \subseteq apart'
    BY <2>1 DEF Call, CreateAlarm, UpdateAlarm, DisableAlarm, EnableAlarm,
                CancelAlarm, SkipOccurrence, SnoozeAlarm, UserCall, Enter
  <2> QED
    BY <1>1, <1>2, <2>1, <2>2, CallAgrees
<1>4. CASE \E p \in Proc : Ring(p)
  <2>1. PICK p \in Proc : Ring(p)
    BY <1>4
  <2>2. apart \subseteq apart'
    BY <2>1 DEF Ring
  <2> QED
    BY <1>1, <1>2, <2>1, <2>2, RingAgrees
<1>5. CASE \E p \in Proc : Step(p)
  <2>1. PICK p \in Proc : Step(p)
    BY <1>5
  <2>2. apart \subseteq apart'
    BY <2>1 DEF Step, ReadAfterRing, ReadAfterBoot, StepCancel, StepArm,
                StepStore, StoreFails, StepFire, StepDelete
  <2> QED
    BY <1>1, <1>2, <2>1, <2>2, StepAgrees
<1>6. CASE Tick
  BY <1>1, <1>2, <1>6, TickAgrees DEF Tick
<1>7. CASE Reboot
  BY <1>1, <1>7, RebootAgrees
<1>8. CASE Die
  BY <1>1, <1>2, <1>8, DieAgrees DEF Die
<1>9. CASE RevokeExact
  BY <1>9 DEF RevokeExact
<1>10. CASE GrantExact \/ NotificationsOff \/ NotificationsOn \/ EndAlert \/ UNCHANGED vars
  <2>1. a \notin apart
    BY <1>10 DEF GrantExact, NotificationsOff, NotificationsOn, EndAlert, vars
  <2> QED
    BY <1>1, <1>2, <1>10, <2>1, OthersAgree
<1> QED
  BY <1>3, <1>4, <1>5, <1>6, <1>7, <1>8, <1>9, <1>10 DEF Next

(* Whatever is called, rings, fails, dies or restarts in whatever order, an *)
(* alarm that no coroutine works on and that has not come apart is armed    *)
(* for exactly the times its row shows, or for none if it does not wait:    *)
(* the compensation of ClockRepositoryImpl keeps scheduled_alarms and       *)
(* AlarmManager in step for any number of alarms and of coroutines.         *)
THEOREM TableAndEventsAgree == Spec => []AlarmsAgree
<1>1. AgreeInv => AlarmsAgree
  BY DEF AgreeInv, AlarmInv, AlarmsAgree
<1> QED
  BY InitialAgreement, AgreementHolds, <1>1, PTL DEF Spec
=============================================================================
