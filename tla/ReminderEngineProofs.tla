------------------------ MODULE ReminderEngineProofs ------------------------
(***************************************************************************)
(* Theorems about ReminderEngine for every value of its constants.         *)
(***************************************************************************)
EXTENDS ReminderEngine, TLAPS

-----------------------------------------------------------------------------
(* What the value operators return.                                        *)

LEMMA NextOccurrenceType ==
    ASSUME NEW t \in Nat
    PROVE  NextOccurrence(t) \in Nat
<1>1. Period \in Nat /\ Period > 0
  BY EngineAssumption
<1>2. t % Period \in 0 .. (Period - 1) /\ t % Period <= t
  BY <1>1
<1>3. QED
  BY <1>1, <1>2 DEF NextOccurrence

LEMMA AdvanceType ==
    ASSUME NEW x \in Row, NEW t \in Nat, NEW closed \in ClosedStatus
    PROVE  Advance(x, t, closed) \in Row
  BY NextOccurrenceType DEF Advance, Row, OpenStatus, ClosedStatus, Times, None

LEMMA RescheduleType ==
    ASSUME NEW x \in Row, NEW t \in Nat, NEW request \in Nat
    PROVE  Reschedule(x, t, request) \in Row
<1>1. NextOccurrence(t) \in Times /\ t + request \in Times
  BY NextOccurrenceType DEF Times
<1> DEFINE next == IF request = 0 THEN NextOccurrence(t) ELSE t + request
<1>2. next \in Times
  BY <1>1
<1> DEFINE recurring == (request = 0)
<1>3. recurring \in BOOLEAN
  OBVIOUS
<1>4. ASSUME NEW n \in Times, NEW b \in BOOLEAN
      PROVE  [x EXCEPT !.status = "active", !.attempts = 0,
                       !.recur = b, !.next = n] \in Row
  BY DEF Row, OpenStatus
<1>5. [x EXCEPT !.status = "active", !.attempts = 0,
                !.recur = recurring, !.next = next] \in Row
  BY <1>2, <1>3, <1>4, Zenon
<1>6. QED
  BY <1>5, Zenon DEF Reschedule

LEMMA NewRowType ==
    ASSUME NEW h \in Handler
    PROVE  NewRow(h) \in Row
<1>1. h.obj \in Row /\ h.at \in Nat /\ h.request \in Nat
  BY DEF Handler
<1>0. h.at + RetryInterval \in Times /\ h.at + SnoozeMinutes \in Times
  BY <1>1, EngineAssumption DEF Times
<1>2. AckAlertSent(h.obj, h.at) \in Row
  <2>1. h.obj.attempts + 1 \in Nat
    BY <1>1 DEF Row
  <2>2. QED
    BY <1>0, <1>1, <2>1 DEF AckAlertSent, Row, OpenStatus
<1>3. Snooze(h.obj, h.at) \in Row
  BY <1>0, <1>1 DEF Snooze, Row, OpenStatus
<1>4. Delete(h.obj) \in Row
  BY <1>1 DEF Delete, Row, ClosedStatus, Times
<1>5. /\ NonAckDelivery(h.obj, h.at) \in Row
      /\ MarkMissed(h.obj, h.at) \in Row
      /\ Acknowledge(h.obj, h.at) \in Row
  BY <1>1, AdvanceType DEF NonAckDelivery, MarkMissed, Acknowledge, ClosedStatus
<1>6. Reschedule(h.obj, h.at, h.request) \in Row
  BY <1>1, RescheduleType
<1>7. QED
  BY <1>1, <1>2, <1>3, <1>4, <1>5, <1>6 DEF NewRow

LEMMA SqlUpdateType ==
    ASSUME NEW x \in Row, NEW seen \in Row, NEW new \in Row,
           NEW freshTime \in BOOLEAN
    PROVE  SqlUpdate(x, seen, new, freshTime) \in Row
  BY DEF SqlUpdate, Row

LEMMA CommittedType ==
    ASSUME NEW r \in Reminders, NEW h \in Handler,
           row \in [Reminders -> Row]
    PROVE  Committed(r, h) \in Row
<1>1. FreshTime(h, NewRow(h)) \in BOOLEAN
  BY DEF FreshTime
<1>2. row[r] \in Row /\ h.obj \in Row /\ NewRow(h) \in Row
  BY NewRowType DEF Handler
<1>3. QED
  BY <1>1, <1>2, SqlUpdateType DEF Committed

LEMMA IdleType == NoRow \in Row /\ Idle \in Handler
  BY DEF NoRow, Idle, Handler, Row, Times, None, Phases, Operations

-----------------------------------------------------------------------------
(* Type correctness, one lemma per group of actions.                       *)

LEMMA ScheduleType ==
    ASSUME TypeOK, NEW r \in Reminders, NEW t \in Times,
           ScheduleReminder(r, t)
    PROVE  job' \in [Reminders -> Times] /\ lost' \subseteq Reminders
  BY DEF TypeOK, ScheduleReminder

LEMMA DispatchType ==
    ASSUME TypeOK, NEW r \in Reminders, Dispatch(r)
    PROVE  TypeOK'
<1>1. CASE DispatchRun(r)
  <2>1. [Idle EXCEPT !.pc = "started", !.op = "fire", !.at = now] \in Handler
    BY IdleType DEF TypeOK, Handler, Phases, Operations
  <2>2. job' \in [Reminders -> Times] /\ worker' \in [Reminders -> Handler]
    BY <1>1, <2>1 DEF DispatchRun, TypeOK, Times
  <2>3. raced' \subseteq Reminders
    BY <1>1 DEF DispatchRun, NoteRace, TypeOK
  <2>4. QED
    BY <1>1, <2>2, <2>3 DEF DispatchRun, TypeOK, boundVars
<1>2. CASE DispatchDrop(r)
  BY <1>2 DEF DispatchDrop, TypeOK, boundVars, Times
<1>3. QED
  BY <1>1, <1>2 DEF Dispatch

LEMMA WorkerType ==
    ASSUME TypeOK, NEW r \in Reminders, WorkerStep(r) \/ WorkerFails(r)
    PROVE  TypeOK'
<1> DEFINE h == worker[r]
<1>0. h \in Handler /\ row[r] \in Row /\ h.obj \in Row /\ h.obj.next \in Times
  BY DEF TypeOK, Handler, Row
<1>1. CASE WorkerLoad(r)
  <2>1. [h EXCEPT !.pc = IF Exhausted(row[r]) THEN "commit" ELSE "send",
                  !.obj = row[r], !.at = now] \in Handler
    BY <1>0 DEF Handler, Phases, TypeOK
  <2>2. worker' \in [Reminders -> Handler]
    BY <1>1, <2>1, IdleType DEF WorkerLoad, TypeOK
  <2>3. QED
    BY <1>1, <2>2 DEF WorkerLoad, TypeOK, boundVars, noteVars
<1>2. CASE WorkerSend(r)
  <2>1. [h EXCEPT !.pc = "commit"] \in Handler
    BY <1>0 DEF Handler, Phases
  <2>2. /\ worker' \in [Reminders -> Handler]
        /\ sent' \in [Reminders -> Nat]
        /\ buttons' \subseteq Reminders \X {"alert", "update", "delete"}
    BY <1>2, <2>1 DEF WorkerSend, TypeOK
  <2>3. QED
    BY <1>2, <2>2 DEF WorkerSend, TypeOK, boundVars
<1>3. CASE WorkerCommit(r)
  <2>1. [h EXCEPT !.pc = "refresh"] \in Handler
    BY <1>0 DEF Handler, Phases
  <2>2. Committed(r, h) \in Row
    BY <1>0, CommittedType DEF TypeOK
  <2>3. /\ row' \in [Reminders -> Row]
        /\ worker' \in [Reminders -> Handler]
        /\ settled' \subseteq Reminders
        /\ sent' \in [Reminders -> Nat]
    BY <1>3, <2>1, <2>2 DEF WorkerCommit, TypeOK
  <2>4. QED
    BY <1>3, <2>3 DEF WorkerCommit, TypeOK, boundVars
<1>4. CASE WorkerRefresh(r)
  <2>1. [h EXCEPT !.pc = "schedule", !.obj = row[r]] \in Handler
    BY <1>0 DEF Handler, Phases
  <2>2. worker' = [worker EXCEPT ![r] =
                     [h EXCEPT !.pc = "schedule", !.obj = row[r]]]
    BY <1>4 DEF WorkerRefresh, TypeOK
  <2>3. worker' \in [Reminders -> Handler]
    BY <2>1, <2>2 DEF TypeOK
  <2>4. QED
    BY <1>4, <2>3 DEF WorkerRefresh, TypeOK, boundVars, noteVars
<1>5. CASE WorkerSchedule(r)
  <2>1. worker' \in [Reminders -> Handler]
    BY <1>5, IdleType DEF WorkerSchedule, TypeOK
  <2>2. job' \in [Reminders -> Times] /\ lost' \subseteq Reminders
    BY <1>0, <1>5, ScheduleType DEF WorkerSchedule
  <2>3. QED
    BY <1>5, <2>1, <2>2 DEF WorkerSchedule, TypeOK, boundVars
<1>6. CASE WorkerFails(r)
  BY <1>6, IdleType DEF WorkerFails, TypeOK
<1>7. QED
  BY <1>1, <1>2, <1>3, <1>4, <1>5, <1>6 DEF WorkerStep

LEMMA UserType ==
    ASSUME TypeOK, NEW r \in Reminders, UserStep(r)
    PROVE  TypeOK'
<1>1. ASSUME NEW op \in Operations, NEW pc \in Phases, NEW x \in Row,
             NEW request \in Nat, Begin(r, op, pc, x, request)
      PROVE  TypeOK'
  <2>1. [pc |-> pc, op |-> op, obj |-> x, at |-> now, request |-> request]
          \in Handler
    BY DEF TypeOK, Handler
  <2>2. bot' \in [Reminders -> Handler] /\ ops' \in Nat
    BY <1>1, <2>1 DEF Begin, UserActs, TypeOK
  <2>3. raced' \subseteq Reminders /\ stale' \subseteq Reminders
    BY <1>1 DEF Begin, NoteRace, NoteStale, TypeOK
  <2>4. QED
    BY <1>1, <2>2, <2>3 DEF Begin, TypeOK
<1>2. Requests \subseteq Nat /\ 0 \in Nat
  BY EngineAssumption DEF Requests
<1>3. {"check", "commit"} \subseteq Phases
      /\ {"create", "update", "delete", "ack", "snooze"} \subseteq Operations
  BY DEF Phases, Operations
<1>4. row[r] \in Row /\ \A ack \in BOOLEAN : [NoRow EXCEPT !.ack = ack] \in Row
  BY IdleType DEF TypeOK, Row
<1>5. CASE Create(r)
  BY <1>1, <1>2, <1>3, <1>4, <1>5 DEF Create
<1>6. CASE Update(r)
  BY <1>1, <1>2, <1>3, <1>4, <1>6 DEF Update
<1>7. CASE DeleteReminder(r) \/ AckButton(r) \/ SnoozeButton(r)
  BY <1>1, <1>2, <1>3, <1>4, <1>7
  DEF DeleteReminder, AckButton, SnoozeButton
<1>8. CASE OfferChoice(r)
  BY <1>8 DEF OfferChoice, UserActs, TypeOK, noteVars
<1>9. QED
  BY <1>5, <1>6, <1>7, <1>8 DEF UserStep

LEMMA BotType ==
    ASSUME TypeOK, NEW r \in Reminders, BotStep(r) \/ BotFails(r)
    PROVE  TypeOK'
<1> DEFINE h == bot[r]
<1>0. h \in Handler /\ row[r] \in Row /\ h.obj \in Row /\ h.obj.next \in Times
  BY DEF TypeOK, Handler, Row
<1>1. CASE BotCheckJob(r)
  <2>1. [h EXCEPT !.pc = IF job[r] = None THEN "commit" ELSE "remove",
                  !.at = now] \in Handler
    BY <1>0 DEF Handler, Phases, TypeOK
  <2>2. bot' = [bot EXCEPT ![r] =
            [h EXCEPT !.pc = IF job[r] = None THEN "commit" ELSE "remove",
                      !.at = now]]
    BY <1>1 DEF BotCheckJob, TypeOK
  <2>3. QED
    BY <1>1, <2>1, <2>2 DEF BotCheckJob, TypeOK, boundVars, noteVars
<1>2. CASE BotRemoveJob(r)
  <2>1. [h EXCEPT !.pc = "commit",
                  !.at = IF h.op = "update" THEN h.at ELSE now] \in Handler
    BY <1>0 DEF Handler, Phases, TypeOK
  <2>2. bot' = [bot EXCEPT ![r] =
            [h EXCEPT !.pc = "commit",
                      !.at = IF h.op = "update" THEN h.at ELSE now]]
    BY <1>2 DEF BotRemoveJob, TypeOK
  <2>3. job' \in [Reminders -> Times]
    BY <1>2 DEF BotRemoveJob, TypeOK, Times
  <2>4. QED
    BY <1>2, <2>1, <2>2, <2>3 DEF BotRemoveJob, TypeOK, boundVars, noteVars
<1>3. CASE BotJobGone(r)
  BY <1>3, IdleType DEF BotJobGone, TypeOK, boundVars, noteVars
<1>4. CASE BotCommit(r)
  <2>1. [h EXCEPT !.pc = "refresh"] \in Handler
    BY <1>0 DEF Handler, Phases
  <2>2. Committed(r, h) \in Row /\ NewRow(h) \in Row
    BY <1>0, CommittedType, NewRowType DEF TypeOK
  <2>3. /\ row' \in [Reminders -> Row]
        /\ sent' \in [Reminders -> Nat]
        /\ settled' \subseteq Reminders
        /\ lost' \subseteq Reminders
    BY <1>4, <2>2 DEF BotCommit, TypeOK
  <2>4. bot' \in [Reminders -> Handler]
    BY <1>4, <2>1, IdleType DEF BotCommit, TypeOK
  <2>5. QED
    BY <1>4, <2>3, <2>4 DEF BotCommit, TypeOK, boundVars
<1>5. CASE BotRefresh(r)
  <2>1. [h EXCEPT !.pc = "schedule", !.obj = row[r]] \in Handler
    BY <1>0 DEF Handler, Phases
  <2>2. bot' = [bot EXCEPT ![r] =
                  [h EXCEPT !.pc = "schedule", !.obj = row[r]]]
    BY <1>5 DEF BotRefresh, TypeOK
  <2>3. QED
    BY <1>5, <2>1, <2>2 DEF BotRefresh, TypeOK, boundVars, noteVars
<1>6. CASE BotSchedule(r)
  <2>1. job' \in [Reminders -> Times] /\ lost' \subseteq Reminders
    BY <1>0, <1>6, ScheduleType DEF BotSchedule
  <2>2. bot' \in [Reminders -> Handler]
    BY <1>6, IdleType DEF BotSchedule, TypeOK
  <2>3. QED
    BY <1>6, <2>1, <2>2 DEF BotSchedule, TypeOK, boundVars
<1>7. CASE BotFails(r)
  BY <1>7, IdleType DEF BotFails, TypeOK
<1>8. QED
  BY <1>1, <1>2, <1>3, <1>4, <1>5, <1>6, <1>7 DEF BotStep

LEMMA ProcessType ==
    ASSUME TypeOK, Crash \/ Restart \/ Tick \/ Horizon
    PROVE  TypeOK'
<1>1. CASE Crash
  <2>1. None \in Times
    BY DEF Times
  <2>2. /\ job' \in [Reminders -> Times]
        /\ worker' \in [Reminders -> Handler]
        /\ bot' \in [Reminders -> Handler]
    BY <1>1, <2>1, IdleType DEF Crash
  <2>3. lost' \subseteq Reminders /\ crashes' \in Nat
    BY <1>1 DEF Crash, TypeOK
  <2>4. up' \in BOOLEAN
    BY <1>1, Zenon DEF Crash
  <2>5. QED
    BY <1>1, <2>2, <2>3, <2>4 DEF Crash, TypeOK
<1>2. CASE Restart
  <2>1. \A r \in Reminders : row[r].next \in Times /\ None \in Times
    BY DEF TypeOK, Row, Times
  <2>2. job' \in [Reminders -> Times]
    BY <1>2, <2>1 DEF Restart
  <2>3. QED
    BY <1>2, <2>2 DEF Restart, TypeOK, boundVars, noteVars
<1>3. CASE Tick
  BY <1>3 DEF Tick, TypeOK, engineVars, boundVars, noteVars
<1>4. CASE Horizon
  BY <1>4 DEF Horizon, vars, TypeOK, engineVars, boundVars, noteVars
<1>5. QED
  BY <1>1, <1>2, <1>3, <1>4

\* Every reachable state is well typed: the merge of two handlers' columns is
\* again a row, and no time is computed before the epoch.
THEOREM TypeCorrect == Spec => []TypeOK
<1>1. Init => TypeOK
  BY IdleType DEF Init, TypeOK, Times
<1>2. TypeOK /\ [Next]_vars => TypeOK'
  <2>1. TypeOK /\ UNCHANGED vars => TypeOK'
    BY DEF vars, TypeOK, engineVars, boundVars, noteVars
  <2>2. TypeOK /\ Next => TypeOK'
    BY DispatchType, WorkerType, UserType, BotType, ProcessType DEF Next
  <2>3. QED
    BY <2>1, <2>2
<1>3. QED
  BY <1>1, <1>2, PTL DEF Spec

-----------------------------------------------------------------------------
(* No open reminder is forgotten.                                          *)

LEMMA DispatchRearms ==
    ASSUME TypeOK, JobOrRearming, NEW r \in Reminders, Dispatch(r)
    PROVE  JobOrRearming'
<1> SUFFICES ASSUME NEW q \in Reminders
             PROVE  up' /\ Schedulable(row'[q]) /\ q \notin lost'
                    /\ job'[q] = None
                    => Rearming(worker'[q]) \/ Rearming(bot'[q])
  BY DEF JobOrRearming
<1>1. CASE DispatchRun(r)
  BY <1>1 DEF DispatchRun, TypeOK, JobOrRearming, Rearming, boundVars
<1>2. CASE DispatchDrop(r)
  BY <1>2 DEF DispatchDrop, TypeOK, JobOrRearming, boundVars
<1>3. QED
  BY <1>1, <1>2 DEF Dispatch

LEMMA WorkerRearms ==
    ASSUME TypeOK, JobOrRearming, NEW r \in Reminders,
           WorkerStep(r) \/ WorkerFails(r)
    PROVE  JobOrRearming'
<1> SUFFICES ASSUME NEW q \in Reminders
             PROVE  up' /\ Schedulable(row'[q]) /\ q \notin lost'
                    /\ job'[q] = None
                    => Rearming(worker'[q]) \/ Rearming(bot'[q])
  BY DEF JobOrRearming
<1>0. worker[r] \in Handler
  BY DEF TypeOK
<1>1. CASE WorkerLoad(r)
  BY <1>0, <1>1
  DEF WorkerLoad, TypeOK, JobOrRearming, Rearming, Schedulable, noteVars, Handler
<1>2. CASE WorkerSend(r)
  BY <1>0, <1>2 DEF WorkerSend, TypeOK, JobOrRearming, Rearming, Handler
<1>3. CASE WorkerCommit(r)
  BY <1>0, <1>3 DEF WorkerCommit, TypeOK, JobOrRearming, Rearming, Handler
<1>4. CASE WorkerRefresh(r)
  BY <1>0, <1>4
  DEF WorkerRefresh, TypeOK, JobOrRearming, Rearming, Schedulable, noteVars,
      Handler
<1>5. CASE WorkerSchedule(r)
  BY <1>0, <1>5
  DEF WorkerSchedule, ScheduleReminder, TypeOK, JobOrRearming, Rearming, Handler
<1>6. CASE WorkerFails(r)
  BY <1>0, <1>6 DEF WorkerFails, TypeOK, JobOrRearming
<1>7. QED
  BY <1>1, <1>2, <1>3, <1>4, <1>5, <1>6 DEF WorkerStep

LEMMA UserRearms ==
    ASSUME TypeOK, JobOrRearming, NEW r \in Reminders, UserStep(r)
    PROVE  JobOrRearming'
<1> SUFFICES ASSUME NEW q \in Reminders
             PROVE  up' /\ Schedulable(row'[q]) /\ q \notin lost'
                    /\ job'[q] = None
                    => Rearming(worker'[q]) \/ Rearming(bot'[q])
  BY DEF JobOrRearming
<1>1. ASSUME NEW op, NEW pc, NEW x, NEW request, Begin(r, op, pc, x, request)
      PROVE  /\ UNCHANGED <<row, job, worker, up, lost>>
             /\ ~Rearming(bot[q])
  <2>1. ~Busy(bot[q])
    BY <1>1 DEF Begin, UserActs, BotFree
  <2>2. QED
    BY <1>1, <2>1 DEF Begin, Busy, Rearming
<1>2. CASE OfferChoice(r)
  BY <1>2 DEF OfferChoice, JobOrRearming, noteVars
<1>3. CASE ~OfferChoice(r)
  <2>1. \E op, pc, x, request : Begin(r, op, pc, x, request)
    BY <1>3
    DEF UserStep, Create, Update, DeleteReminder, AckButton, SnoozeButton
  <2>2. QED
    BY <1>1, <2>1 DEF JobOrRearming
<1>4. QED
  BY <1>2, <1>3

LEMMA BotRearms ==
    ASSUME TypeOK, JobOrRearming, NEW r \in Reminders,
           BotStep(r) \/ BotFails(r)
    PROVE  JobOrRearming'
<1> SUFFICES ASSUME NEW q \in Reminders
             PROVE  up' /\ Schedulable(row'[q]) /\ q \notin lost'
                    /\ job'[q] = None
                    => Rearming(worker'[q]) \/ Rearming(bot'[q])
  BY DEF JobOrRearming
<1>0. bot[r] \in Handler
  BY DEF TypeOK
<1>1. CASE BotCheckJob(r)
  BY <1>0, <1>1
  DEF BotCheckJob, TypeOK, JobOrRearming, Rearming, noteVars, Handler
<1>2. CASE BotRemoveJob(r)
  BY <1>0, <1>2
  DEF BotRemoveJob, TypeOK, JobOrRearming, Rearming, noteVars, Handler
<1>3. CASE BotJobGone(r)
  BY <1>0, <1>3 DEF BotJobGone, TypeOK, JobOrRearming, Rearming, noteVars
<1>4. CASE BotCommit(r)
  <2>1. CASE q = r /\ bot[r].op = "delete"
    BY <1>4, <2>1 DEF BotCommit, TypeOK
  <2>2. CASE q = r /\ bot[r].op # "delete"
    BY <1>0, <1>4, <2>2 DEF BotCommit, TypeOK, Rearming, Handler
  <2>3. CASE q # r
    BY <1>4, <2>3 DEF BotCommit, TypeOK, JobOrRearming
  <2>4. QED
    BY <2>1, <2>2, <2>3
<1>5. CASE BotRefresh(r)
  BY <1>0, <1>5
  DEF BotRefresh, TypeOK, JobOrRearming, Rearming, Schedulable, noteVars, Handler
<1>6. CASE BotSchedule(r)
  BY <1>0, <1>6
  DEF BotSchedule, ScheduleReminder, TypeOK, JobOrRearming, Rearming, Handler
<1>7. CASE BotFails(r)
  BY <1>0, <1>7 DEF BotFails, TypeOK, JobOrRearming
<1>8. QED
  BY <1>1, <1>2, <1>3, <1>4, <1>5, <1>6, <1>7 DEF BotStep

LEMMA ProcessRearms ==
    ASSUME TypeOK, JobOrRearming, Crash \/ Restart \/ Tick \/ Horizon
    PROVE  JobOrRearming'
<1>1. CASE Crash
  BY <1>1 DEF Crash, JobOrRearming
<1>2. CASE Restart
  BY <1>2 DEF Restart, JobOrRearming, Schedulable
<1>3. CASE Tick
  BY <1>3 DEF Tick, JobOrRearming, engineVars, noteVars
<1>4. CASE Horizon
  BY <1>4 DEF Horizon, vars, JobOrRearming, engineVars, noteVars
<1>5. QED
  BY <1>1, <1>2, <1>3, <1>4

\* Whenever an open reminder has no job, a handler in flight will schedule it:
\* the invariant that every step of worker, bot and process preserves.
THEOREM RearmingInvariant == Spec => []JobOrRearming
<1>1. Init => JobOrRearming
  BY DEF Init, JobOrRearming, Schedulable, IsOpen, OpenStatus, NoRow
<1>2. TypeOK /\ JobOrRearming /\ [Next]_vars => JobOrRearming'
  <2>1. JobOrRearming /\ UNCHANGED vars => JobOrRearming'
    BY DEF vars, JobOrRearming, engineVars, noteVars
  <2>2. TypeOK /\ JobOrRearming /\ Next => JobOrRearming'
    BY DispatchRearms, WorkerRearms, UserRearms, BotRearms, ProcessRearms
    DEF Next
  <2>3. QED
    BY <2>1, <2>2
<1>3. QED
  BY <1>1, <1>2, TypeCorrect, PTL DEF Spec

\* An open reminder no handler works on has a job or is one of the lost,
\* however many users, workers, failures and restarts interleave.
THEOREM NoReminderForgotten == Spec => []Covered
<1>1. JobOrRearming => Covered
  BY DEF JobOrRearming, Covered, Quiet, Busy, Rearming
<1>2. QED
  BY <1>1, RearmingInvariant, PTL

-----------------------------------------------------------------------------
(* Closed reminders stay closed.                                           *)

\* The only steps that can disturb it are the two commits and the worker's
\* read; a worker that reads a closed row gives up.
THEOREM ClosedForGood == Spec => []SettledStaysClosed
<1>1. Init => SettledStaysClosed
  BY DEF Init, SettledStaysClosed
<1>2. ASSUME TypeOK, SettledStaysClosed, NEW r \in Reminders,
             Dispatch(r) \/ WorkerStep(r) \/ WorkerFails(r)
      PROVE  SettledStaysClosed'
  <2>0. worker[r] \in Handler /\ settled \subseteq Reminders
    BY <1>2 DEF TypeOK
  <2>1. CASE Dispatch(r)
    BY <1>2, <2>0, <2>1
    DEF Dispatch, DispatchRun, DispatchDrop, TypeOK, SettledStaysClosed,
        HoldsRow, Idle
  <2>2. CASE WorkerLoad(r)
    BY <1>2, <2>0, <2>2
    DEF WorkerLoad, TypeOK, SettledStaysClosed, HoldsRow, Idle, noteVars,
        IsOpen, IsClosed, OpenStatus, ClosedStatus
  <2>3. CASE WorkerSend(r)
    BY <1>2, <2>0, <2>3 DEF WorkerSend, TypeOK, SettledStaysClosed, HoldsRow
  <2>4. CASE WorkerCommit(r)
    BY <1>2, <2>0, <2>4
    DEF WorkerCommit, TypeOK, SettledStaysClosed, HoldsRow, Handler
  <2>5. CASE WorkerRefresh(r) \/ WorkerSchedule(r) \/ WorkerFails(r)
    BY <1>2, <2>0, <2>5
    DEF WorkerRefresh, WorkerSchedule, WorkerFails, TypeOK, Handler,
        SettledStaysClosed, HoldsRow, Idle, noteVars
  <2>6. QED
    BY <1>2, <2>1, <2>2, <2>3, <2>4, <2>5 DEF WorkerStep
<1>3. ASSUME TypeOK, SettledStaysClosed, NEW r \in Reminders,
             UserStep(r) \/ BotStep(r) \/ BotFails(r)
      PROVE  SettledStaysClosed'
  <2>1. CASE BotCommit(r)
    BY <1>3, <2>1 DEF BotCommit, TypeOK, SettledStaysClosed
  <2>2. CASE UserStep(r)
    BY <1>3, <2>2
    DEF UserStep, Create, Update, DeleteReminder, AckButton, SnoozeButton,
        OfferChoice, Begin, SettledStaysClosed, noteVars
  <2>3. CASE BotFails(r) \/ (BotStep(r) /\ ~BotCommit(r))
    BY <1>3, <2>3
    DEF BotStep, BotCheckJob, BotRemoveJob, BotJobGone, BotRefresh,
        BotSchedule, BotFails, SettledStaysClosed, noteVars
  <2>4. QED
    BY <1>3, <2>1, <2>2, <2>3
<1>4. ASSUME TypeOK, SettledStaysClosed, Crash \/ Restart \/ Tick \/ Horizon
      PROVE  SettledStaysClosed'
  BY <1>4
  DEF TypeOK, Crash, Restart, Tick, Horizon, SettledStaysClosed, HoldsRow,
      Idle, vars, engineVars, noteVars
<1>5. TypeOK /\ SettledStaysClosed /\ [Next]_vars => SettledStaysClosed'
  <2>1. SettledStaysClosed /\ UNCHANGED vars => SettledStaysClosed'
    BY DEF vars, SettledStaysClosed, engineVars, noteVars
  <2>2. QED
    BY <1>2, <1>3, <1>4, <2>1 DEF Next
<1>6. QED
  BY <1>1, <1>5, TypeCorrect, PTL DEF Spec
-----------------------------------------------------------------------------
(* An open reminder has a time.                                            *)

\* Why OpenHasTime holds: what is about to be written back was open when it
\* was read, so that status and time change together.
CopiesAreOpen ==
    \A r \in Reminders :
        /\ Busy(worker[r]) => worker[r].op = "fire"
        /\ HoldsRow(worker[r]) => IsOpen(worker[r].obj)
        /\ Busy(bot[r]) =>
             bot[r].op \in {"create", "update", "delete", "ack", "snooze"}
        /\ bot[r].op = "ack" /\ bot[r].pc \in {"check", "remove", "commit"} =>
             bot[r].obj.status = "pending_ack"
        /\ /\ bot[r].op \in {"update", "delete"} /\ r \notin stale
           /\ bot[r].pc \in {"check", "remove", "commit"}
           => IsOpen(bot[r].obj)

\* The assignments of a handler to a row it read open, or to any row it
\* snoozes: an open result has a time, written whenever the status is, and a
\* closed one writes the status.
LEMMA NewRowTimes ==
    ASSUME NEW h \in Handler,
           \/ h.op \in {"fire", "update", "delete"} /\ IsOpen(h.obj)
           \/ h.op = "ack" /\ h.obj.status = "pending_ack"
           \/ h.op = "snooze"
    PROVE  LET new == NewRow(h) IN
           /\ IsOpen(new) => new.next # None
           /\ IsOpen(new) /\ new.status # h.obj.status =>
                FreshTime(h, new) \/ new.next # h.obj.next
           /\ ~IsOpen(new) => new.status # h.obj.status
<1>1. h.obj \in Row /\ h.at \in Nat /\ h.request \in Nat
  BY DEF Handler
<1>2. /\ NextOccurrence(h.at) # None
      /\ h.at + RetryInterval # None
      /\ h.at + SnoozeMinutes # None
      /\ h.at + h.request # None
  BY <1>1, NextOccurrenceType, EngineAssumption DEF None
<1>3. CASE h.op = "fire" /\ IsOpen(h.obj)
  BY <1>1, <1>2, <1>3
  DEF NewRow, MarkMissed, NonAckDelivery, AckAlertSent, Advance, Exhausted,
      FreshTime, IsOpen, OpenStatus, Row
<1>4. CASE h.op = "update" /\ IsOpen(h.obj)
  BY <1>1, <1>2, <1>4
  DEF NewRow, Reschedule, FreshTime, IsOpen, OpenStatus, Row
<1>5. CASE h.op = "delete" /\ IsOpen(h.obj)
  BY <1>1, <1>5 DEF NewRow, Delete, IsOpen, OpenStatus, Row
<1>6. CASE h.op = "ack" /\ h.obj.status = "pending_ack"
  BY <1>1, <1>2, <1>6
  DEF NewRow, Acknowledge, Advance, FreshTime, IsOpen, OpenStatus, Row
<1>7. CASE h.op = "snooze"
  BY <1>1, <1>2, <1>7 DEF NewRow, Snooze, FreshTime, IsOpen, OpenStatus, Row
<1>8. QED
  BY <1>3, <1>4, <1>5, <1>6, <1>7

\* Whatever row it is merged into.
LEMMA MergeHasTime ==
    ASSUME NEW r \in Reminders, NEW h \in Handler, row[r] \in Row,
           IsOpen(row[r]) => row[r].next # None,
           \/ h.op \in {"fire", "update", "delete"} /\ IsOpen(h.obj)
           \/ h.op = "ack" /\ h.obj.status = "pending_ack"
           \/ h.op = "snooze"
    PROVE  IsOpen(Committed(r, h)) => Committed(r, h).next # None
<1> DEFINE new == NewRow(h)
<1>1. new \in Row /\ h.obj \in Row
  BY NewRowType DEF Handler
<1>2. /\ IsOpen(new) => new.next # None
      /\ IsOpen(new) /\ new.status # h.obj.status =>
           FreshTime(h, new) \/ new.next # h.obj.next
      /\ ~IsOpen(new) => new.status # h.obj.status
  BY NewRowTimes
<1>3. Committed(r, h) = SqlUpdate(row[r], h.obj, new, FreshTime(h, new))
  BY DEF Committed
<1> HIDE DEF new
<1>4. QED
  BY <1>1, <1>2, <1>3 DEF SqlUpdate, IsOpen

\* A new reminder has one too.
LEMMA CreatedHasTime ==
    ASSUME NEW h \in Handler, h.op = "create"
    PROVE  NewRow(h).next # None
<1>1. h.obj \in Row /\ h.at \in Nat /\ h.request \in Nat
  BY DEF Handler
<1>2. NextOccurrence(h.at) # None /\ h.at + h.request # None
  BY <1>1, NextOccurrenceType DEF None
<1>3. QED
  BY <1>1, <1>2, Zenon DEF NewRow, Reschedule, Row

LEMMA WorkerKeepsTimes ==
    ASSUME TypeOK, CopiesAreOpen, OpenHasTime, NEW r \in Reminders,
           Dispatch(r) \/ WorkerStep(r) \/ WorkerFails(r)
    PROVE  CopiesAreOpen' /\ OpenHasTime'
<1>0. worker[r] \in Handler /\ row[r] \in Row
  BY DEF TypeOK
<1>1. CASE Dispatch(r)
  <2>1. CASE DispatchRun(r)
    <3>1. OpenHasTime'
      BY <2>1 DEF DispatchRun, OpenHasTime
    <3>2. worker'[r].pc = "started" /\ worker'[r].op = "fire"
      BY <2>1 DEF DispatchRun, TypeOK, Idle
    <3>3. QED
      BY <2>1, <3>1, <3>2
      DEF DispatchRun, TypeOK, CopiesAreOpen, Busy, HoldsRow
  <2>2. CASE DispatchDrop(r)
    BY <2>2 DEF DispatchDrop, CopiesAreOpen, OpenHasTime
  <2>3. QED
    BY <1>1, <2>1, <2>2 DEF Dispatch
<1>2. CASE WorkerLoad(r)
  BY <1>0, <1>2
  DEF WorkerLoad, TypeOK, CopiesAreOpen, OpenHasTime, Busy, HoldsRow, Idle,
      Handler, noteVars
<1>3. CASE WorkerSend(r)
  BY <1>0, <1>3
  DEF WorkerSend, TypeOK, CopiesAreOpen, OpenHasTime, Busy, HoldsRow, Handler
<1>4. CASE WorkerCommit(r)
  <2>1. worker[r].op = "fire" /\ IsOpen(worker[r].obj)
    BY <1>4 DEF WorkerCommit, CopiesAreOpen, Busy, HoldsRow
  <2>2. OpenHasTime'
    BY <1>0, <1>4, <2>1, MergeHasTime DEF WorkerCommit, TypeOK, OpenHasTime
  <2>3. CopiesAreOpen'
    BY <1>0, <1>4
    DEF WorkerCommit, TypeOK, CopiesAreOpen, Busy, HoldsRow, Handler
  <2>4. QED
    BY <2>2, <2>3
<1>5. CASE WorkerRefresh(r)
  BY <1>0, <1>5
  DEF WorkerRefresh, TypeOK, CopiesAreOpen, OpenHasTime, Busy, HoldsRow,
      Handler, noteVars
<1>6. CASE WorkerSchedule(r) \/ WorkerFails(r)
  BY <1>0, <1>6
  DEF WorkerSchedule, WorkerFails, TypeOK, CopiesAreOpen, OpenHasTime, Busy,
      HoldsRow, Idle
<1>7. QED
  BY <1>1, <1>2, <1>3, <1>4, <1>5, <1>6 DEF WorkerStep

LEMMA UserKeepsTimes ==
    ASSUME TypeOK, CopiesAreOpen, OpenHasTime, NEW r \in Reminders, UserStep(r)
    PROVE  CopiesAreOpen' /\ OpenHasTime'
<1>1. ASSUME NEW op \in {"create", "update", "delete", "ack", "snooze"},
             NEW pc \in {"check", "commit"}, NEW x, NEW request,
             Begin(r, op, pc, x, request),
             op = "ack" => x.status = "pending_ack"
      PROVE  CopiesAreOpen' /\ OpenHasTime'
  <2>1. bot' = [bot EXCEPT ![r] = [pc |-> pc, op |-> op, obj |-> x,
                                   at |-> now, request |-> request]]
    BY <1>1 DEF Begin
  <2>2. op \in {"update", "delete"} /\ r \notin stale' => IsOpen(x)
    BY <1>1 DEF Begin, NoteStale
  <2>3. stale \subseteq stale'
    BY <1>1 DEF Begin, NoteStale
  <2>4. UNCHANGED <<row, worker>>
    BY <1>1 DEF Begin
  <2>5. QED
    BY <1>1, <2>1, <2>2, <2>3, <2>4
    DEF TypeOK, CopiesAreOpen, OpenHasTime, Busy, HoldsRow
<1>2. CASE Create(r)
  BY <1>1, <1>2 DEF Create
<1>3. CASE Update(r)
  BY <1>1, <1>3 DEF Update
<1>4. CASE DeleteReminder(r)
  BY <1>1, <1>4 DEF DeleteReminder
<1>5. CASE AckButton(r)
  BY <1>1, <1>5 DEF AckButton
<1>6. CASE SnoozeButton(r)
  BY <1>1, <1>6 DEF SnoozeButton
<1>7. CASE OfferChoice(r)
  BY <1>7 DEF OfferChoice, CopiesAreOpen, OpenHasTime, noteVars
<1>8. QED
  BY <1>2, <1>3, <1>4, <1>5, <1>6, <1>7 DEF UserStep

LEMMA BotKeepsTimes ==
    ASSUME TypeOK, CopiesAreOpen, OpenHasTime, NEW r \in Reminders,
           BotStep(r) \/ BotFails(r)
    PROVE  CopiesAreOpen' /\ OpenHasTime'
<1>0. bot[r] \in Handler /\ row[r] \in Row
  BY DEF TypeOK
<1>1. CASE BotCheckJob(r) \/ BotRemoveJob(r)
  <2>1. /\ bot[r].pc \in {"check", "remove"}
        /\ bot'[r].op = bot[r].op /\ bot'[r].obj = bot[r].obj
        /\ \A q \in Reminders \ {r} : bot'[q] = bot[q]
    BY <1>0, <1>1 DEF BotCheckJob, BotRemoveJob, TypeOK, Handler
  <2>2. UNCHANGED <<row, worker, stale>>
    BY <1>1 DEF BotCheckJob, BotRemoveJob, noteVars
  <2>3. QED
    BY <2>1, <2>2 DEF CopiesAreOpen, OpenHasTime, Busy
<1>2. CASE BotJobGone(r) \/ BotSchedule(r) \/ BotFails(r)
  BY <1>0, <1>2
  DEF BotJobGone, BotSchedule, BotFails, TypeOK, CopiesAreOpen, OpenHasTime,
      Busy, Idle, noteVars
<1>3. CASE BotRefresh(r)
  BY <1>0, <1>3
  DEF BotRefresh, TypeOK, CopiesAreOpen, OpenHasTime, Busy, Handler, noteVars
<1>4. CASE BotCommit(r)
  <2>1. CopiesAreOpen'
    BY <1>0, <1>4 DEF BotCommit, TypeOK, CopiesAreOpen, Busy, Handler, Idle
  <2>2. bot[r].pc = "commit"
        /\ bot[r].op \in {"create", "update", "delete", "ack", "snooze"}
    BY <1>4 DEF BotCommit, CopiesAreOpen, Busy
  <2>3. ASSUME r \notin stale
        PROVE  IsOpen(row'[r]) => row'[r].next # None
    <3>1. CASE bot[r].op = "create"
      <4>1. row'[r] = NewRow(bot[r])
        BY <1>4, <3>1 DEF BotCommit, TypeOK
      <4>2. QED
        BY <1>0, <3>1, <4>1, CreatedHasTime
    <3>2. CASE bot[r].op # "create"
      <4>1. row'[r] = Committed(r, bot[r])
        BY <1>4, <3>2 DEF BotCommit, TypeOK
      <4>2. \/ bot[r].op \in {"update", "delete"} /\ IsOpen(bot[r].obj)
            \/ bot[r].op = "ack" /\ bot[r].obj.status = "pending_ack"
            \/ bot[r].op = "snooze"
        BY <2>2, <2>3, <3>2 DEF CopiesAreOpen
      <4>3. IsOpen(row[r]) => row[r].next # None
        BY <2>3 DEF OpenHasTime
      <4>4. QED
        BY <1>0, <4>1, <4>2, <4>3, MergeHasTime
    <3>3. QED
      BY <3>1, <3>2
  <2>4. OpenHasTime'
    BY <1>4, <2>3 DEF BotCommit, TypeOK, OpenHasTime
  <2>5. QED
    BY <2>1, <2>4
<1>5. QED
  BY <1>1, <1>2, <1>3, <1>4 DEF BotStep

LEMMA ProcessKeepsTimes ==
    ASSUME TypeOK, CopiesAreOpen, OpenHasTime,
           Crash \/ Restart \/ Tick \/ Horizon
    PROVE  CopiesAreOpen' /\ OpenHasTime'
<1>1. CASE Crash
  BY <1>1 DEF Crash, CopiesAreOpen, OpenHasTime, Busy, HoldsRow, Idle
<1>2. CASE Restart \/ Tick \/ Horizon
  BY <1>2
  DEF Restart, Tick, Horizon, vars, engineVars, noteVars, CopiesAreOpen,
      OpenHasTime
<1>3. QED
  BY <1>1, <1>2

\* No merge of two handlers' columns leaves an open reminder without a time,
\* unless an old choice button was pressed for a closed one.
THEOREM OpenRemindersHaveTime == Spec => []OpenHasTime
<1>1. Init => CopiesAreOpen /\ OpenHasTime
  BY DEF Init, CopiesAreOpen, OpenHasTime, Busy, HoldsRow, Idle, IsOpen,
         OpenStatus, NoRow
<1>2. TypeOK /\ CopiesAreOpen /\ OpenHasTime /\ [Next]_vars
        => CopiesAreOpen' /\ OpenHasTime'
  <2>1. CopiesAreOpen /\ OpenHasTime /\ UNCHANGED vars
          => CopiesAreOpen' /\ OpenHasTime'
    BY DEF vars, CopiesAreOpen, OpenHasTime, engineVars, noteVars
  <2>2. QED
    BY <2>1, WorkerKeepsTimes, UserKeepsTimes, BotKeepsTimes, ProcessKeepsTimes
    DEF Next
<1>3. QED
  BY <1>1, <1>2, TypeCorrect, PTL DEF Spec
-----------------------------------------------------------------------------
(* Reminders on which worker and bot have never overlapped.                *)

\* Such a reminder, seen from its row, from the worker, from the bot, from the
\* job store and from the alerts sent: everyone's copy is the row, and a job
\* exists only while no one is about to write.
RowInOrder(x) ==
    /\ IsOpen(x) <=> x.next # None
    /\ x.status = "active" => x.attempts = 0
    /\ x.status = "pending_ack" => x.ack /\ x.attempts \in 1..MaxAttempts

WorkerInOrder(r) ==
    LET h == worker[r] IN
    Busy(h) =>
        /\ h.op = "fire" /\ ~Busy(bot[r])
        /\ up /\ job[r] = None /\ r \notin lost
        /\ h.pc = "started" => IsOpen(row[r]) /\ row[r].next <= now
        /\ HoldsRow(h) =>
             h.obj = row[r] /\ IsOpen(row[r]) /\ row[r].next <= now
        /\ h.pc = "send" => ~Exhausted(row[r])
        /\ h.pc = "schedule" => h.obj = row[r]

BotInOrder(r) ==
    LET h == bot[r] IN
    Busy(h) =>
        /\ h.op \in {"create", "update", "delete", "ack", "snooze"} /\ up
        /\ h.pc \in {"commit", "refresh", "schedule"} => job[r] = None
        /\ h.pc \in {"check", "remove", "commit"} /\ h.op # "create" =>
             h.obj = row[r]
        /\ h.pc = "schedule" => h.obj = row[r]
        /\ h.pc \in {"refresh", "schedule"} => sent[r] = 0

JobInOrder(r) ==
    /\ job[r] # None => up /\ IsOpen(row[r]) /\ job[r] = row[r].next
    /\ r \in lost => up /\ job[r] = None

\* The alerts the row knows of.  One more is out while it is being recorded,
\* and stays out if that fails.
Recorded(x) == IF x.status = "pending_ack" THEN x.attempts ELSE 0

SentInOrder(r) ==
    /\ row[r].status = "pending_ack" => sent[r] >= row[r].attempts
    /\ worker[r].pc = "commit" /\ ~Exhausted(row[r]) =>
         sent[r] > Recorded(row[r])
    /\ \/ sent[r] <= Recorded(row[r]) + crashes
       \/ /\ worker[r].pc = "commit" \/ r \in lost
          /\ IsOpen(row[r]) /\ ~Exhausted(row[r])
          /\ sent[r] <= Recorded(row[r]) + crashes + 1

InOrder(r) ==
    /\ RowInOrder(row[r]) /\ WorkerInOrder(r) /\ BotInOrder(r)
    /\ JobInOrder(r) /\ SentInOrder(r)

UnracedInOrder == \A r \in Reminders \ raced : InOrder(r)

\* A commit over the very row that was read leaves exactly what was assigned.
LEMMA UndisturbedCommit ==
    ASSUME NEW r \in Reminders, NEW h \in Handler, h.obj = row[r]
    PROVE  Committed(r, h) = NewRow(h)
<1> DEFINE new == NewRow(h)
<1>1. new \in Row /\ h.obj \in Row
  BY NewRowType DEF Handler
<1>2. new.ack = h.obj.ack
  BY <1>1
  DEF NewRow, MarkMissed, NonAckDelivery, AckAlertSent, Acknowledge, Advance,
      Reschedule, Snooze, Delete, Row
<1>3. Committed(r, h) = SqlUpdate(h.obj, h.obj, new, FreshTime(h, new))
  BY DEF Committed
<1> HIDE DEF new
<1>4. SqlUpdate(h.obj, h.obj, new, FreshTime(h, new)) = new
  BY <1>1, <1>2 DEF SqlUpdate, Row
<1>5. QED
  BY <1>3, <1>4 DEF new

\* What an alert's thread makes of a row in order: a wake-up is alerted for the
\* next time, or its occurrence is over.
LEMMA FiredRow ==
    ASSUME NEW h \in Handler, h.op = "fire", IsOpen(h.obj), RowInOrder(h.obj)
    PROVE  LET new == NewRow(h) IN
           /\ RowInOrder(new)
           /\ new.status = "pending_ack" =>
                /\ ~Exhausted(h.obj)
                /\ new.attempts = Recorded(h.obj) + 1
<1>1. h.obj \in Row /\ h.at \in Nat
  BY DEF Handler
<1>2. NextOccurrence(h.at) \in Nat /\ h.at + RetryInterval \in Nat
  BY <1>1, NextOccurrenceType, EngineAssumption
<1>3. MaxAttempts \in Nat \ {0}
  BY EngineAssumption
<1>4. CASE Exhausted(h.obj) \/ ~(h.obj.ack \/ h.obj.status = "pending_ack")
  <2>1. \/ NewRow(h) = Advance(h.obj, h.at, "missed")
        \/ NewRow(h) = Advance(h.obj, h.at, "completed")
    BY <1>4 DEF NewRow, MarkMissed, NonAckDelivery
  <2>2. ASSUME NEW closed \in {"missed", "completed"}
        PROVE  /\ RowInOrder(Advance(h.obj, h.at, closed))
               /\ Advance(h.obj, h.at, closed).status # "pending_ack"
    BY <1>1, <1>2 DEF Advance, RowInOrder, IsOpen, OpenStatus, Row, None
  <2>3. QED
    BY <2>1, <2>2
<1>5. CASE ~Exhausted(h.obj) /\ (h.obj.ack \/ h.obj.status = "pending_ack")
  <2>1. NewRow(h) = AckAlertSent(h.obj, h.at)
    BY <1>5 DEF NewRow
  <2>2. h.obj.ack /\ h.obj.attempts \in Nat /\ h.obj.attempts < MaxAttempts
    BY <1>1, <1>3, <1>5
    DEF RowInOrder, Exhausted, IsOpen, OpenStatus, Row
  <2>3. h.obj.attempts = Recorded(h.obj)
    BY <1>1 DEF RowInOrder, Recorded, IsOpen, OpenStatus
  <2>4. QED
    BY <1>1, <1>2, <1>3, <1>5, <2>1, <2>2, <2>3
    DEF AckAlertSent, RowInOrder, IsOpen, OpenStatus, Row, None
<1>6. QED
  BY <1>4, <1>5

\* What the bot makes of any row is in order, and starts the alerts afresh.
LEMMA BotRow ==
    ASSUME NEW h \in Handler,
           h.op \in {"create", "update", "delete", "ack", "snooze"}
    PROVE  RowInOrder(NewRow(h)) /\ NewRow(h).status # "pending_ack"
<1>1. h.obj \in Row /\ h.at \in Nat /\ h.request \in Nat
  BY DEF Handler
<1>2. /\ NextOccurrence(h.at) \in Nat
      /\ h.at + SnoozeMinutes \in Nat /\ h.at + h.request \in Nat
  BY <1>1, NextOccurrenceType, EngineAssumption
<1>3. CASE h.op \in {"create", "update"}
  BY <1>1, <1>2, <1>3
  DEF NewRow, Reschedule, RowInOrder, IsOpen, OpenStatus, Row, None
<1>4. CASE h.op = "delete"
  BY <1>1, <1>4 DEF NewRow, Delete, RowInOrder, IsOpen, OpenStatus, Row
<1>5. CASE h.op = "ack"
  BY <1>1, <1>2, <1>5
  DEF NewRow, Acknowledge, Advance, RowInOrder, IsOpen, OpenStatus, Row, None
<1>6. CASE h.op = "snooze"
  <2>1. NewRow(h) = Snooze(h.obj, h.at)
    BY <1>6 DEF NewRow
  <2>2. QED
    BY <1>1, <1>2, <2>1 DEF Snooze, RowInOrder, IsOpen, OpenStatus, Row, None
<1>7. QED
  BY <1>3, <1>4, <1>5, <1>6

\* A step on one reminder leaves the others, the clock and the crashes alone.
StepOn(r) ==
    \/ Dispatch(r) \/ WorkerStep(r) \/ WorkerFails(r)
    \/ UserStep(r) \/ BotStep(r) \/ BotFails(r)

LEMMA StepIsLocal ==
    ASSUME TypeOK, NEW r \in Reminders, StepOn(r)
    PROVE  /\ UNCHANGED <<now, up, crashes>>
           /\ raced \subseteq raced' /\ raced' \subseteq raced \cup {r}
           /\ \A q \in Reminders \ {r} :
                /\ row'[q] = row[q] /\ job'[q] = job[q]
                /\ worker'[q] = worker[q] /\ bot'[q] = bot[q]
                /\ sent'[q] = sent[q] /\ (q \in lost' <=> q \in lost)
<1>1. CASE Dispatch(r)
  BY <1>1
  DEF Dispatch, DispatchRun, DispatchDrop, NoteRace, TypeOK, boundVars
<1>2. CASE WorkerStep(r) \/ WorkerFails(r)
  BY <1>2
  DEF WorkerStep, WorkerLoad, WorkerSend, WorkerCommit, WorkerRefresh,
      WorkerSchedule, WorkerFails, ScheduleReminder, TypeOK, boundVars, noteVars
<1>3. CASE UserStep(r)
  <2>1. ASSUME NEW op, NEW pc, NEW x, NEW request, Begin(r, op, pc, x, request)
        PROVE  /\ UNCHANGED <<row, job, worker, now, up, crashes, lost, sent>>
               /\ raced \subseteq raced' /\ raced' \subseteq raced \cup {r}
               /\ \A q \in Reminders \ {r} : bot'[q] = bot[q]
    BY <2>1 DEF Begin, NoteRace, TypeOK
  <2>2. CASE OfferChoice(r)
    BY <2>2 DEF OfferChoice, noteVars
  <2>3. CASE ~OfferChoice(r)
    <3>1. \E op, pc, x, request : Begin(r, op, pc, x, request)
      BY <1>3, <2>3
      DEF UserStep, Create, Update, DeleteReminder, AckButton, SnoozeButton
    <3>2. QED
      BY <2>1, <3>1
  <2>4. QED
    BY <2>2, <2>3
<1>4. CASE BotStep(r) \/ BotFails(r)
  BY <1>4
  DEF BotStep, BotCheckJob, BotRemoveJob, BotJobGone, BotCommit, BotRefresh,
      BotSchedule, BotFails, ScheduleReminder, TypeOK, boundVars, noteVars
<1>5. QED
  BY <1>1, <1>2, <1>3, <1>4 DEF StepOn
\* Reminders the step does not touch stay in order.
LEMMA OthersInOrder ==
    ASSUME TypeOK, UnracedInOrder, NEW r \in Reminders, StepOn(r),
           r \notin raced' => InOrder(r)'
    PROVE  UnracedInOrder'
<1> SUFFICES ASSUME NEW q \in Reminders \ {r}, q \notin raced'
             PROVE  InOrder(q)'
  BY DEF UnracedInOrder
<1>1. InOrder(q)
  BY StepIsLocal DEF UnracedInOrder
<1>2. /\ row'[q] = row[q] /\ job'[q] = job[q]
      /\ worker'[q] = worker[q] /\ bot'[q] = bot[q]
      /\ sent'[q] = sent[q] /\ (q \in lost' <=> q \in lost)
      /\ UNCHANGED <<now, up, crashes>>
  BY StepIsLocal
<1>3. QED
  BY <1>1, <1>2
  DEF InOrder, WorkerInOrder, BotInOrder, JobInOrder, SentInOrder

LEMMA DispatchInOrder ==
    ASSUME TypeOK, NEW r \in Reminders, InOrder(r), r \notin raced',
           Dispatch(r)
    PROVE  InOrder(r)'
<1>0. /\ row[r] \in Row /\ sent[r] \in Nat /\ crashes \in Nat /\ now \in Nat
      /\ job[r] # None
  BY DEF TypeOK, Dispatch, DispatchRun, DispatchDrop, Due
<1>1. /\ up /\ IsOpen(row[r]) /\ job[r] = row[r].next /\ r \notin lost
      /\ ~Busy(worker[r])
  BY <1>0 DEF InOrder, JobInOrder, WorkerInOrder
<1>2. CASE DispatchRun(r)
  <2>1. /\ worker'[r].pc = "started" /\ worker'[r].op = "fire"
        /\ job'[r] = None /\ ~Busy(bot[r]) /\ row[r].next <= now
        /\ UNCHANGED <<row, bot, now, up, crashes, lost, sent>>
    BY <1>1, <1>2
    DEF DispatchRun, NoteRace, Due, TypeOK, Idle, boundVars
  <2>2. WorkerInOrder(r)' /\ BotInOrder(r)'
    BY <1>1, <2>1 DEF WorkerInOrder, BotInOrder, Busy, HoldsRow
  <2>3. RowInOrder(row[r])' /\ JobInOrder(r)'
    BY <1>1, <2>1 DEF InOrder, JobInOrder
  <2>4. SentInOrder(r)'
    BY <1>1, <2>1 DEF InOrder, SentInOrder, Busy
  <2>5. QED
    BY <2>2, <2>3, <2>4 DEF InOrder
<1>3. CASE DispatchDrop(r)
  <2>1. /\ job'[r] = None /\ lost' = lost \cup {r}
        /\ UNCHANGED <<row, worker, bot, now, up, crashes, sent>>
    BY <1>3 DEF DispatchDrop, TypeOK, boundVars
  <2>2. QED
    BY <1>1, <2>1
    DEF InOrder, WorkerInOrder, BotInOrder, JobInOrder, SentInOrder, Busy
<1>4. QED
  BY <1>2, <1>3 DEF Dispatch

LEMMA WorkerStaysInOrder ==
    ASSUME TypeOK, NEW r \in Reminders, InOrder(r), r \notin raced',
           WorkerStep(r) \/ WorkerFails(r)
    PROVE  InOrder(r)'
<1>0. /\ row[r] \in Row /\ sent[r] \in Nat /\ crashes \in Nat /\ now \in Nat
      /\ worker[r] \in Handler /\ row[r].attempts \in Nat
  BY DEF TypeOK, Row
<1>1. Busy(worker[r])
  BY DEF WorkerStep, WorkerLoad, WorkerSend, WorkerCommit, WorkerRefresh,
         WorkerSchedule, WorkerFails, Busy
<1>2. /\ worker[r].op = "fire" /\ ~Busy(bot[r])
      /\ up /\ job[r] = None /\ r \notin lost /\ RowInOrder(row[r])
  BY <1>1 DEF InOrder, WorkerInOrder
<1>3. UNCHANGED <<bot, now, up, crashes>>
  BY DEF WorkerStep, WorkerLoad, WorkerSend, WorkerCommit, WorkerRefresh,
         WorkerSchedule, WorkerFails, boundVars
<1>4. BotInOrder(r)'
  BY <1>2, <1>3 DEF BotInOrder
<1>5. CASE WorkerLoad(r)
  <2>1. UNCHANGED <<row, job, lost, sent>> /\ JobInOrder(r)'
    BY <1>2, <1>5 DEF WorkerLoad, noteVars, JobInOrder
  <2>2. worker[r].pc = "started" /\ IsOpen(row[r]) /\ row[r].next <= now
    BY <1>1, <1>5 DEF WorkerLoad, InOrder, WorkerInOrder
  <2>3. /\ worker'[r].pc = IF Exhausted(row[r]) THEN "commit" ELSE "send"
        /\ worker'[r].obj = row[r] /\ worker'[r].op = "fire"
    BY <1>0, <1>2, <1>5, <2>2 DEF WorkerLoad, TypeOK, Handler
  <2>4. WorkerInOrder(r)'
    BY <1>2, <1>3, <2>1, <2>2, <2>3 DEF WorkerInOrder, HoldsRow
  <2>5. SentInOrder(r)'
    BY <1>2, <1>3, <2>1, <2>2, <2>3 DEF InOrder, SentInOrder
  <2>6. QED
    BY <1>2, <1>4, <2>1, <2>4, <2>5 DEF InOrder
<1>6. CASE WorkerSend(r)
  <2>1. UNCHANGED <<row, job, lost>> /\ JobInOrder(r)'
    BY <1>2, <1>6, <1>3 DEF WorkerSend, JobInOrder
  <2>2. /\ worker[r].pc = "send" /\ worker[r].obj = row[r]
        /\ IsOpen(row[r]) /\ row[r].next <= now /\ ~Exhausted(row[r])
    BY <1>1, <1>6 DEF WorkerSend, InOrder, WorkerInOrder, HoldsRow
  <2>3. /\ worker'[r].pc = "commit" /\ worker'[r].obj = row[r]
        /\ worker'[r].op = "fire" /\ sent'[r] = sent[r] + 1
    BY <1>0, <1>2, <1>6, <2>2 DEF WorkerSend, TypeOK, Handler
  <2>4. WorkerInOrder(r)'
    BY <1>2, <1>3, <2>1, <2>2, <2>3 DEF WorkerInOrder, HoldsRow
  <2>5. SentInOrder(r)'
    BY <1>0, <1>2, <1>3, <2>1, <2>2, <2>3
    DEF InOrder, SentInOrder, Recorded
  <2>6. QED
    BY <1>2, <1>4, <2>1, <2>4, <2>5 DEF InOrder
<1>7. CASE WorkerCommit(r)
  <2> DEFINE new == NewRow(worker[r])
  <2>1. UNCHANGED <<job, lost>> /\ worker[r].pc = "commit"
    BY <1>7 DEF WorkerCommit
  <2>2. worker[r].obj = row[r] /\ IsOpen(row[r])
    BY <1>1, <2>1 DEF InOrder, WorkerInOrder, HoldsRow
  <2>3. row'[r] = new
    BY <1>0, <1>7, <2>2, UndisturbedCommit DEF WorkerCommit, TypeOK
  <2>4. /\ RowInOrder(new)
        /\ new.status = "pending_ack" =>
             ~Exhausted(row[r]) /\ new.attempts = Recorded(row[r]) + 1
    BY <1>0, <1>2, <2>2, FiredRow
  <2>5. sent'[r] = IF new.status = "pending_ack" THEN sent[r] ELSE 0
    BY <1>7 DEF WorkerCommit, TypeOK
  <2>6. worker'[r].pc = "refresh" /\ worker'[r].op = "fire"
    BY <1>0, <1>2, <1>7 DEF WorkerCommit, TypeOK, Handler
  <2> HIDE DEF new
  <2>7. WorkerInOrder(r)' /\ JobInOrder(r)'
    BY <1>2, <1>3, <2>1, <2>6 DEF WorkerInOrder, JobInOrder, HoldsRow
  <2>8. SentInOrder(r)'
    <3>1. CASE new.status = "pending_ack"
      <4>1. Recorded(row'[r]) = Recorded(row[r]) + 1
        BY <2>3, <2>4, <3>1 DEF Recorded
      <4>2. Recorded(row[r]) \in Nat
        BY <1>0 DEF Recorded
      <4>3. sent[r] > Recorded(row[r])
            /\ sent[r] <= Recorded(row[r]) + crashes + 1
        BY <1>0, <2>1, <2>4, <3>1, <4>2 DEF InOrder, SentInOrder
      <4>4. row'[r].attempts = Recorded(row[r]) + 1
        BY <2>3, <2>4, <3>1
      <4>5. sent'[r] = sent[r] /\ worker'[r].pc # "commit"
        BY <2>5, <2>6, <3>1
      <4>6. QED
        BY <1>0, <1>3, <4>1, <4>2, <4>3, <4>4, <4>5 DEF SentInOrder
    <3>2. CASE new.status # "pending_ack"
      BY <1>0, <1>3, <2>3, <2>5, <2>6, <3>2 DEF SentInOrder, Recorded
    <3>3. QED
      BY <3>1, <3>2
  <2>9. QED
    BY <1>4, <2>3, <2>4, <2>7, <2>8 DEF InOrder
<1>8. CASE WorkerRefresh(r)
  <2>1. UNCHANGED <<row, job, lost, sent>> /\ worker[r].pc = "refresh"
    BY <1>8 DEF WorkerRefresh, noteVars
  <2>2. /\ worker'[r].pc = "schedule" /\ worker'[r].obj = row[r]
        /\ worker'[r].op = "fire"
    BY <1>0, <1>2, <1>8 DEF WorkerRefresh, TypeOK, Handler
  <2>3. WorkerInOrder(r)' /\ JobInOrder(r)'
    BY <1>2, <1>3, <2>1, <2>2 DEF WorkerInOrder, JobInOrder, HoldsRow
  <2>4. SentInOrder(r)'
    BY <1>2, <1>3, <2>1, <2>2 DEF InOrder, SentInOrder
  <2>5. QED
    BY <1>2, <1>4, <2>1, <2>3, <2>4 DEF InOrder
<1>9. CASE WorkerSchedule(r)
  <2>1. /\ UNCHANGED <<row, sent>> /\ worker'[r] = Idle
        /\ worker[r].pc = "schedule"
    BY <1>9 DEF WorkerSchedule, TypeOK
  <2>2. worker[r].obj = row[r]
    BY <1>1, <2>1 DEF InOrder, WorkerInOrder
  <2>3. job'[r] = row[r].next /\ r \notin lost'
    BY <1>2, <1>9, <2>2 DEF WorkerSchedule, ScheduleReminder, TypeOK
  <2>4. WorkerInOrder(r)' /\ JobInOrder(r)'
    BY <1>2, <1>3, <2>1, <2>3
    DEF WorkerInOrder, JobInOrder, RowInOrder, Busy, Idle
  <2>5. SentInOrder(r)'
    BY <1>2, <1>3, <2>1, <2>3 DEF InOrder, SentInOrder, Idle
  <2>6. QED
    BY <1>2, <1>4, <2>1, <2>4, <2>5 DEF InOrder
<1>10. CASE WorkerFails(r)
  <2>1. /\ UNCHANGED <<row, job, sent>> /\ worker'[r] = Idle
        /\ lost' = lost \cup {r}
    BY <1>2, <1>10 DEF WorkerFails, TypeOK
  <2>2. WorkerInOrder(r)' /\ JobInOrder(r)'
    BY <1>2, <1>3, <2>1 DEF WorkerInOrder, JobInOrder, Busy, Idle
  <2>3. SentInOrder(r)'
    BY <1>2, <1>3, <2>1 DEF InOrder, SentInOrder, Idle
  <2>4. QED
    BY <1>2, <1>4, <2>1, <2>2, <2>3 DEF InOrder
<1>11. QED
  BY <1>5, <1>6, <1>7, <1>8, <1>9, <1>10 DEF WorkerStep
LEMMA UserStaysInOrder ==
    ASSUME TypeOK, NEW r \in Reminders, InOrder(r), r \notin raced',
           UserStep(r)
    PROVE  InOrder(r)'
<1>1. ASSUME NEW op \in {"create", "update", "delete", "ack", "snooze"},
             NEW pc \in {"check", "commit"}, NEW x, NEW request,
             Begin(r, op, pc, x, request),
             pc = "commit" => op = "create" /\ row[r].status = "absent",
             op # "create" => x = row[r]
      PROVE  InOrder(r)'
  <2>1. /\ UNCHANGED <<row, job, worker, now, up, crashes, lost, sent>>
        /\ ~Busy(worker[r]) /\ up
    BY <1>1 DEF Begin, UserActs, NoteRace, TypeOK
  <2>2. bot'[r].pc = pc /\ bot'[r].op = op /\ bot'[r].obj = x
    BY <1>1 DEF Begin, TypeOK
  <2>3. pc = "commit" => job[r] = None
    BY <1>1 DEF InOrder, JobInOrder, IsOpen, OpenStatus
  <2>4. BotInOrder(r)'
    BY <1>1, <2>1, <2>2, <2>3 DEF BotInOrder
  <2>5. WorkerInOrder(r)' /\ JobInOrder(r)' /\ SentInOrder(r)'
    BY <2>1 DEF InOrder, WorkerInOrder, JobInOrder, SentInOrder
  <2>6. QED
    BY <2>1, <2>4, <2>5 DEF InOrder
<1>2. CASE Create(r)
  BY <1>1, <1>2 DEF Create
<1>3. CASE Update(r)
  BY <1>1, <1>3 DEF Update
<1>4. CASE DeleteReminder(r)
  BY <1>1, <1>4 DEF DeleteReminder
<1>5. CASE AckButton(r)
  BY <1>1, <1>5 DEF AckButton
<1>6. CASE SnoozeButton(r)
  BY <1>1, <1>6 DEF SnoozeButton
<1>7. CASE OfferChoice(r)
  BY <1>7
  DEF OfferChoice, noteVars, InOrder, WorkerInOrder, BotInOrder, JobInOrder,
      SentInOrder
<1>8. QED
  BY <1>2, <1>3, <1>4, <1>5, <1>6, <1>7 DEF UserStep

LEMMA BotStaysInOrder ==
    ASSUME TypeOK, NEW r \in Reminders, InOrder(r), r \notin raced',
           BotStep(r) \/ BotFails(r)
    PROVE  InOrder(r)'
<1>0. /\ row[r] \in Row /\ sent[r] \in Nat /\ crashes \in Nat /\ now \in Nat
      /\ bot[r] \in Handler /\ row[r].attempts \in Nat
  BY DEF TypeOK, Row
<1>1. Busy(bot[r])
  BY DEF BotStep, BotCheckJob, BotRemoveJob, BotJobGone, BotCommit, BotRefresh,
         BotSchedule, BotFails, Busy
<1>2. /\ bot[r].op \in {"create", "update", "delete", "ack", "snooze"} /\ up
      /\ ~Busy(worker[r])
  BY <1>1 DEF InOrder, BotInOrder, WorkerInOrder
<1>3. UNCHANGED <<worker, now, up, crashes>>
  BY DEF BotStep, BotCheckJob, BotRemoveJob, BotJobGone, BotCommit, BotRefresh,
         BotSchedule, BotFails, boundVars
<1>4. WorkerInOrder(r)' /\ worker'[r].pc # "commit"
  BY <1>2, <1>3 DEF WorkerInOrder, Busy
<1>5. CASE BotCheckJob(r) \/ BotRemoveJob(r)
  <2>1. UNCHANGED <<row, lost, sent>>
    BY <1>5 DEF BotCheckJob, BotRemoveJob, noteVars
  <2>2. /\ bot'[r].op = bot[r].op /\ bot'[r].obj = bot[r].obj
        /\ bot[r].pc \in {"check", "remove"}
        /\ bot'[r].pc \in {"commit", "remove"}
    BY <1>0, <1>5 DEF BotCheckJob, BotRemoveJob, TypeOK, Handler
  <2>3. job'[r] \in {job[r], None} /\ (bot'[r].pc = "commit" => job'[r] = None)
    BY <1>0, <1>5 DEF BotCheckJob, BotRemoveJob, TypeOK, Handler
  <2>4. BotInOrder(r)'
    BY <1>1, <1>2, <1>3, <2>1, <2>2, <2>3 DEF InOrder, BotInOrder
  <2>5. JobInOrder(r)'
    BY <1>3, <2>1, <2>3 DEF InOrder, JobInOrder
  <2>6. SentInOrder(r)'
    BY <1>3, <2>1 DEF InOrder, SentInOrder
  <2>7. QED
    BY <1>4, <2>1, <2>4, <2>5, <2>6 DEF InOrder
<1>6. CASE BotJobGone(r)
  <2>1. UNCHANGED <<row, job, lost, sent>> /\ ~Busy(bot'[r])
    BY <1>6 DEF BotJobGone, noteVars, TypeOK, Busy, Idle
  <2>2. QED
    BY <1>3, <1>4, <2>1
    DEF InOrder, BotInOrder, JobInOrder, SentInOrder
<1>7. CASE BotCommit(r)
  <2> DEFINE new == NewRow(bot[r])
  <2>1. bot[r].pc = "commit" /\ job[r] = None /\ UNCHANGED job
    BY <1>1, <1>7 DEF BotCommit, InOrder, BotInOrder
  <2>2. row'[r] = new
    <3>1. CASE bot[r].op = "create"
      BY <1>7, <3>1 DEF BotCommit, TypeOK
    <3>2. CASE bot[r].op # "create"
      <4>1. bot[r].obj = row[r]
        BY <1>1, <2>1, <3>2 DEF InOrder, BotInOrder
      <4>2. QED
        BY <1>0, <1>7, <3>2, <4>1, UndisturbedCommit DEF BotCommit, TypeOK
    <3>3. QED
      BY <3>1, <3>2
  <2>3. RowInOrder(new) /\ new.status # "pending_ack"
    BY <1>0, <1>2, BotRow
  <2>4. sent'[r] = 0
    BY <1>7 DEF BotCommit, TypeOK
  <2>5. r \in lost' => r \in lost \/ (bot[r].op = "delete" /\ Schedulable(new))
    BY <1>7, <2>2 DEF BotCommit, TypeOK
  <2>6. bot'[r] = IF bot[r].op = "delete" THEN Idle
                  ELSE [bot[r] EXCEPT !.pc = "refresh"]
    BY <1>7 DEF BotCommit, TypeOK
  <2> HIDE DEF new
  <2>7. BotInOrder(r)'
    BY <1>0, <1>2, <1>3, <2>1, <2>4, <2>6 DEF BotInOrder, Busy, Idle, Handler
  <2>8. JobInOrder(r)'
    BY <1>2, <1>3, <2>1 DEF JobInOrder
  <2>9. SentInOrder(r)'
    BY <1>0, <1>3, <1>4, <2>2, <2>3, <2>4 DEF SentInOrder, Recorded
  <2>10. QED
    BY <1>4, <2>2, <2>3, <2>7, <2>8, <2>9 DEF InOrder
<1>8. CASE BotRefresh(r)
  <2>1. UNCHANGED <<row, job, lost, sent>> /\ bot[r].pc = "refresh"
    BY <1>8 DEF BotRefresh, noteVars
  <2>2. /\ bot'[r].pc = "schedule" /\ bot'[r].obj = row[r]
        /\ bot'[r].op = bot[r].op
    BY <1>0, <1>8 DEF BotRefresh, TypeOK, Handler
  <2>3. job[r] = None /\ sent[r] = 0
    BY <1>1, <2>1 DEF InOrder, BotInOrder
  <2>4. BotInOrder(r)'
    BY <1>2, <1>3, <2>1, <2>2, <2>3 DEF BotInOrder
  <2>5. JobInOrder(r)' /\ SentInOrder(r)'
    BY <1>3, <2>1 DEF InOrder, JobInOrder, SentInOrder
  <2>6. QED
    BY <1>4, <2>1, <2>4, <2>5 DEF InOrder
<1>9. CASE BotSchedule(r)
  <2>1. UNCHANGED <<row, sent>> /\ bot'[r] = Idle /\ bot[r].pc = "schedule"
    BY <1>9 DEF BotSchedule, TypeOK
  <2>2. bot[r].obj = row[r] /\ job[r] = None /\ sent[r] = 0
    BY <1>1, <2>1 DEF InOrder, BotInOrder
  <2>3. /\ job'[r] = row[r].next
        /\ r \in lost' => r \in lost /\ row[r].next = None
    BY <1>9, <2>2 DEF BotSchedule, ScheduleReminder, TypeOK
  <2>4. BotInOrder(r)'
    BY <2>1 DEF BotInOrder, Busy, Idle
  <2>5. JobInOrder(r)'
    BY <1>2, <1>3, <2>1, <2>3 DEF InOrder, RowInOrder, JobInOrder
  <2>6. SentInOrder(r)'
    BY <1>0, <1>3, <1>4, <2>1, <2>2 DEF InOrder, SentInOrder, Recorded
  <2>7. QED
    BY <1>4, <2>1, <2>4, <2>5, <2>6 DEF InOrder
<1>10. CASE BotFails(r)
  <2>1. /\ UNCHANGED <<row, job, sent>> /\ bot'[r] = Idle
        /\ bot[r].pc \in {"commit", "refresh"} /\ lost' \subseteq lost \cup {r}
        /\ lost \subseteq lost'
    BY <1>10 DEF BotFails, TypeOK
  <2>2. job[r] = None
    BY <1>1, <2>1 DEF InOrder, BotInOrder
  <2>3. BotInOrder(r)' /\ JobInOrder(r)'
    BY <1>2, <1>3, <2>1, <2>2 DEF BotInOrder, JobInOrder, Busy, Idle
  <2>4. SentInOrder(r)'
    BY <1>3, <2>1 DEF InOrder, SentInOrder
  <2>5. QED
    BY <1>4, <2>1, <2>3, <2>4 DEF InOrder
<1>11. QED
  BY <1>5, <1>6, <1>7, <1>8, <1>9, <1>10 DEF BotStep

\* A crash forgets jobs and handlers and turns an alert that was not recorded
\* into one of the crashes' account.
LEMMA ProcessKeepsOrder ==
    ASSUME TypeOK, UnracedInOrder, Crash \/ Restart \/ Tick \/ Horizon
    PROVE  UnracedInOrder'
<1> SUFFICES ASSUME NEW r \in Reminders, r \notin raced'
             PROVE  InOrder(r)'
  BY DEF UnracedInOrder
<1>0. /\ row[r] \in Row /\ sent[r] \in Nat /\ crashes \in Nat /\ now \in Nat
      /\ row[r].attempts \in Nat /\ UNCHANGED <<row, raced, sent>>
  BY DEF TypeOK, Row, Crash, Restart, Tick, Horizon, vars, engineVars, noteVars
<1>1. InOrder(r)
  BY <1>0 DEF UnracedInOrder
<1>2. CASE Crash
  <2>1. /\ job'[r] = None /\ worker'[r] = Idle /\ bot'[r] = Idle
        /\ lost' = {} /\ crashes' = crashes + 1
    BY <1>2 DEF Crash
  <2>2. SentInOrder(r)'
    BY <1>0, <1>1, <2>1 DEF InOrder, SentInOrder, Recorded, Idle
  <2>3. QED
    BY <1>0, <1>1, <2>1, <2>2
    DEF InOrder, WorkerInOrder, BotInOrder, JobInOrder, Busy, Idle
<1>3. CASE Restart
  <2>1. /\ UNCHANGED <<worker, bot, crashes, lost>> /\ up'
        /\ job'[r] = IF Schedulable(row[r]) THEN row[r].next ELSE None
        /\ ~up
    BY <1>3 DEF Restart, boundVars, noteVars
  <2>2. ~Busy(worker[r]) /\ ~Busy(bot[r]) /\ r \notin lost
    BY <1>1, <2>1 DEF InOrder, WorkerInOrder, BotInOrder, JobInOrder
  <2>3. QED
    BY <1>0, <1>1, <2>1, <2>2
    DEF InOrder, WorkerInOrder, BotInOrder, JobInOrder, SentInOrder,
        Schedulable
<1>4. CASE Tick
  <2>1. /\ UNCHANGED <<job, worker, bot, up, crashes, lost>>
        /\ now' = now + 1
    BY <1>4 DEF Tick, engineVars, boundVars, noteVars
  <2>2. row[r].next \in Times
    BY <1>0 DEF Row
  <2>3. row[r].next <= now => row[r].next <= now'
    BY <1>0, <2>1, <2>2 DEF Times, None
  <2>4. QED
    BY <1>0, <1>1, <2>1, <2>3
    DEF InOrder, WorkerInOrder, BotInOrder, JobInOrder, SentInOrder
<1>5. CASE Horizon
  BY <1>1, <1>5
  DEF Horizon, vars, engineVars, boundVars, noteVars, InOrder, WorkerInOrder,
      BotInOrder, JobInOrder, SentInOrder
<1>6. QED
  BY <1>2, <1>3, <1>4, <1>5

\* Row, handlers, job store and alerts of a reminder agree in every reachable
\* state, as long as worker and bot have not overlapped on it.
THEOREM UnracedStayInOrder == Spec => []UnracedInOrder
<1>1. Init => UnracedInOrder
  <2> SUFFICES ASSUME Init, NEW r \in Reminders
               PROVE  InOrder(r)
    BY DEF UnracedInOrder
  <2>1. /\ row[r] = NoRow /\ job[r] = None /\ worker[r] = Idle
        /\ bot[r] = Idle /\ lost = {} /\ sent[r] = 0 /\ crashes = 0
    BY DEF Init
  <2>2. QED
    BY <2>1
    DEF InOrder, RowInOrder, WorkerInOrder, BotInOrder, JobInOrder, SentInOrder,
        NoRow, Idle, Busy, IsOpen, OpenStatus, Recorded
<1>2. ASSUME TypeOK, UnracedInOrder, [Next]_vars
      PROVE  UnracedInOrder'
  <2>1. ASSUME NEW r \in Reminders, StepOn(r)
        PROVE  UnracedInOrder'
    <3>1. ASSUME r \notin raced'
          PROVE  InOrder(r)'
      <4>1. InOrder(r)
        BY <1>2, <2>1, <3>1, StepIsLocal DEF UnracedInOrder
      <4>2. QED
        BY <1>2, <2>1, <3>1, <4>1, DispatchInOrder, WorkerStaysInOrder,
           UserStaysInOrder, BotStaysInOrder
        DEF StepOn
    <3>2. QED
      BY <1>2, <2>1, <3>1, OthersInOrder
  <2>2. CASE Crash \/ Restart \/ Tick \/ Horizon
    BY <1>2, <2>2, ProcessKeepsOrder
  <2>3. CASE UNCHANGED vars
    BY <1>2, <2>3
    DEF vars, engineVars, boundVars, noteVars, UnracedInOrder, InOrder,
        WorkerInOrder, BotInOrder, JobInOrder, SentInOrder
  <2>4. QED
    BY <1>2, <2>1, <2>2, <2>3 DEF Next, StepOn
<1>3. QED
  BY <1>1, <1>2, TypeCorrect, PTL DEF Spec

-----------------------------------------------------------------------------
(* What follows for such a reminder.                                       *)

\* Its job runs exactly when its row says (scheduler.py:44, 168).
THEOREM JobsFollowRows == Spec => []JobInStep
<1>1. UnracedInOrder /\ Covered => JobInStep
  BY DEF UnracedInOrder, InOrder, JobInOrder, Covered, JobInStep
<1>2. QED
  BY <1>1, UnracedStayInOrder, NoReminderForgotten, PTL

\* No alert goes out before the time its row asks for (service.py:193).
THEOREM AlertsAreNotEarly == Spec => []NeverEarly
<1>1. UnracedInOrder => NeverEarly
  BY DEF UnracedInOrder, InOrder, WorkerInOrder, NeverEarly, Busy, HoldsRow
<1>2. QED
  BY <1>1, UnracedStayInOrder, PTL

\* Between two user actions it is sent at most its number of attempts, and once
\* more per crash between a send and its commit (scheduler.py:126, 152).
THEOREM AlertsInBudget == Spec => []AlertBudget
<1>1. TypeOK /\ UnracedInOrder => AlertBudget
  <2> SUFFICES ASSUME TypeOK, UnracedInOrder, NEW r \in Reminders \ raced
               PROVE  sent[r] <= (IF row[r].ack THEN MaxAttempts ELSE 1) + crashes
    BY DEF AlertBudget
  <2>1. /\ row[r] \in Row /\ row[r].attempts \in Nat /\ sent[r] \in Nat
        /\ crashes \in Nat /\ MaxAttempts \in Nat \ {0}
    BY EngineAssumption DEF TypeOK, Row
  <2>2. RowInOrder(row[r]) /\ SentInOrder(r)
    BY DEF UnracedInOrder, InOrder
  <2>3. QED
    BY <2>1, <2>2
    DEF RowInOrder, SentInOrder, Recorded, Exhausted, IsOpen, OpenStatus
<1>2. QED
  BY <1>1, TypeCorrect, UnracedStayInOrder, PTL

\* A wake-up is given up only after all its attempts of this very cycle
\* (scheduler.py:152), across crashes and failed sends.
THEOREM MissedOnlyWhenExhausted == Spec => []MissedAfterAllAttempts
<1>1. TypeOK /\ UnracedInOrder => MissedAfterAllAttempts
  <2> SUFFICES ASSUME TypeOK, UnracedInOrder, NEW r \in Reminders \ raced,
                      worker[r].pc = "commit", Exhausted(worker[r].obj)
               PROVE  sent[r] >= MaxAttempts
    BY DEF MissedAfterAllAttempts
  <2>1. row[r].attempts \in Nat /\ sent[r] \in Nat /\ MaxAttempts \in Nat
    BY EngineAssumption DEF TypeOK, Row
  <2>2. worker[r].obj = row[r]
    BY DEF UnracedInOrder, InOrder, WorkerInOrder, Busy, HoldsRow
  <2>3. row[r].status = "pending_ack" => sent[r] >= row[r].attempts
    BY DEF UnracedInOrder, InOrder, SentInOrder
  <2>4. QED
    BY <2>1, <2>2, <2>3 DEF Exhausted
<1>2. QED
  BY <1>1, TypeCorrect, UnracedStayInOrder, PTL
=============================================================================
