--------------------------- MODULE ReminderEngine ---------------------------
(***************************************************************************)
(* The life of reminders between three parties that share one SQLite table *)
(* and one in-memory job store:                                            *)
(*   - the APScheduler job store: one DateTrigger job per reminder,        *)
(*   - a worker thread per due job (_execute_due_reminder), whose session  *)
(*     keeps the row it read while it waits for Telegram,                  *)
(*   - the bot thread, which runs one update handler at a time.            *)
(* No lock covers a handler.  A handler is therefore a sequence of steps:  *)
(* read the row, change the job store, commit, refresh, schedule.          *)
(***************************************************************************)
EXTENDS Integers, FiniteSets

CONSTANTS
    Reminders,      \* primary keys the table may hand out
    MaxAttempts,    \* max_attempts of a wake-up reminder
    RetryInterval,  \* retry_interval_minutes
    SnoozeMinutes,  \* default_snooze_minutes of the user
    Grace,          \* misfire_grace_time of a job, in clock units
    Period,         \* distance between two occurrences of a recurring reminder
    Delays,         \* how far ahead a one-time reminder may be set
    MaxTime,        \* bound: the clock stops here
    MaxOps,         \* bound: user actions
    LastAction,     \* bound: users act no later than this
    MaxFailures,    \* bound: exceptions inside a handler
    MaxCrashes,     \* bound: process crashes
    MaxLag          \* bound: how late a due job or a running handler may get

ASSUME EngineAssumption ==
    /\ MaxAttempts \in Nat \ {0}
    /\ RetryInterval \in Nat \ {0}
    /\ SnoozeMinutes \in Nat \ {0}
    /\ Grace \in Nat
    /\ Period \in Nat \ {0}
    /\ Delays \subseteq Nat \ {0}
    /\ MaxTime \in Nat /\ MaxOps \in Nat /\ LastAction \in Nat
    /\ MaxFailures \in Nat /\ MaxCrashes \in Nat /\ MaxLag \in Nat

VARIABLES
    row,      \* the committed row of each reminder
    job,      \* run date of the reminder's job, None if it has no job
    worker,   \* the scheduler thread executing the reminder's job
    bot,      \* the update handler working on the reminder
    buttons,  \* inline buttons still on the user's screen
    now,      \* wall clock
    up,       \* the process is running
    ops, failures, crashes,   \* how much of each bound is used
    (* What an observer of the run would have noted; no action reads these. *)
    lost,     \* reminders whose job was consumed or removed for nothing
    settled,  \* closed while no worker held an open copy of the row
    raced,    \* a worker and a handler were in flight together at some time
    stale,    \* chosen by an old button after they had closed
    sent      \* alerts sent since the reminder was last (re)armed

engineVars == <<row, job, worker, bot, buttons>>
boundVars == <<ops, failures, crashes>>
noteVars == <<lost, settled, raced, stale, sent>>
vars == <<engineVars, now, up, boundVars, noteVars>>

-----------------------------------------------------------------------------
(* Rows, and the values the code's assignments give them.                  *)

None == -1
Times == Nat \cup {None}

OpenStatus == {"active", "pending_ack"}
ClosedStatus == {"completed", "cancelled", "missed"}
Row == [status : OpenStatus \cup ClosedStatus \cup {"absent"},
        next : Times, attempts : Nat, ack : BOOLEAN, recur : BOOLEAN]

NoRow == [status |-> "absent", next |-> None, attempts |-> 0,
          ack |-> FALSE, recur |-> FALSE]

IsOpen(x) == x.status \in OpenStatus
IsClosed(x) == x.status \in ClosedStatus
Schedulable(x) == IsOpen(x) /\ x.next # None

\* Occurrences are the multiples of Period; the next one is strictly later.
NextOccurrence(t) == (t - (t % Period)) + Period

\* Where a reminder goes when an occurrence is over: to its next occurrence,
\* or to a closed status.
Advance(x, t, closed) ==
    IF x.recur
    THEN [x EXCEPT !.status = "active", !.attempts = 0,
                   !.next = NextOccurrence(t)]
    ELSE [x EXCEPT !.status = closed, !.attempts = 0, !.next = None]

\* Mutant: the attempt is not counted.
AlertUncounted(x, t) ==
    [x EXCEPT !.status = "pending_ack", !.next = t + RetryInterval]
AckAlertSent(x, t) ==
    [x EXCEPT !.status = "pending_ack", !.attempts = @ + 1,
              !.next = t + RetryInterval]
NonAckDelivery(x, t) == Advance(x, t, "completed")
MarkMissed(x, t) == Advance(x, t, "missed")
Acknowledge(x, t) == Advance(x, t, "completed")
\* Mutant: the status is reset, the time is not set.
SnoozeWithoutTime(x, t) == [x EXCEPT !.status = "active", !.attempts = 0]
Snooze(x, t) ==
    [x EXCEPT !.status = "active", !.attempts = 0, !.next = t + SnoozeMinutes]
Delete(x) == [x EXCEPT !.status = "cancelled", !.next = None]

\* A request names a delay, or 0 for a recurring schedule.
Requests == Delays \cup {0}
\* Mutant: the attempts of the old schedule are kept.
RescheduleKeepingAttempts(x, t, request) ==
    [x EXCEPT !.status = "active", !.recur = (request = 0),
              !.next = IF request = 0 THEN NextOccurrence(t) ELSE t + request]
Reschedule(x, t, request) ==
    [x EXCEPT !.status = "active", !.attempts = 0, !.recur = (request = 0),
              !.next = IF request = 0 THEN NextOccurrence(t) ELSE t + request]

\* The unit of work writes a column only if it differs from what the session
\* read.  A freshTime carries the microseconds of a clock reading: it differs
\* from every stored time, whatever this model's coarser clock says.
SqlUpdate(current, seen, new, freshTime) ==
    [status   |-> IF new.status # seen.status THEN new.status
                  ELSE current.status,
     next     |-> IF new.next # seen.next \/ freshTime THEN new.next
                  ELSE current.next,
     attempts |-> IF new.attempts # seen.attempts THEN new.attempts
                  ELSE current.attempts,
     ack      |-> current.ack,
     recur    |-> IF new.recur # seen.recur THEN new.recur ELSE current.recur]

-----------------------------------------------------------------------------
(* Handlers: the thread of a due job, and the bot's update handler.        *)

Phases == {"idle", "started", "send", "check", "remove", "commit", "refresh",
           "schedule"}
Operations == {"none", "fire", "create", "update", "delete", "ack", "snooze"}

Handler == [pc : Phases, op : Operations, obj : Row, at : Nat,
            request : Nat]

Idle == [pc |-> "idle", op |-> "none", obj |-> NoRow, at |-> 0, request |-> 0]

Busy(h) == h.pc # "idle"
BotFree == \A r \in Reminders : ~Busy(bot[r])

\* This session's copy of the row is open and is about to be written back.
HoldsRow(h) == h.pc \in {"send", "commit"}

\* Mutant: one attempt too many.
ExhaustedLate(x) == x.status = "pending_ack" /\ x.attempts > MaxAttempts
Exhausted(x) == x.status = "pending_ack" /\ x.attempts >= MaxAttempts

\* What the handler's assignments make of the row it read.
NewRow(h) ==
    CASE h.op = "fire" /\ Exhausted(h.obj) -> MarkMissed(h.obj, h.at)
      [] h.op = "fire" /\ ~Exhausted(h.obj) ->
            IF h.obj.ack \/ h.obj.status = "pending_ack"
            THEN AckAlertSent(h.obj, h.at) ELSE NonAckDelivery(h.obj, h.at)
      [] h.op \in {"create", "update"} -> Reschedule(h.obj, h.at, h.request)
      [] h.op = "delete" -> Delete(h.obj)
      [] h.op = "ack" -> Acknowledge(h.obj, h.at)
      [] h.op = "snooze" -> Snooze(h.obj, h.at)
      [] OTHER -> h.obj

\* Set from the clock, or replacing a retry time that was.
FreshTime(h, new) ==
    \/ "pending_ack" \in {h.obj.status, new.status}
    \/ h.op = "snooze" \/ h.request # 0

\* What the handler's commit leaves in the row that is there by then.
Committed(r, h) ==
    LET new == NewRow(h) IN SqlUpdate(row[r], h.obj, new, FreshTime(h, new))

\* Mutant: a run date that has passed is not scheduled.
ScheduleFutureOnly(r, t) ==
    /\ job' = IF t = None \/ t <= now THEN job ELSE [job EXCEPT ![r] = t]
    /\ lost' = IF t = None THEN lost ELSE lost \ {r}

\* schedule_reminder: a reminder without a next run leaves the store alone.
ScheduleReminder(r, t) ==
    /\ job' = IF t = None THEN job ELSE [job EXCEPT ![r] = t]
    /\ lost' = IF t = None THEN lost ELSE lost \ {r}

NoteRace(r, other) ==
    raced' = IF Busy(other) THEN raced \cup {r} ELSE raced

NoteStale(r, op, x) ==
    stale' = IF op \in {"update", "delete"} /\ ~IsOpen(x) THEN stale \cup {r}
             ELSE stale

-----------------------------------------------------------------------------
Init ==
    /\ row = [r \in Reminders |-> NoRow]
    /\ job = [r \in Reminders |-> None]
    /\ worker = [r \in Reminders |-> Idle]
    /\ bot = [r \in Reminders |-> Idle]
    /\ buttons = {}
    /\ now = 0
    /\ up = TRUE
    /\ ops = 0 /\ failures = 0 /\ crashes = 0
    /\ lost = {} /\ settled = {} /\ raced = {} /\ stale = {}
    /\ sent = [r \in Reminders |-> 0]

-----------------------------------------------------------------------------
(* The job store.  A due job leaves the store whatever becomes of it.      *)

Due(r) == job[r] # None /\ now >= job[r]

DispatchRun(r) ==
    /\ Due(r)
    /\ now - job[r] <= Grace
    /\ ~Busy(worker[r])
    /\ job' = [job EXCEPT ![r] = None]
    /\ worker' = [worker EXCEPT ![r] =
                    [Idle EXCEPT !.pc = "started", !.op = "fire", !.at = now]]
    /\ NoteRace(r, bot[r])
    /\ UNCHANGED <<row, bot, buttons, now, up, boundVars, lost, settled, stale,
                   sent>>

\* Later than the grace time, or while the job's only instance still runs.
DispatchDrop(r) ==
    /\ Due(r)
    /\ now - job[r] > Grace \/ Busy(worker[r])
    /\ job' = [job EXCEPT ![r] = None]
    /\ lost' = lost \cup {r}
    /\ UNCHANGED <<row, worker, bot, buttons, now, up, boundVars, settled,
                   raced, stale, sent>>

-----------------------------------------------------------------------------
(* _execute_due_reminder, one thread per reminder.                         *)

\* Mutant: the thread does not look whether the reminder is still open.
WorkerLoadUnchecked(r) ==
    /\ worker[r].pc = "started"
    /\ worker' = [worker EXCEPT
            ![r].pc = IF Exhausted(row[r]) THEN "commit" ELSE "send",
            ![r].obj = row[r], ![r].at = now]
    /\ UNCHANGED <<row, job, bot, buttons, now, up, boundVars, noteVars>>

WorkerLoad(r) ==
    LET x == row[r] IN
    /\ worker[r].pc = "started"
    /\ worker' = [worker EXCEPT ![r] =
            IF ~IsOpen(x) THEN Idle
            ELSE [@ EXCEPT !.pc = IF Exhausted(x) THEN "commit" ELSE "send",
                           !.obj = x, !.at = now]]
    /\ UNCHANGED <<row, job, bot, buttons, now, up, boundVars, noteVars>>

WorkerSend(r) ==
    /\ worker[r].pc = "send"
    /\ worker' = [worker EXCEPT ![r].pc = "commit"]
    /\ buttons' = IF worker[r].obj.ack THEN buttons \cup {<<r, "alert">>}
                  ELSE buttons
    /\ sent' = [sent EXCEPT ![r] = @ + 1]
    /\ UNCHANGED <<row, job, bot, now, up, boundVars, lost, settled, raced,
                   stale>>

WorkerCommit(r) ==
    LET merged == Committed(r, worker[r]) IN
    /\ worker[r].pc = "commit"
    /\ row' = [row EXCEPT ![r] = merged]
    /\ worker' = [worker EXCEPT ![r].pc = "refresh"]
    /\ settled' = IF IsClosed(merged) THEN settled \cup {r} ELSE settled
    /\ sent' = [sent EXCEPT ![r] = IF NewRow(worker[r]).status = "pending_ack"
                                   THEN @ ELSE 0]
    /\ UNCHANGED <<job, bot, buttons, now, up, boundVars, lost, raced, stale>>

\* Mutant: what the thread read before its commit is scheduled.
WorkerNoRefresh(r) ==
    /\ worker[r].pc = "refresh"
    /\ worker' = [worker EXCEPT ![r].pc = "schedule"]
    /\ UNCHANGED <<row, job, bot, buttons, now, up, boundVars, noteVars>>

WorkerRefresh(r) ==
    /\ worker[r].pc = "refresh"
    /\ worker' = [worker EXCEPT ![r].pc = "schedule", ![r].obj = row[r]]
    /\ UNCHANGED <<row, job, bot, buttons, now, up, boundVars, noteVars>>

WorkerSchedule(r) ==
    /\ worker[r].pc = "schedule"
    /\ ScheduleReminder(r, worker[r].obj.next)
    /\ worker' = [worker EXCEPT ![r] = Idle]
    /\ UNCHANGED <<row, bot, buttons, now, up, boundVars, settled, raced, stale,
                   sent>>

\* The blanket except: Telegram or the database failed, the thread ends and
\* nothing is scheduled again.
WorkerFails(r) ==
    /\ worker[r].pc \in {"send", "commit", "refresh"}
    /\ failures < MaxFailures
    /\ failures' = failures + 1
    /\ worker' = [worker EXCEPT ![r] = Idle]
    /\ lost' = IF job[r] = None THEN lost \cup {r} ELSE lost
    /\ UNCHANGED <<row, job, bot, buttons, now, up, ops, crashes, settled,
                   raced, stale, sent>>

-----------------------------------------------------------------------------
(* The bot thread.  A handler reads the row first, often seconds before it *)
(* writes it back: the interpreter's model call lies in between.           *)

UserActs ==
    /\ up /\ BotFree
    /\ ops < MaxOps /\ now <= LastAction
    /\ ops' = ops + 1

Begin(r, op, pc, obj, request) ==
    /\ UserActs
    /\ bot' = [bot EXCEPT ![r] =
            [pc |-> pc, op |-> op, obj |-> obj, at |-> now,
             request |-> request]]
    /\ NoteRace(r, worker[r]) /\ NoteStale(r, op, obj)
    /\ UNCHANGED <<row, job, worker, buttons, now, up, failures, crashes,
                   lost, settled, sent>>

\* Primary keys are handed out once.
Create(r) ==
    /\ row[r].status = "absent"
    /\ \E request \in Requests, ack \in BOOLEAN :
         Begin(r, "create", "commit", [NoRow EXCEPT !.ack = ack], request)

\* A message or /delete resolves its target among the open reminders; a
\* resolution button names it, and nobody checks again that it is open.
MayTarget(r, op) == IsOpen(row[r]) \/ <<r, op>> \in buttons

Update(r) ==
    /\ MayTarget(r, "update")
    /\ \E request \in Requests : Begin(r, "update", "check", row[r], request)

DeleteReminder(r) ==
    /\ MayTarget(r, "delete")
    /\ Begin(r, "delete", "check", row[r], 0)

AckButton(r) ==
    /\ <<r, "alert">> \in buttons
    /\ row[r].status = "pending_ack"
    /\ Begin(r, "ack", "check", row[r], 0)

SnoozeButton(r) ==
    /\ <<r, "alert">> \in buttons
    /\ Begin(r, "snooze", "check", row[r], 0)

\* An ambiguous target: the reply carries one button per candidate.
OfferChoice(r) ==
    /\ UserActs
    /\ IsOpen(row[r])
    /\ \E op \in {"update", "delete"} : buttons' = buttons \cup {<<r, op>>}
    /\ UNCHANGED <<row, job, worker, bot, now, up, failures, crashes, noteVars>>

\* remove_reminder_job asks for the job before it removes it.
BotCheckJob(r) ==
    /\ bot[r].pc = "check"
    /\ bot' = [bot EXCEPT
                 ![r].pc = IF job[r] = None THEN "commit" ELSE "remove",
                 ![r].at = now]
    /\ UNCHANGED <<row, job, worker, buttons, now, up, boundVars, noteVars>>

\* ack and snooze read the clock after the job is gone, an update before.
BotRemoveJob(r) ==
    /\ bot[r].pc = "remove"
    /\ job[r] # None
    /\ job' = [job EXCEPT ![r] = None]
    /\ bot' = [bot EXCEPT ![r].pc = "commit",
                          ![r].at = IF bot[r].op = "update" THEN @ ELSE now]
    /\ UNCHANGED <<row, worker, buttons, now, up, boundVars, noteVars>>

\* The job came due in between: JobLookupError ends the handler.
BotJobGone(r) ==
    /\ bot[r].pc = "remove"
    /\ job[r] = None
    /\ bot' = [bot EXCEPT ![r] = Idle]
    /\ UNCHANGED <<row, job, worker, buttons, now, up, boundVars, noteVars>>

\* A delete button pressed on a reminder that a worker has reopened meanwhile
\* writes nothing: cancelled was read and cancelled is set.
BotCommit(r) ==
    LET merged == IF bot[r].op = "create" THEN NewRow(bot[r])
                  ELSE Committed(r, bot[r]) IN
    /\ bot[r].pc = "commit"
    /\ row' = [row EXCEPT ![r] = merged]
    /\ bot' = [bot EXCEPT ![r] = IF @.op = "delete" THEN Idle
                                 ELSE [@ EXCEPT !.pc = "refresh"]]
    /\ settled' = IF IsClosed(merged) /\ ~HoldsRow(worker[r])
                  THEN settled \cup {r} ELSE settled \ {r}
    /\ lost' = IF bot[r].op = "delete" /\ Schedulable(merged) /\ job[r] = None
               THEN lost \cup {r} ELSE lost
    /\ sent' = [sent EXCEPT ![r] = 0]
    /\ UNCHANGED <<job, worker, buttons, now, up, boundVars, raced, stale>>

\* Mutant: what the handler read before its commit is scheduled.
BotNoRefresh(r) ==
    /\ bot[r].pc = "refresh"
    /\ bot' = [bot EXCEPT ![r].pc = "schedule"]
    /\ UNCHANGED <<row, job, worker, buttons, now, up, boundVars, noteVars>>

BotRefresh(r) ==
    /\ bot[r].pc = "refresh"
    /\ bot' = [bot EXCEPT ![r].pc = "schedule", ![r].obj = row[r]]
    /\ UNCHANGED <<row, job, worker, buttons, now, up, boundVars, noteVars>>

BotSchedule(r) ==
    /\ bot[r].pc = "schedule"
    /\ ScheduleReminder(r, bot[r].obj.next)
    /\ bot' = [bot EXCEPT ![r] = Idle]
    /\ UNCHANGED <<row, worker, buttons, now, up, boundVars, settled, raced,
                   stale, sent>>

\* The database refuses a commit or a read: the handler answers with an
\* apology, and a job it removed stays removed.
BotFails(r) ==
    /\ bot[r].pc \in {"commit", "refresh"}
    /\ failures < MaxFailures
    /\ failures' = failures + 1
    /\ bot' = [bot EXCEPT ![r] = Idle]
    /\ lost' = IF job[r] = None THEN lost \cup {r} ELSE lost
    /\ UNCHANGED <<row, job, worker, buttons, now, up, ops, crashes, settled,
                   raced, stale, sent>>

-----------------------------------------------------------------------------
(* The process and the clock.                                              *)

Crash ==
    /\ up
    /\ crashes < MaxCrashes
    /\ crashes' = crashes + 1
    /\ up' = FALSE
    /\ job' = [r \in Reminders |-> None]
    /\ worker' = [r \in Reminders |-> Idle]
    /\ bot' = [r \in Reminders |-> Idle]
    /\ lost' = {}
    /\ UNCHANGED <<row, buttons, now, ops, failures, settled, raced, stale, sent>>

\* Mutant: reminders waiting for acknowledgement are not restored.
RestartActiveOnly ==
    /\ ~up
    /\ up' = TRUE
    /\ job' = [r \in Reminders |->
                 IF row[r].status = "active" THEN row[r].next ELSE None]
    /\ UNCHANGED <<row, worker, bot, buttons, now, boundVars, noteVars>>

\* restore_pending_jobs runs before polling starts, and a row's own job is
\* the only one that could change it meanwhile.
Restart ==
    /\ ~up
    /\ up' = TRUE
    /\ job' = [r \in Reminders |->
                 IF Schedulable(row[r]) THEN row[r].next ELSE None]
    /\ UNCHANGED <<row, worker, bot, buttons, now, boundVars, noteVars>>

Prompt(h) == Busy(h) => now < h.at + MaxLag

Tick ==
    /\ now < MaxTime
    /\ \A r \in Reminders :
         /\ job[r] # None => now < job[r] + MaxLag
         /\ Prompt(worker[r]) /\ Prompt(bot[r])
    /\ now' = now + 1
    /\ UNCHANGED <<engineVars, up, boundVars, noteVars>>

\* Nothing beyond MaxTime is modelled.
Horizon == now = MaxTime /\ UNCHANGED vars

-----------------------------------------------------------------------------
Dispatch(r) == DispatchRun(r) \/ DispatchDrop(r)

WorkerStep(r) ==
    \/ WorkerLoad(r) \/ WorkerSend(r) \/ WorkerCommit(r)
    \/ WorkerRefresh(r) \/ WorkerSchedule(r)

BotStep(r) ==
    \/ BotCheckJob(r) \/ BotRemoveJob(r) \/ BotJobGone(r)
    \/ BotCommit(r) \/ BotRefresh(r) \/ BotSchedule(r)

UserStep(r) ==
    \/ Create(r) \/ Update(r) \/ DeleteReminder(r)
    \/ AckButton(r) \/ SnoozeButton(r) \/ OfferChoice(r)

Next ==
    \/ \E r \in Reminders :
         \/ Dispatch(r) \/ WorkerStep(r) \/ WorkerFails(r)
         \/ UserStep(r) \/ BotStep(r) \/ BotFails(r)
    \/ Crash \/ Restart \/ Tick \/ Horizon

Spec == Init /\ [][Next]_vars

\* The scheduler thread, its workers, the handler that is running and the
\* service manager that restarts the process all make progress; users and
\* failures owe nothing.
Fairness ==
    /\ \A r \in Reminders :
         WF_vars(Dispatch(r)) /\ WF_vars(WorkerStep(r)) /\ WF_vars(BotStep(r))
    /\ WF_vars(Restart) /\ WF_vars(Tick)

FairSpec == Spec /\ Fairness

-----------------------------------------------------------------------------
(* Properties.                                                             *)

\* Every variable keeps its shape.
TypeOK ==
    /\ row \in [Reminders -> Row]
    /\ job \in [Reminders -> Times]
    /\ worker \in [Reminders -> Handler]
    /\ bot \in [Reminders -> Handler]
    /\ buttons \subseteq Reminders \X {"alert", "update", "delete"}
    /\ now \in Nat /\ up \in BOOLEAN
    /\ ops \in Nat /\ failures \in Nat /\ crashes \in Nat
    /\ lost \subseteq Reminders
    /\ settled \subseteq Reminders
    /\ raced \subseteq Reminders
    /\ stale \subseteq Reminders
    /\ sent \in [Reminders -> Nat]

Quiet(r) == up /\ ~Busy(worker[r]) /\ ~Busy(bot[r])

\* An open reminder that no handler is working on has a job, whatever the
\* order in which worker and bot read, wrote and scheduled it, unless its job
\* was dropped late or its handler failed (lost).
Covered ==
    \A r \in Reminders :
        Quiet(r) /\ Schedulable(row[r]) /\ r \notin lost => job[r] # None

\* A handler in this phase leaves the reminder a job, closed, or among the
\* lost; one that read a row without a next run will not.
Rearming(h) ==
    \/ h.pc \in {"started", "send", "commit", "refresh"}
    \/ h.pc = "schedule" /\ h.obj.next # None

\* Why Covered holds: whenever an open reminder is without a job, some handler
\* in flight will give it one.  This is the invariant that is inductive.
JobOrRearming ==
    \A r \in Reminders :
        up /\ Schedulable(row[r]) /\ r \notin lost /\ job[r] = None
        => Rearming(worker[r]) \/ Rearming(bot[r])

\* As long as worker and bot have not overlapped on a reminder, its job runs
\* exactly when its row says.
JobInStep ==
    \A r \in Reminders :
        Quiet(r) /\ Schedulable(row[r]) /\ r \notin lost \cup raced
        => job[r] = row[r].next

\* A reminder closed while no worker held an open copy of its row stays closed
\* and sends nothing, through stale jobs and restarts, until the user presses
\* an old button.
SettledStaysClosed ==
    \A r \in settled : IsClosed(row[r]) /\ ~HoldsRow(worker[r])

\* An open reminder always has a next run: no merge of two handlers' columns
\* leaves one that even a restart would not schedule.  Excepted are reminders
\* an old choice button was pressed for after they had closed: a delete that
\* read a cancelled row with a time of its own erases the time alone.
OpenHasTime ==
    \A r \in Reminders \ stale : IsOpen(row[r]) => row[r].next # None

\* Between two user actions a wake-up is sent at most MaxAttempts times and a
\* plain reminder once, plus one alert per crash that came between sending
\* and recording.
AlertBudget ==
    \A r \in Reminders \ raced :
        sent[r] <= (IF row[r].ack THEN MaxAttempts ELSE 1) + crashes

\* No alert goes out before the time its row asks for.
NeverEarly ==
    \A r \in Reminders \ raced :
        worker[r].pc = "send" => worker[r].obj.next <= now

\* A wake-up is given up only after MaxAttempts alerts of this very cycle,
\* across crashes and failed sends.
MissedAfterAllAttempts ==
    \A r \in Reminders \ raced :
        worker[r].pc = "commit" /\ Exhausted(worker[r].obj)
        => sent[r] >= MaxAttempts

\* Every one-time reminder comes to an end: it is delivered, acknowledged,
\* cancelled or given up, or its job is among the lost ones.
OneTimeEnds ==
    \A r \in Reminders :
        IsOpen(row[r]) /\ ~row[r].recur
        ~> IsClosed(row[r]) \/ row[r].recur \/ r \in lost

\* A reminder that is due is served, recurring or not: it moves to a later
\* time or closes, or its job is among the lost ones.
DueIsServed ==
    \A r \in Reminders :
        Schedulable(row[r]) /\ row[r].next <= now
        ~> ~Schedulable(row[r]) \/ row[r].next > now \/ r \in lost
=============================================================================
