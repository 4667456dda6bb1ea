# Telegram reminder: models and proofs

TLA+ models of the reminder bot under `src/app`, the TLC runs that check them on
small instances, and TLAPS proofs of the theorems that hold for every value of the
constants. Line numbers refer to `src/`.

| module | what it is |
| --- | --- |
| `ReminderEngine` | rows, jobs, worker threads and bot handlers of reminders |
| `MCReminderEngine` | its instances for TLC, and a claim of the repository's texts |
| `ReminderEngineProofs` | no reminder forgotten or without a time, closed for good; without a race, alerts on time and in number |
| `Conversation` | one chat's pending state: proposals, plans, confirmations |
| `ProposalLife` | what the conversation promises about a proposal |
| `MCConversation` | its instances for TLC, and a claim of the bot's replies |
| `ConversationProofs` | at most once, one reminder at its moment, plan kept, refusal final |
| `ConversationImplements` | `Conversation` implements `ProposalLife` |
| `DailyAgenda` | preference row, cron job, worker and misses of one chat's agenda |
| `DailyAgendaProofs` | type correctness, job follows the row, told once, marked by an agenda |
| `Recurrence`, `MCRecurrence` | next occurrence and bounds of today over a local clock that is set |
| `RecurrenceProofs` | there always is a next occurrence: later, on its day, the nearest, once a day, on the list of its day |
| `ExecutionGuard` | operators: the tables of presses and texts seen lately |
| `Polling` | the loop around `run_polling`: start, errors, waits, end and restart of the process |
| `DeadlineChain` | rows and jobs of a chain of reminders before one deadline |
| `Delivery`, `MCDelivery` | the three composed: from Telegram through the queue in memory to the work and back; a claim about retries |
| `DeliveryProofs` | presses once, refusals honest, chains whole and with their jobs |
| `Judgement` | operators: what confidence, tags and wording decide about a reading |
| `Learning`, `MCLearning` | what is learned from requests, refusals and consents, and its effect; a claim about confidence |
| `LearningProofs` | refusals heeded, trust moves the right way, the usual hour in range |
| `FollowUp`, `MCFollowUp` | a draft over several messages: questions, answers, corrections |
| `FollowUpProofs` | complete before it is proposed, about what was asked for, answers taken |

## 1. The system

One process. `main.py` builds the parts, restores the jobs, starts the scheduler and
then polls Telegram. Two kinds of thread touch a reminder: the **bot thread**, which
runs one update handler at a time, and APScheduler's **worker threads**, one per due
job. They share a SQLite database (a row per reminder, a row per chat for the pending
conversation) and the in-memory job store. Nothing locks a handler: each one is a
sequence of read, change the job store, commit, refresh, schedule, with seconds of
waiting for Telegram or for a language model in between.

| component | state | operations | correct when |
| --- | --- | --- | --- |
| Reminder engine (`service.py`, `scheduler.py`, `telegram_bot.py`, `tools/`) | `Reminder` rows, job store, sessions of the handlers in flight | create, update, delete, acknowledge, snooze, resolution button; due job; restore | an open reminder has a job that runs at its time; a closed one is silent; a wake-up repeats up to its limit and no more |
| Conversation (`services/interpretation_service.py`, `phase9_1`, `phase9`, `phase9_3`) | `ConversationState` row of the chat, keyboards on the screen | text, button, screenshot | only what was proposed and confirmed is done, once; a refusal is final; an unfinished plan is not lost; a repeated wish makes no second reminder beside the first |
| Recurrence (`recurrence.py`, `assistant_features.py`) | none | next occurrence in local time | strictly later, on a right day, one per period across clock changes |
| Execution guard (`phase9_4`) | callbacks and texts seen lately, in memory | mark, remember, skip | suppresses repeats and nothing else |
| Daily agenda and preferences | preference rows, one cron job per user | schedule, send, report the missed | each missed reminder is reported once; the job follows the preference |
| Deadline chains (`tools/deadline_chain.py`, `service.py:64`) | several reminders of one deadline | create the chain | all or none, each with its job |
| Learning and memory (`learning/`, `phase8/`) | scores per wording, examples, rewritten times, profiles of tasks | record, apply | a refused wording is asked about; trust moves with what users answer |
| Polling, runtime state, health (`main.py`, `runtime.py`) | attempt counters, updates fetched and queued, status fields | start, wait, retry, report | what users send is heard, whatever ends in between |
| Interpreter, parser, checker, evaluator (`ai/`, `phase7/`) | none | text to request | pure functions of text |
| Rule-based interpreter (`agent.py`) | none; the draft is in the conversation's row | read a request, continue a draft | what is asked for is asked, an answer fills its slot, the wish is kept |
| Screenshot import (`phase10_1`) | none | image to items | pure |
| Admin CLI, logging, telemetry, configuration | none | input and output | not a matter of behaviour over time |

How they interact. A text or button reaches the conversation, which may answer, save a
proposal in the chat's row, or carry an action out; carrying out calls a tool, the tool
calls the service (the row) and the scheduler (the job). A due job runs a worker, which
sends the alert with Ack and Snooze buttons, changes the row and schedules the next
run. Pressing such a button goes back to the engine. The two halves are modelled
separately: `Conversation` knows of the engine only how many reminders are open at
the moment of a wish and that they move and end, `ReminderEngine` knows of the conversation only that a user action
arrives. Three modules look closer at a part of the way: `Delivery` at the updates
before they reach a handler and at the answers after it, `FollowUp` at what the draft in
the conversation's row holds, `Learning` at what past requests do to a new one.

Where it is hard:

- **Stale copies.** A worker reads the row, waits for Telegram, then commits. A handler
  may change the row meanwhile. The session factory has `expire_on_commit=False,
  autoflush=False` (`db.py:23`), and the unit of work writes only columns that differ
  from what the session read: the two commits merge *column by column*.
- **Last schedule wins.** Both sides schedule the same job id after their commits.
- **Check, then remove.** `remove_reminder_job` looks the job up first; it may come due
  before it is removed.
- **A chain of runs.** Retry, giving up and recurrence each depend on the previous run
  having scheduled the next one.
- **Several commits per handler**, and an apology that speaks for all of them.
- **One row for four kinds of pending state**, overwritten without a look.
- **Keyboards that outlive their proposal**, and whose data does not name it.
- **Redelivery** after a crash: `drop_pending_updates=False`, the guard is in memory, and
  so is the queue of what was fetched.
- **A test for duplicates that looks at the next run**, which moves, and at a key that is
  built from one field and looked up with another.

## 2. ReminderEngine

State and code:

| variable | code |
| --- | --- |
| `row[r]` | the committed `Reminder` row: status, `next_run_at_utc`, `ack_attempts`, `requires_ack`, whether it recurs (`models.py:35`) |
| `job[r]` | run date of job `reminder-<id>` in APScheduler's memory store |
| `worker[r]` | `_execute_due_reminder` (`scheduler.py:106`): `started`, `send`, `commit`, `refresh`, `schedule`; `obj` is its session's copy of the row |
| `bot[r]` | the handler on the bot thread: `check`, `remove`, `commit`, `refresh`, `schedule` |
| `buttons` | inline buttons on the user's screen |
| `now`, `up` | clock, process |
| `lost`, `settled`, `raced`, `stale`, `sent` | notes of an observer; no guard reads them |

One action per step between two points where another thread can get in.
`DispatchRun`/`DispatchDrop` are the job store (a job later than its
`misfire_grace_time`, or whose instance still runs, is dropped); `Worker*` the due job;
`Create`, `Update`, `DeleteReminder`, `AckButton`, `SnoozeButton`, `OfferChoice` begin a
handler, `Bot*` carry it on; `WorkerFails` and `BotFails` are the blanket `except`s;
`Crash` empties the job store and `Restart` is `restore_pending_jobs`. `SqlUpdate` is
the column-wise merge, with `FreshTime` for a column that gets a clock reading: with
microseconds it always differs from what is stored, which the coarse model clock would
not show.

Simplifications: `max_attempts` and the retry interval are constants, not columns; the
buttons are a set, since clearing the markup may fail; `Period` stands for the
recurrence; a user action names its target, how a text finds it is not modelled.

What the notes exclude, and why:

- `lost`: reminders whose job was *consumed or removed for nothing*: dropped as late,
  or taken by a handler that then failed. The code has no way back short of a restart.
  The properties say that nothing else loses a job. A delete button pressed on a
  reminder that a worker has reopened meanwhile is in there as well: the session read
  `cancelled` and sets `cancelled`, so nothing is written.
- `raced`: worker and bot were in flight together. Then the later schedule call wins,
  the row may merge into `active` with attempts counted, and `JobInStep`,
  `AlertBudget`, `NeverEarly` and `MissedAfterAllAttempts` cannot hold: they are stated
  for the reminders that never raced. `Covered`, `OpenHasTime`, `JobOrRearming` and
  `SettledStaysClosed` hold in the races too.
- `stale`: an old choice button was pressed for a reminder that had closed. Nothing asks
  whether it is still open (`interpretation_service.py:599`), so that a delete may work on
  a cancelled row. `update` leaves a time on it without opening it; a worker that held the
  row from before then reopens it; a delete that read it cancelled meanwhile writes the
  one column that differs, the time, and the reminder is open without one. This takes six
  user actions and some forty steps, beyond the bounds of `recovery`: the attempt to prove
  `OpenHasTime` without the exception led to it, and a larger instance confirms it.

### Runs

| run | asks | instance |
| --- | --- | --- |
| `recovery` | `OpenHasTime`, `SettledStaysClosed`, `JobOrRearming`, `JobInStep`, `NeverEarly`, `AlertBudget`, `MissedAfterAllAttempts`, `OneTimeEnds`, `DueIsServed` | one reminder, three user actions, one failure, one crash, time 0..13, `FairSpec` (1.3 M states) |
| `restart_claim` | "reminders survive restarts" | violated: a job later than 300 s is dropped |

Why these bounds are enough. Reminders do not share state except the bot thread, which
serves one handler at a time, so one reminder shows every race of worker against bot;
the theorems are for any set of reminders. Three actions allow create, a button offered or
a change, and a press that has become stale. `MaxAttempts = 2` gives first, middle and last
attempt. With `Grace` and `MaxLag` 1 a job is on time or late, and after a crash too late.
The safety properties are proved for all lags and numbers of actions, and need no larger run.
The liveness properties need time to go on after the last action: `LastAction = 2`,
`MaxTime = 13` leave room for all retries, a snooze, a crash and the restart. `Horizon`
stutters when the clock has reached `MaxTime`.

A race the properties except, because the code behaves so: a worker that read the row
before `/delete` writes `pending_ack` and a time over the cancelled row, although
`/help` calls the command "cancel a reminder" (`raced`, and `SettledStaysClosed` speaks
of reminders closed while no worker held their row).

### Fairness

Weak fairness of the dispatcher, of each worker and bot handler in flight, of `Restart`
and of `Tick`. The scheduler thread and the handlers are ordinary running threads (one
always-enabled step each, so weak fairness is enough); `deployment/docker/docker-compose.yml:16` restarts
the process (`restart: unless-stopped`); the clock moves. No fairness for users,
failures or crashes. `OneTimeEnds` and `DueIsServed` both exempt `lost` reminders.

### Proofs (`ReminderEngineProofs`)

- `TypeCorrect`: `Spec => []TypeOK`.
- `RearmingInvariant`: `Spec => []JobOrRearming`, the inductive one: an open reminder
  without a job has a handler in flight that will still schedule it. `Covered` alone is
  not inductive, since it says nothing of states with a handler in flight. One lemma per
  group of actions (`DispatchRearms`, `WorkerRearms`, `UserRearms`, `BotRearms`,
  `ProcessRearms`).
- `NoReminderForgotten`: `Spec => []Covered`, a corollary.
- `ClosedForGood`: `Spec => []SettledStaysClosed`. It is inductive together with
  `TypeOK`.
- `OpenRemindersHaveTime`: `Spec => []OpenHasTime`, races included. The strengthening is
  `CopiesAreOpen`: what is about to be written back was open when it was read. A merge
  writes a column when it differs from the handler's copy, so an open copy means that
  closing writes the status along with the time, whatever the row holds by then
  (`NewRowTimes`); what a delete reads after an old button need not be open (`stale`).
- `UnracedStayInOrder`: for a reminder that never raced, `InOrder` ties row, worker, bot,
  job store and alerts together: a copy is the row, a job exists only while no one is
  about to write and runs at the row's time (`JobInOrder`), and the alerts sent are those
  the row knows of, one that is being recorded, and one per crash (`SentInOrder`). None of
  the four properties is inductive: each speaks of two parts of this picture, and every
  step moves a third. From it `JobsFollowRows` (`JobInStep`), `AlertsAreNotEarly`
  (`NeverEarly`), `AlertsInBudget` (`AlertBudget`) and `MissedOnlyWhenExhausted`
  (`MissedAfterAllAttempts`).

The proofs assume only `EngineAssumption`; no bound on reminders, actions, failures,
crashes or time is used.

## 3. Conversation and ProposalLife

State and code:

| variable | code |
| --- | --- |
| `conv` | the chat's `ConversationState` row (`models.py:76`): kind of pending state and, for a confirmation or plan, which proposal it holds |
| `offer` | proposals saved so far, in order (for the observer; the payload of the row) |
| `bot` | the update handler: `interpret`, `carry_out` with the items still to do, `reply`, `sorry` |
| `reminders` | how many open reminders have their next run at the moment of each wish, how many have it elsewhere, how many have ended |
| `screen`, `choosable` | keyboards the user can still press: of proposals, and of changes that ask which reminder is meant |
| `last` | the update Telegram may deliver again |
| `made`, `refused`, `unsought` | notes of an observer |

`TextStep(t, route)` is `handle_user_message` (`interpretation_service.py:192`) up to
the interpreter: one action per branch, each with the negation of the branches before
it (`NoPlanAnswer`, `GoesOn`, `Considers`, `Answers`, `CorrectsAction`), in the code's
order. A text is one of eleven classes the code tells apart (yes, no, stop, list, which,
request, need, multi, chat, repair, retime). `Routes` is the router: the heuristic, and
with `Llm` any answer the model's result may override it with. `AskMore`,
`AskConfirmation`, `Act` are the interpreter's outcomes, a free choice.
`CarryOutItem` (`Create` or `Change`), `SkipItem`, `OfferChoice` and `EndOfPlan` are
`_execute_action` and `_execute_multi_plan_state`; `PressConfirm`, `PressCancel`,
`PressEdit` are `handle_confirmation_choice`, `PressChoice` is `handle_resolution_choice`:
a change that is ambiguous brings a keyboard with the reminders it may mean, if the answer
to a *text* was carried out (a press on Confirm answers with the words only), and each
press on it makes the change to the reminder picked, ended or not. `ImportScreenshot` saves a plan whose proposal has no
keyboard. `HandlerFails`, `Apologise` and `Crash` come between any two commits.

The duplicate test (`Duplicate`) compares a key and, for the same task, the next run with
the time asked for, within 20 minutes (`duplicate_detection_service.py:28`). The key is
stored with `recurrence_type` (`create_reminder.py:62`) and looked up with
`recurrence_text` (`interpretation_service.py:811`), the next run moves with every alert,
snooze, retry and change, and the time asked for is read by another parser than the one
that schedules. So a reminder is known here by its place: at the moment of a wish,
elsewhere, or ended. What is sure to be found is a reminder at the very moment of a wish in
`Exact`: those with one moment that both parsers read alike. Everything else may be found
or not (`SkipItem`, `Create`). `Change`, `ReminderMoves` and a choice may put a reminder at
any place, and none of them looks what is there.

Simplifications: one chat (rows of two chats are independent); a wish stands for an
action with all its fields, the items of `Creates` for as many moments; an idle
thread is merged with no row; clearing a row and saving it again within one step of the
bot thread is one action. The execution guard is left out and any last update may come
again, which allows more behaviours than the code has (`Delivery` has the guard).
Follow-up drafts keep no content (`FollowUp` gives them theirs).

`ProposalLife` is the promise: a proposal goes new, offered, running, closed; at most
one is on offer; a single action uses consent up *before* the work, so that a crash can
cost it but never repeat it; a plan goes the other way, its row stays until its loop has
ended, so that a crash may repeat items but cannot lose the rest. The refinement
mapping reads the phase of a proposal off the row and the handler (`PhaseOf`).

### Runs

| run | asks | instance |
| --- | --- | --- |
| `dialogue` | `OneAtItsMoment`, `AtMostOnce`, `RefusedStaysUndone`, `ImplementsLife` | ten classes of text, router with its model, two proposals, three updates, one exception, one crash, one redelivery (0.99 M states) |
| `no_claim` | "Okay - I cancelled that pending action." | violated: `no` is routed as a confirmation and carried out |

Why these bounds are enough. Two proposals give one to be replaced and its replacement;
three updates and a redelivery allow propose, replace, press the old keyboard, and press
again. The plan makes the same wish twice, so that it has a first item to repeat and a last
one to lose, and overlaps with a single action for that wish. `no` has a run of its own;
but for the reply it goes the ways of `yes` and `stop`. `Done` stutters when the updates
are used up.

`OneAtItsMoment` is about wishes in `Exact` and excepts the moments where something else
has put a reminder (`unsought`): plans do not look for duplicates
(`interpretation_service.py:1057`), so that a plan confirmed again after a
failure makes its first items a second time, although the apology says that "no
duplicate action was taken"; a change, a snooze, a retry or a next occurrence may come to
stand where another reminder is. A wish that recurs, or whose reminder has moved, opens a
second one in the model as in the code. `AtMostOnce` is about single actions, not about the
proposal a button was shown with: a keyboard's data does not name it, and the Confirm
button of a replaced proposal confirms its replacement.

### Proofs (`ConversationProofs`, `ConversationImplements`)

The inductive invariant is `IInv == TypeOK /\ ProposalInv /\ FreshIds /\ RefusedInv`:

- `ProposalInv`: a single action that is held by the row or running has not been made,
  is not both held and running, and has been made at most once; a plan that is running
  is still held. `AtMostOnce` alone is not inductive: it does not say that a proposal
  that is done is no longer held.
- `FreshIds`: an id that is not used yet carries no trace.
- `RefusedInv`: a refused proposal is neither held nor running.

The twenty-odd actions do only six things to proposals, and the proof goes through
them: a step is `Calm` (nothing confirmed, the row kept or dropped), `Agrees`,
`Refuses`, `Proposes`, `Works` (one item) or `Rests`. `TextStepFacts`, `ButtonStepFacts`,
`HandlerStepFacts`, `EnvironmentFacts` classify every action and prove its types;
`EffectKeepsInv` proves the invariant from the effect alone.

- `TypeCorrect`, `ConfirmedAtMostOnce` (`AtMostOnce`), `PlanKeptToItsEnd`
  (`UnfinishedPlanIsKept`): invariants, from `IInv`.
- `OneReminderAtItsMoment` (`OneAtItsMoment`): inductive together with `TypeOK`.
  `RemindersChange` says that only `CarryOutItem` and `ReminderMoves` touch `reminders`;
  of these a creation outside a plan has looked first, and the rest is noted in `unsought`.
- `RefusedForGood` (`RefusedStaysUndone`): an action property, from `IInv` and the
  effect of the step.
- `DialogueImplementsLife`: `Spec => ImplementsLife`. One lemma per effect maps it to a
  step of `ProposalLife` or a stutter; the interesting one is `CalmMapped`, where the
  end of a handler is `Conclude`, `Interrupt` or `FinishPlan`, depending on what was
  running and whether the row was dropped.

The proofs assume only `ConversationAssumption`.

## 4. DailyAgenda

State and code:

| variable | code |
| --- | --- |
| `pref` | the chat's `UserPreference` row: agenda enabled, its time, missed summary (`models.py:88`) |
| `bot` | `SetPreferencesTool.execute`, between its commit and the job (`tools/set_preferences.py:31`) |
| `job`, `late` | the cron job `daily-agenda-<chat>`: ticks until it fires, ticks it is overdue |
| `agenda` | `_execute_daily_agenda` (`scheduler.py:181`): `started`, `send` with the listed reminders |
| `missed`, `reported` | reminders with status `missed`, with `missed_reported` set |
| `hour`, `up` | time of the day, process |
| `behind`, `told`, `untold` | notes of an observer; no guard reads them |

`SetPreferences` commits a patch; `RescheduleAgenda` then replaces or removes the job,
unless `SetPreferencesFails`. `DispatchAgenda` and `DispatchDrop` are the job store:
whatever becomes of a firing, the trigger gives the next one (`NextTime`).
`BuildAgenda` reads, marks all unreported misses and commits, `SendAgenda` sends the
first `Listed` of them (ten in the code), `AgendaFails` is the blanket `except`.
`GiveUp` and `Reopen` are `mark_missed` and a resolution button as far as they show in
these columns. `Crash` empties the job store, `Restart` is `restore_pending_jobs`.

Simplifications. `GiveUp` waits while an agenda in flight lists an earlier miss of the
same reminder: giving up takes minutes of retries, sending an agenda seconds. `NextFire`
does not fire in the hour that has begun, as the trigger does not for a minute that has
passed. A job dropped as late counts as a failure, so that the bound on failures bounds
it. A recurring wake-up that is given up goes straight to its next occurrence and never
becomes `missed`, so the summary never lists it; only one-time wake-ups appear.

Run `agenda`: `JobFollowsPreference`, `ToldOnce`, `ReportedMeansTaken`,
`AgendaKeepsComing`, `MissIsReported`; two reminders, a day of four ticks, two times of
the day, two changes of the preferences, two misses, one failure, one crash, and room
for one reminder in the text (160 k states). Two changes switch the agenda on and move
it or switch it off; two misses are two reminders of which one is not listed, or the
same reminder twice; a day of four ticks has times before, at and after the hour, with
a job in time, late and too late (`Grace` 1). The clock wraps around, so the liveness
properties speak of infinitely many days and not of a bounded one. Fairness: weak, for
`RescheduleAgenda`, the dispatcher, `BuildAgenda`, `SendAgenda`, `Tick` and `Restart`
(running threads, a clock, a supervisor); none for users, misses, failures, crashes.

`ReportedMeansTaken` and `MissIsReported` name what is lost: the marks are committed
before the text is sent and cover more than the ten lines it has, so a failed send, a
crash or an eleventh miss leaves a reminder marked and never told (`untold`).
With the missed summary switched *off* the filter on unreported misses is off with it
(`scheduler.py:196`, `service.py:143`): the agenda then lists the misses every day and
marks none. `ToldOnce` therefore counts only agendas that mark.

Proofs (`DailyAgendaProofs`), from `AgendaAssumption` alone:

- `TypeCorrect`, and `JobAgrees` (`JobFollowsPreference`), from
  `IInv == TypeOK /\ DownIsEmpty /\ JobFollowsPreference`. `DownIsEmpty` (a process that
  is down has no handler, worker or job) is needed for `Restart`.
- `SummaryTellsOnce` (`ToldOnce`) and `MarkedByAnAgenda` (`ReportedMeansTaken`), from
  these together with `ToldIsReported`: a miss that has been told, or is about to be,
  is marked. `ToldOnce` alone does not say that the next agenda will leave it out.

## 5. Recurrence

The functions `compute_next_occurrence_utc` and `local_day_bounds_utc` as operators over
integers, with what Python's aware datetimes do and no more: comparing two local times
of one zone compares their wall clocks; `replace` keeps the fold bit; adding a
`timedelta` moves the wall clock and clears it; converting to UTC reads a wall clock that
is repeated or skipped with the offset before the change, or after it if the fold is set
(`Wall`, `SecondPass`, `ToUtc`; these three are the library's). A zone is two offsets
and the instant of the change. `Init` computes the first occurrence (`parser.py:263`),
`Serve` is a delivery or an acknowledgement some time after it was due, from which the
next one is computed (`service.py:209`, `231`). `Rest` stutters beyond `MaxTime` and for
an occurrence that is already over, whose job is dropped as late.

The reference is by date: `RightDate` says which dates the rule has, `On` and `First`
which instants have its time on that date. `OnItsDay`, `NothingSkipped`, `OncePerDay`
compare the code's search and modulus with it; `TodayShowsIt` relates the occurrence to
the bounds of its day, at every moment until it is due.

Run `recurrence`: days of eight ticks, every time of the day, three kinds of rule, every
creation time of three days, delays up to just under a day, and six zones for each tick of
two days around a weekend: the clock is set forward or back by two or three ticks, forward
by a whole day (as Samoa's was in 2011), or not at all (121 k states). A change by two
ticks is needed to see a moment inside the hour and not at its edge; one by three lies
unevenly across midnight; a week has its seven days, so the weekend and the modulus are
real. Both the repeated and the skipped hour may span midnight.

What is excepted in the properties, because the code behaves so:

- In the second pass of a repeated hour, weekday and weekly rules (and daily ones when
  the hour spans midnight) may yield the *first* pass of a later time in that hour: an
  instant that is over by then. `add_job` gets a past date, and if that is more than
  300 s ago the job is dropped and the chain ends until a restart or an edit
  (`StrictlyLater`). Served there, a reminder may also ring twice on one date
  (`OncePerDay`).
- A reminder created, or served, right after a skipped hour passes over a time in that
  hour, although the same time asked for before the change rings (`HasTheTime` in
  `NothingSkipped`).
- A time that is skipped across midnight slips to the next date, which then rings twice
  (`SlippedPastMidnight` in `OncePerDay`).
- When midnight itself is skipped or repeated, the bounds of a day are off by the part of
  the change on the other side of it: an occurrence there is missing from the list of its
  own date (`SkipsMidnight`, `RepeatsMidnight` in `TodayShowsIt`).

The last two, and the condition on zones in `RecurrenceAssumption`, came from the proofs:
the run had only zones whose skipped hour kept clear of midnight, where the properties hold
without them. With the zones above TLC shows a counterexample to each property that lacks
its exception.

Proofs (`RecurrenceProofs`), for every set of zones and rules and every length of the day.
They need of a zone only that its change comes later than its offset, so that instants are
not negative, and that the clock is never set forward by more than a day (no zone's ever
was; with two days `NothingSkipped` is false). The invariant is that `due` is what the code
computes from `now`; everything else is lemmas about the operators.

- `AlwaysAnother` (`TypeOK`: a next occurrence exists) and `AlwaysLater`
  (`StrictlyLater`), from `DaysAhead` (the date and the order of the rule's time some days
  on, by uniqueness of quotients), `LaterOnTheWall` (a later wall clock is a later instant,
  but for the repeated hour), `WeekdayIsLater` (of three days in a row one is a working
  day).
- `OccursOnItsDay` (`OnItsDay`) and `NoneIsSkipped` (`NothingSkipped`), from `DailyIsNext`,
  `WeeklyIsNext`, `WeekdayIsNext`: on the wall clock, no day of the rule lies between a
  moment and what the search or the modulus yields. `EarlierIsEarlier` carries this over to
  instants.
- `RingsOncePerDay` (`OncePerDay`), an action property: it relates the occurrence served to
  the one computed from the moment of serving, however late that is.
- `TodayIsComplete` (`TodayShowsIt`), from `DayEncloses`: the bounds of a day enclose its
  wall-clock times.

`ReminderEngine` uses none of this: it relies on `StrictlyLater` only, as `Period`.

## 6. Delivery: guard, polling loop, deadline chains

`Delivery` extends three small modules and adds Telegram, the updater's queue and the
handler.

| variable | code |
| --- | --- |
| `inbox`, `fetched` | updates Telegram keeps; how many of them it has handed over, and forgets at the next fetch |
| `queue` | `update_queue` of python-telegram-bot: fetched, and not yet taken by a handler |
| `last` | the press taken last |
| `callbacks`, `messages` | `_seen_callbacks`, `_seen_messages` of the execution guard (`execution_guard.py:17`) |
| `bot` | the handler in flight: `answer`, `work`, `schedule`, `decline`, `reply`, `sorry` (`telegram_bot.py:172`, `199`) |
| `loop`, `attempts`, `wake` | the loop of `main.py:49` and its two counters |
| `chains`, `jobs` | rows of deadline chains, by offset; their jobs in the store |
| `heard`, `pressed`, `begun`, `told`, `mute`, `dropped`, `asked`, `stray` | notes of an observer; no guard reads them |

`HearPress`, `RefusePress`, `HearText`, `RefuseText` are the guard in front of a
handler. `AnswerQuery` is `query.answer()`, which stands outside the `try`: when it fails
(`AnswerFails`) the press is marked, nothing is done and nobody is told. `PressWork`
stands for whatever a button does; `MakeChain`, `ScheduleNext`, `ChainScheduled` are
`DeadlineChainTool.execute` with its single commit and its loop over `schedule_reminder`.
`WorkFails` is an exception inside the `try`, `ApologyFails` one while apologising.
`RunJob` and `JobFails` are due jobs.

`FetchBatch` is one `getUpdates`: it confirms the batch before and puts everything new in
the queue, whatever the handler is doing; handlers take from the queue one at a time. A
process that ends loses guard, jobs, handler and queue (`MemoryIsLost`): what it had
fetched last comes again, what an earlier fetch confirmed does not, wherever it was
(`dropped` notes what no handler had taken). `FetchAgain` is a press handed out twice.

`Polling` has the start and the end of `run_polling`. Getting started calls Telegram
without a retry; an error there reaches `main` (`PollFails`), which waits as `Wait` says.
Once the bot polls, python-telegram-bot repeats a failing `getUpdates` itself, conflicts
included, and such errors do not reach the loop. After the wait `run_polling` is called on
the same `Application`, whose first call has closed the event loop (`close_loop` is true by
default): it raises `RuntimeError`, which neither `except` of the loop catches, and the
process ends (`PollAgain`, `RetryFails`). Only the supervisor's restart polls again
(`PollStarts`). So each counter is one at most and the waits never grow. A process that
is told to stop works off its queue first; it is not modelled apart from one that ends
with the queue empty.

Simplifications: the clock is a small number of ticks and every look at a table comes
right after its clean-up, so an entry is gone at the moment it expires; a text is one of a
few, guarded or not; handling a press takes no time while it answers (`Tick` stands
still), while its work may take any. A user who repeats a text sends another update;
what is delivered again keeps its id.

Run `delivery`: `ChainWhole`, `ChainHasJobs`, `PressWorksOnce`, `RefusedTextWasHeard`,
`HandledMeansTold`, `ChainRings`, `UpdatesAreHeard`. Two updates of any kind, one press
handed out again, one failure (of the start, of a query, of work and then perhaps of its
apology, or of a job), one end of the process, all in the first ticks, the clock up to 4
(0.34 M states). Two updates are a press and its repeat, a text and its repeat, a chain
in flight when a press arrives, or a batch of which one is in work and one in the queue
when the process ends, before or after its confirmation; the terms (3 ticks for a press,
2 for a text) end inside the run, so that a repeat after its term is heard; a chain has
two offsets, of which both, one or none lie ahead when it is asked for. Users and faults
stop at `LastEvent` so that liveness has the time it needs.

Run `retry_claim` is violated: `WaitEndsInRetry` is what `main.py:69` logs ("restarting
polling loop") and `README.md:308` says ("retries automatically"). The trace is an error of
the start, the wait, and the end of the process.

Fairness: weak, for the start of the polling, the updater, the bot thread, due jobs, the
end of a wait, the restart (`restart: unless-stopped`) and the clock. `ChainRings` excepts
rows whose job a failure or a late run took away (`stray`), as `ReminderEngine` does.
`UpdatesAreHeard` excepts what was confirmed and still queued when a process ended
(`dropped`); `drop_pending_updates=False` keeps everything else, also what arrives while
nobody polls.

Proofs (`DeliveryProofs`), from the assumptions of the four modules alone:

- `TypeCorrect`.
- `GuardInvariant == PressRemembered /\ TextRemembered`: the tables agree with what an
  observer saw begin, term by term, and what is remembered of a press was told, could not
  be told, or is in the hand of the handler. Neither `PressWorksOnce` nor
  `HandledMeansTold` says anything about the tables, hence the strengthening. From it
  `PressedOnce`, `RepeatsAreHeard`, `RefusedPressWasTold`.
- `ChainInvariant == ChainWhole /\ JobsHaveRows /\ HandlerAtRow /\ ChainHasJobs`:
  `HandlerAtRow` says which rows the handler has passed, `JobsHaveRows` that a job is
  one of a row. From it `ChainsAreWhole` and `WaitingRowsHaveJobs`.

`ChainRings` and `UpdatesAreHeard` are liveness under fairness: TLC only.

## 7. Judgement and Learning

`Judgement` is operators: what semantic judgment, memory, learning, checker, conflict
detector and evaluator do to the confidence of one reading (in hundredths), in the order
of `handle_user_message`, and the verdict: ask, propose, carry out. `Learning` has the
tables and what fills them.

| variable | code |
| --- | --- |
| `scores` | `PhraseRiskScore` per signature: successes, consents, corrections (`self_learning.py:84`-`128`) |
| `examples` | `CorrectionExample` rows per text, as many as count |
| `patterns` | `LearnedTimePattern`: wordings of a time that are rewritten from now on |
| `profiles` | `TaskMemoryProfile` per task: uses and usual hour (`memory_profile.py:39`) |
| `row` | the follow-up or proposal that waits, with the request it belongs to |
| `offers`, `made` | keyboards that offer targets; texts that became reminders |
| `refused`, `credit`, `hours` | notes of an observer; no guard reads them |

`HearAsk`, `HearPropose`, `HearExecute` are the three verdicts, `HearRepair` is
`_try_repair_conversation`, `Confirm`, `Refuse`, `Choose`, `MakePlanned` the rest of the
dialogue as far as it is learned from. `Execute` is `_execute_action` with its outcomes:
`Created`, `Changed`, `Chained`, `Offered`, `Failed`, `Unlearned`; each records under
the text the code records under, which is not always the same one.

Abstractions: which reading a text gets, which texts are similar, what a text's signature
and its wording of a time are, are constants (a language model, a similarity ratio,
regular expressions). Numbers are exact hundredths. A repair of a proposal or of the
latest reminder is in `HearRepair`; when everything is closed a repair may be read like
another message. Exceptions between two of a handler's records are left to `Conversation`.

Run `learning`: `MeanInRange`, `TrustIsEarned`, `TrustMovesRight`; five
texts (two wordings of one task, one of which is rewritten into the other once learned, a
change, a wake-up, an answer), ten readings, six messages, presses or choices (0.5 M
states), with the shipped thresholds. Six steps allow refuse, consent, succeed and ask
again with two more in between, which is what the threshold of the risk (7 to 23) needs
to move once in each direction.

Run `confidence_claim` is violated, with the same texts and three messages.
`README.md:7` says that the bot "raises confidence for similar phrases that were confirmed
before"; the code replaces the confidence of a reading with examples by 55 plus three per
example, at most 64 (`interpretation_service.py:463`): a reading of 90, confirmed and
carried out once, is worth 58 from then on, and is asked about again.

What the properties except, because the code behaves so. A refusal is recorded under the
wording as it was sent and looked up under the wording as it is rewritten: once a pattern
is learned, or for an answer to a follow-up, the refusal is forgotten
(`TrustIsEarned`). A confidence below
`ai_confirmation_min_confidence` is not asked about but carried out
(`interpretation_service.py:920`), while `prompts.py:19` tells the model to keep it low
"so the app can confirm it". The notes `corrected`, `repair`, `risky` that would make an
example a risky one are never written, so there are none. Patterns are shared by all
users. The mean of 23 and 1 o'clock is noon. "12 AM" contains "2 AM", so such a failure
counts as one at 2 AM.

Proofs (`LearningProofs`):

- `TypeCorrect` and `UsualHourInRange` from `Sound == TypeOK /\ MeanInRange`. The mean
  needs a lemma about rounding: half up or half to even, it stays between the bounds.
- `ScoresAreHonest`: `Trust`, the score of a wording is at most what users did in its
  favour (`credit`) and at least their refusals; with it `RefusalsAreHeeded`
  (`TrustIsEarned`).
- `TrustMoves` (`TrustMovesRight`): a refusal never makes a risky wording trusted, a
  consent makes a trusted one risky only through a failure at 2 AM.

## 8. FollowUp

The bot as it runs without a language model, or while the model fails:
`RuleBasedInterpreter` of `agent.py` behind the fallback of `ai/interpreter.py`. (The two
other interpreters of `agent.py` are reached by tests only.)

| variable | code |
| --- | --- |
| `row` | the chat's row: a draft (`PendingConversationState`) with the field that was asked for, or a proposal |
| `reminders` | reminders, in the order they were made |
| `discussed` | `last_discussed_task` of the reference memory |
| `wish`, `done` | notes of an observer: the message the dialogue is about, the draft just carried out |

A message is a record of what the rules find in it: what it is when it stands alone,
whether it looks like a new request, whether it is a repair, the task, the time, the
number and the text it holds. `Read` is `interpret`, `Continue` is `_continue_pending`,
`AskedBy` is what checker and rules ask for. `KeepTask`, `Correct`, `LoseCorrected`,
`RepairLatest`, `RepairNone`, `AskWhich` are the special branches of
`handle_user_message`, in its order; `Ask`, `Propose`, `Execute`, `Misunderstand` the
outcomes of a reading; `Agree`, `Refuse` the answers to a proposal. Whether a complete
reading is proposed or carried out is a free choice here (`Judgement` decides it), but
for wake-ups and indirect wishes.

Run `followup`: `CompleteOnly`, `WishIsKept`, `WakeUpStaysWakeUp`, `OnlyTheNamed`,
`AnswerIsTaken`; twenty-eight messages, six of them in a row, two reminders (0.2 M
states). Six are enough to open a request, answer two questions, correct the proposal,
answer again and agree. Two reminders make a target ambiguous. Run `newtime_claim` is
violated: asked "What time should I use?", the user gives a time and the draft keeps the
one it had.

Proofs (`FollowUpProofs`): one invariant, `Dialogue`, strengthens `TypeOK`,
`CompleteOnly` and `WishIsKept`: a draft about a wish to create stays a creation and
keeps whether it is to be acknowledged (`DraftAbout`), each reminder is about the wish it
was made for (`ReminderAbout`), and a wish for a chain has a task (`Sayable`). From it
`TypeCorrect`, `CompletedFirst`, `WishesAreKept`, `WakeUpsAreKept`; `OthersAreLeftAlone`
(`OnlyTheNamed`) is proved along with each step (`Retimed`). `AnswersAreTaken`
(`AnswerIsTaken`) needs `Asking`: what a draft waits for is something `AskedBy` can have
asked for, so that the answer has a slot; `AnswerFills` and `NotAskedAgain` do the rest.
They hold for every set of messages that satisfies `FollowUpAssumption`.

Met while modelling, and true of the code without a language model:

- A change that knows its reminder by number swallows the first answer to "what time?":
  it goes to the empty target text, and the question comes again.
- The first number in a change or cancellation is the reminder's number, an hour too
  ("Move my wake-up to 7 AM" is about reminder 7). `test_phase9_2_routing.py:21` expects
  "the 2nd reminder" to be resolved; `extract_target_id` returns nothing.
- Any text with "not" in it is a repair of the latest reminder (`semantic_judgment.py:53`).
- "I meant 2 PM" at a proposal discards it; with "not 2 AM" after it, the latest reminder
  is corrected instead. "Keep the task, change the time" with nothing pending makes a
  second reminder, of a wake-up without the acknowledgement.
- A cancellation that asks for its target takes any answer for one. "no", "cancel" and
  "stop" do not end a follow-up. A preference out of range is asked for for ever.
- The offsets of a chain are dropped (`ai/interpreter.py:164`): it is proposed, agreed to,
  and makes nothing.
- What `_handle_tool_first_route` rewrites is not what is interpreted: line 357 starts
  from the message as sent.

## 9. What TLC found

Five runs end in a counterexample, each against a sentence of the repository (quoted in
`PROJECT.json`, "findings"):

1. `restart_claim`: a restart more than five minutes after a reminder was due does not
   deliver it. `restore_pending_jobs` schedules it with its past date and APScheduler
   drops it; the row stays open without a job.
2. `no_claim`: `no`, `n` and `cancel` typed at a pending proposal carry it out. The
   router calls them a confirmation reply (`router.py:111`), and the service acts on that
   route before it looks at the word. `stop` works.
3. `newtime_claim`: a new time given when asked for one is not used; see `FollowUp`.
4. `retry_claim`: the retry after a failed start ends the process; see `Delivery`.
5. `confidence_claim`: confirmed examples lower a high confidence; see `Learning`.

The exceptions in the properties of the passing runs are behaviour of the code as well:
a failed send ends a wake-up's retries (`lost` in `ReminderEngine`, `scheduler.py:177`),
an open reminder without a time (`stale`), misses marked and never told (`untold` in
`DailyAgenda`), the edges of `Recurrence`, a
refused press nobody was told about (`mute`) and updates lost with the queue (`dropped`) in
`Delivery`, repeated wishes that are not recognised (`Exact`, `unsought` in `Conversation`),
forgotten refusals in `Learning`.

## 10. Proved, checked, neither

Proved for all constants: the theorems above, among them the type invariant of every
state machine. The runs do not check again what only restates a proved invariant:
`TypeOK` (but in `Recurrence`, where it says that there is a next occurrence), `Covered` and
`UnfinishedPlanIsKept` are theorems only, and
`ImplementsLife` is checked with faults and proved for all.

Every safety and action property of the passing runs is a theorem too. Only model-checked
are the liveness properties `OneTimeEnds`, `DueIsServed`, `AgendaKeepsComing`,
`MissIsReported`, `ChainRings`, `UpdatesAreHeard`, which with `ENABLED` and fairness are out
of the prover's reach. Induction over data and `RECURSIVE` operators are out of its reach too; no module
uses them.

## 11. Not modelled

- How a text becomes a task, a time, an offset or a number: regular expressions,
  dateparser, language models. Its outcome is a free choice or a constant of the models.
- Calendar screenshot import (`phase10_1/calendar_import.py`): OCR, then geometry and
  colours of word boxes under tuned thresholds; it keeps no state. That a plan comes out
  of it and waits for a confirmation is `ImportScreenshot` of `Conversation`.
- The reference memory beyond the last task spoken about ("the second one"), general
  chat, suggestions after a creation.
- Logs of AI runs, audits and interactions, exported examples: written, never read by a
  decision.
- Runtime counters, health endpoint, admin CLI, telemetry, configuration. The health
  endpoint reports `bot_started`, which is set once and never unset (`runtime.py:47`).

## 12. Plan

Written: `ReminderEngine`, `Conversation` with `ProposalLife`, `DailyAgenda`,
`Recurrence`, `Delivery` with its three parts, `Learning` with `Judgement`, `FollowUp`,
and their proofs. What would add most next:

1. `ReminderLife`: an abstract engine whose handlers are atomic, and which interleavings
   of `ReminderEngine` implement it; `InOrder` is the invariant that proof needs.
2. The reference memory, composed with `FollowUp`: which reminder "the second one" is
   after the list has changed.
