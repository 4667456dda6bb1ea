---------------------------- MODULE DailyAgenda ----------------------------
(***************************************************************************)
(* The daily agenda of one chat: the preference row that switches it, the  *)
(* cron job that sends it, and the missed reminders it reports.            *)
(*                                                                         *)
(* The bot thread commits a preference and only then reschedules the job.  *)
(* The job's worker thread reads the preference and the missed reminders,  *)
(* marks those it is going to list as reported, commits, and sends.  A job *)
(* of the memory store does not survive the process; a cron job stays in   *)
(* the store, and is replaced by the next time its hour comes.             *)
(***************************************************************************)
EXTENDS Integers, FiniteSets

CONSTANTS
    Reminders,      \* the chat's wake-up reminders
    Day,            \* length of a day, in ticks of the clock
    Hours,          \* times of the day a user may ask for
    Grace,          \* misfire_grace_time of the job
    Listed,         \* how many missed reminders the text lists
    MaxChanges,     \* bound: changes of the preferences
    MaxMisses,      \* bound: how often a reminder is given up
    MaxFailures,    \* bound: failing handlers, jobs dropped as late
    MaxCrashes      \* bound: process crashes

ASSUME AgendaAssumption ==
    /\ Day \in Nat \ {0}
    /\ Hours \subseteq 0..Day - 1
    /\ Grace \in Nat /\ Listed \in Nat
    /\ MaxChanges \in Nat /\ MaxMisses \in Nat
    /\ MaxFailures \in Nat /\ MaxCrashes \in Nat

VARIABLES
    pref,      \* the committed preference row
    bot,       \* the handler of a message that changes the preferences
    job,       \* ticks until the job fires, None if there is no job
    late,      \* ticks since it should have fired
    agenda,    \* the worker thread of the job
    missed,    \* reminders whose status is missed
    reported,  \* reminders whose missed_reported column is set
    hour,      \* time of the day
    up,        \* the process is running
    changes, misses, failures, crashes,   \* how much of each bound is used
    (* What an observer of the run would have noted; no action reads these. *)
    behind,    \* a handler failed between its commit and the job
    told,      \* how often a summary that marks told the user of this miss
    untold     \* marked as reported by an agenda that did not tell

boundVars == <<changes, misses, failures, crashes>>
noteVars == <<behind, told, untold>>
vars == <<pref, bot, job, late, agenda, missed, reported, hour, up,
          boundVars, noteVars>>

-----------------------------------------------------------------------------
None == -1

\* enabled: daily_agenda_enabled, at: the local time (hour and minute are set
\* together), summary: missed_summary_enabled.
Preference == [enabled : BOOLEAN, at : Hours \cup {None}, summary : BOOLEAN]
DefaultPreference == [enabled |-> FALSE, at |-> None, summary |-> TRUE]

Wanted(p) == p.enabled /\ p.at # None

\* A patch names a value for some of the columns.  A time of the day switches
\* the agenda on, whatever else the patch says.
Patch == [enabled : {{}} \cup {{b} : b \in BOOLEAN},
          at : {{}} \cup {{h} : h \in Hours},
          summary : {{}} \cup {{b} : b \in BOOLEAN}]
Patched(p, patch) ==
    [enabled |-> IF patch.at # {} THEN TRUE
                 ELSE IF patch.enabled # {} THEN TRUE \in patch.enabled
                 ELSE p.enabled,
     at      |-> IF patch.at # {} THEN CHOOSE h \in Hours : h \in patch.at
                 ELSE p.at,
     summary |-> IF patch.summary # {} THEN TRUE \in patch.summary
                 ELSE p.summary]

\* CronTrigger: ticks until the clock next shows h; not the hour that has begun.
NextFire(h) == IF h > hour THEN h - hour ELSE h - hour + Day

Idle == [pc |-> "idle", list |-> {}, mark |-> FALSE]
Agenda == [pc : {"idle", "started", "send"}, list : SUBSET Reminders,
           mark : BOOLEAN]

Busy == agenda.pc # "idle"

-----------------------------------------------------------------------------
Init ==
    /\ pref = DefaultPreference
    /\ bot = "idle"
    /\ job = None /\ late = 0
    /\ agenda = Idle
    /\ missed = {} /\ reported = {}
    /\ hour = 0 /\ up = TRUE
    /\ changes = 0 /\ misses = 0 /\ failures = 0 /\ crashes = 0
    /\ behind = FALSE
    /\ told = [r \in Reminders |-> 0]
    /\ untold = {}

-----------------------------------------------------------------------------
(* The bot thread: SetPreferencesTool.                                     *)

SetPreferences(patch) ==
    /\ up /\ bot = "idle" /\ changes < MaxChanges
    /\ <<patch.enabled, patch.at, patch.summary>> # <<{}, {}, {}>>
    /\ pref' = Patched(pref, patch)
    /\ bot' = "schedule"
    /\ changes' = changes + 1
    /\ UNCHANGED <<job, late, agenda, missed, reported, hour, up, misses,
                   failures, crashes, noteVars>>

\* Mutant: the job is left alone when the agenda is switched off.
KeepJob ==
    /\ bot = "schedule"
    /\ bot' = "idle"
    /\ job' = IF Wanted(pref) THEN NextFire(pref.at) ELSE job
    /\ late' = 0
    /\ behind' = FALSE
    /\ UNCHANGED <<pref, agenda, missed, reported, hour, up, boundVars, told,
                   untold>>

\* Replaces the job or removes it.
RescheduleAgenda ==
    /\ bot = "schedule"
    /\ bot' = "idle"
    /\ job' = IF Wanted(pref) THEN NextFire(pref.at) ELSE None
    /\ late' = 0
    /\ behind' = FALSE
    /\ UNCHANGED <<pref, agenda, missed, reported, hour, up, boundVars, told,
                   untold>>

\* The refresh after the commit or the trigger's construction raised.
SetPreferencesFails ==
    /\ bot = "schedule" /\ failures < MaxFailures
    /\ bot' = "idle"
    /\ failures' = failures + 1
    /\ behind' = TRUE
    /\ UNCHANGED <<pref, job, late, agenda, missed, reported, hour, up,
                   changes, misses, crashes, told, untold>>

-----------------------------------------------------------------------------
(* The job store and the worker thread: _execute_daily_agenda.             *)

\* Mutant: a job that has run leaves the store, as a DateTrigger's does.
RunOnce == job' = None /\ late' = 0

\* The store asks the trigger for the next time whatever becomes of this one.
NextTime == job' = Day - late /\ late' = 0

DispatchAgenda ==
    /\ job = 0
    /\ late <= Grace
    /\ ~Busy
    /\ NextTime
    /\ agenda' = [Idle EXCEPT !.pc = "started"]
    /\ UNCHANGED <<pref, bot, missed, reported, hour, up, boundVars, noteVars>>

\* Too late, or the job's only instance still runs: this day has no agenda.
DispatchDrop ==
    /\ job = 0
    /\ late > Grace \/ Busy
    /\ NextTime
    /\ UNCHANGED <<pref, bot, agenda, missed, reported, hour, up, boundVars,
                   noteVars>>

\* Mutant: the summary lists what has been reported, too.
AllMissed == missed

\* list_missed_reminders: a summary that is switched off has no filter.
ToReport == IF pref.summary THEN missed \ reported ELSE missed

\* The text has room for some of them, the latest ones.
FirstOf(S) == {T \in SUBSET S :
                 Cardinality(T) = IF Cardinality(S) <= Listed
                                  THEN Cardinality(S) ELSE Listed}

\* Reads the row and the missed reminders, and marks all of them, listed or
\* not, before anything is sent.
BuildAgenda ==
    /\ agenda.pc = "started"
    /\ \E list \in FirstOf(ToReport) :
         /\ agenda' = [pc |-> "send", list |-> list, mark |-> pref.summary]
         /\ IF pref.summary
            THEN /\ reported' = reported \cup ToReport
                 /\ untold' = untold \cup (ToReport \ list)
            ELSE UNCHANGED <<reported, untold>>
    /\ UNCHANGED <<pref, bot, job, late, missed, hour, up, boundVars, behind,
                   told>>

SendAgenda ==
    /\ agenda.pc = "send"
    /\ agenda' = Idle
    /\ told' = [r \in Reminders |->
                  IF agenda.mark /\ r \in agenda.list THEN told[r] + 1
                  ELSE told[r]]
    /\ UNCHANGED <<pref, bot, job, late, missed, reported, hour, up,
                   boundVars, behind, untold>>

\* What an agenda that ends here will not tell.
Unsent == IF agenda.mark THEN agenda.list ELSE {}

\* The blanket except: the database or Telegram failed, until tomorrow.
AgendaFails ==
    /\ Busy
    /\ failures < MaxFailures
    /\ failures' = failures + 1
    /\ agenda' = Idle
    /\ untold' = untold \cup Unsent
    /\ UNCHANGED <<pref, bot, job, late, missed, reported, hour, up, changes,
                   misses, crashes, behind, told>>

-----------------------------------------------------------------------------
(* What ReminderEngine does to a one-time wake-up, as far as it shows here.*)

\* Mutant: the flag of an earlier miss stays set.
GiveUpKeepingFlag(r) ==
    /\ up /\ misses < MaxMisses
    /\ r \notin missed /\ r \notin agenda.list
    /\ missed' = missed \cup {r}
    /\ misses' = misses + 1
    /\ told' = [told EXCEPT ![r] = 0]
    /\ untold' = untold \ {r}
    /\ UNCHANGED <<pref, bot, job, late, agenda, reported, hour, up, changes,
                   failures, crashes, behind>>

\* mark_missed.  It takes minutes of retries to give a reminder up: an agenda
\* that lists an earlier miss of it has been sent or has timed out by then.
GiveUp(r) ==
    /\ up /\ misses < MaxMisses
    /\ r \notin missed /\ r \notin agenda.list
    /\ missed' = missed \cup {r}
    /\ reported' = reported \ {r}
    /\ misses' = misses + 1
    /\ told' = [told EXCEPT ![r] = 0]
    /\ untold' = untold \ {r}
    /\ UNCHANGED <<pref, bot, job, late, agenda, hour, up, changes, failures,
                   crashes, behind>>

\* A resolution button that names a missed reminder gives it a new time.
Reopen(r) ==
    /\ up /\ r \in missed
    /\ missed' = missed \ {r}
    /\ UNCHANGED <<pref, bot, job, late, agenda, reported, hour, up,
                   boundVars, noteVars>>

-----------------------------------------------------------------------------
(* Clock and process.                                                      *)

\* Falling behind by more than the grace time counts as a failure; nothing
\* falls behind by a day.
Tick ==
    /\ hour' = IF hour + 1 = Day THEN 0 ELSE hour + 1
    /\ \/ job = None /\ UNCHANGED <<job, late, failures>>
       \/ job > 0 /\ job' = job - 1 /\ UNCHANGED <<late, failures>>
       \/ /\ job = 0 /\ late + 1 < Day
          /\ late' = late + 1
          /\ failures' = IF late = Grace THEN failures + 1 ELSE failures
          /\ failures' <= MaxFailures
          /\ UNCHANGED job
    /\ UNCHANGED <<pref, bot, agenda, missed, reported, up, changes, misses,
                   crashes, noteVars>>

Crash ==
    /\ up /\ crashes < MaxCrashes
    /\ up' = FALSE
    /\ crashes' = crashes + 1
    /\ bot' = "idle" /\ agenda' = Idle
    /\ job' = None /\ late' = 0
    /\ behind' = FALSE
    /\ untold' = untold \cup Unsent
    /\ UNCHANGED <<pref, missed, reported, hour, changes, misses, failures,
                   told>>

\* restore_pending_jobs.
Restart ==
    /\ ~up
    /\ up' = TRUE
    /\ job' = IF Wanted(pref) THEN NextFire(pref.at) ELSE None
    /\ UNCHANGED <<pref, bot, late, agenda, missed, reported, hour, boundVars,
                   noteVars>>

-----------------------------------------------------------------------------
Next ==
    \/ \E patch \in Patch : SetPreferences(patch)
    \/ RescheduleAgenda \/ SetPreferencesFails
    \/ DispatchAgenda \/ DispatchDrop
    \/ BuildAgenda \/ SendAgenda \/ AgendaFails
    \/ \E r \in Reminders : GiveUp(r) \/ Reopen(r)
    \/ Tick \/ Crash \/ Restart

Spec == Init /\ [][Next]_vars

\* The handler and the threads go on, the process is restarted, time passes.
FairSpec ==
    /\ Spec
    /\ WF_vars(RescheduleAgenda)
    /\ WF_vars(DispatchAgenda \/ DispatchDrop)
    /\ WF_vars(BuildAgenda) /\ WF_vars(SendAgenda)
    /\ WF_vars(Tick) /\ WF_vars(Restart)

-----------------------------------------------------------------------------
(* Properties.                                                             *)

\* The shape of the state: rows and threads take the values the code gives
\* them, and only a job that is due is late.
TypeOK ==
    /\ pref \in Preference
    /\ bot \in {"idle", "schedule"}
    /\ job \in 0..Day \cup {None}
    /\ late \in 0..Day - 1
    /\ job # 0 => late = 0
    /\ agenda \in Agenda
    /\ agenda.pc # "send" => agenda.list = {}
    /\ missed \subseteq Reminders
    /\ reported \subseteq Reminders
    /\ hour \in 0..Day - 1
    /\ up \in BOOLEAN
    /\ changes \in Nat /\ misses \in Nat /\ failures \in Nat /\ crashes \in Nat
    /\ behind \in BOOLEAN
    /\ told \in [Reminders -> Nat]
    /\ untold \subseteq Reminders

\* The job and the row agree (set_preferences.py:32, scheduler.py:92): while no
\* handler is between its commit and the job, and none failed there, there is
\* a job if and only if the row asks for an agenda, and it fires at the row's
\* hour, through changes, lateness, dropped runs, crashes and restarts.
JobFollowsPreference ==
    up /\ bot = "idle" /\ ~behind =>
        IF Wanted(pref)
        THEN /\ job # None
             /\ hour + job - late \in {pref.at - Day, pref.at, pref.at + Day}
        ELSE job = None

\* Between two misses of a reminder the summary tells of the first only once
\* (scheduler.py:190, service.py:259): the mark is committed before the text
\* is sent, so neither a crash nor the next day repeats it.
ToldOnce == \A r \in Reminders : told[r] <= 1

\* A miss is taken off the list of the unreported only by an agenda that tells
\* it, is about to, failed to, or had no room for it (service.py:151, 259): a
\* reminder missed again is unreported again.
ReportedMeansTaken ==
    \A r \in missed \cap reported :
        \/ told[r] > 0
        \/ agenda.mark /\ r \in agenda.list
        \/ r \in untold

\* The agenda is a habit (scheduler.py:67): once the user stays with a time of
\* the day and the job has it, an agenda is sent again and again.
AgendaKeepsComing ==
    <>[](Wanted(pref) /\ ~behind) => []<><<SendAgenda>>_vars

\* The summary leaves nothing out (scheduler.py:186): with agenda and summary
\* switched on for good, every miss is told, or was marked by an agenda that
\* could not tell it, unless the reminder gets a new time.
MissIsReported ==
    <>[](Wanted(pref) /\ pref.summary /\ ~behind) =>
        \A r \in Reminders :
            r \in missed ~> told[r] > 0 \/ r \in untold \/ r \notin missed
=============================================================================
