------------------------- MODULE DailyAgendaProofs -------------------------
(***************************************************************************)
(* What DailyAgenda keeps for every chat, day and bound: its types, the    *)
(* agreement of job and preference row, and what it reports of a miss.     *)
(***************************************************************************)
EXTENDS DailyAgenda, TLAPS

\* A process that is down has no job, no handler and no thread.
DownIsEmpty ==
    ~up => job = None /\ bot = "idle" /\ agenda = Idle /\ ~behind

\* What has been told is marked, and what is about to be told has not been.
ToldIsReported ==
    \A r \in Reminders :
        /\ told[r] > 0 => r \in reported
        /\ agenda.mark /\ r \in agenda.list => r \in reported /\ told[r] = 0

-----------------------------------------------------------------------------
(* Types.                                                                  *)

\* The trigger's next time is at least one tick and at most a day away.
LEMMA NextFireType ==
    ASSUME hour \in 0..Day - 1, NEW h \in Hours
    PROVE  /\ NextFire(h) \in 1..Day
           /\ hour + NextFire(h) \in {h, h + Day}
BY AgendaAssumption, SMT DEF NextFire

\* A patched preference is a preference.
LEMMA PatchedType ==
    ASSUME NEW p \in Preference, NEW patch \in Patch
    PROVE  Patched(p, patch) \in Preference
<1>1. patch.at = {} \/ \E h \in Hours : patch.at = {h}
  BY DEF Patch
<1>2. p.at \in Hours \cup {None} /\ p.enabled \in BOOLEAN /\ p.summary \in BOOLEAN
  BY DEF Preference
<1>3. patch.at # {} => (CHOOSE h \in Hours : h \in patch.at) \in Hours
  BY <1>1
<1> DEFINE enabled == IF patch.at # {} THEN TRUE
                      ELSE IF patch.enabled # {} THEN TRUE \in patch.enabled
                      ELSE p.enabled
<1> DEFINE at == IF patch.at # {} THEN CHOOSE h \in Hours : h \in patch.at
                 ELSE p.at
<1> DEFINE summary == IF patch.summary # {} THEN TRUE \in patch.summary
                      ELSE p.summary
<1>0. \A v : (TRUE \in v) \in BOOLEAN
  OBVIOUS
<1>4. enabled \in BOOLEAN
  <2>1. CASE patch.at # {}
    BY <2>1, Zenon
  <2>2. CASE patch.at = {} /\ patch.enabled # {}
    BY <1>0, <2>2, Zenon
  <2>3. CASE patch.at = {} /\ patch.enabled = {}
    BY <1>2, <2>3, Zenon
  <2> QED BY <2>1, <2>2, <2>3, Zenon
<1>5. summary \in BOOLEAN
  <2>1. CASE patch.summary # {}
    BY <1>0, <2>1, Zenon
  <2>2. CASE patch.summary = {}
    BY <1>2, <2>2, Zenon
  <2> QED BY <2>1, <2>2, Zenon
<1>6. at \in Hours \cup {None}
  BY <1>2, <1>3, Zenon
<1>7. Patched(p, patch) = [enabled |-> enabled, at |-> at, summary |-> summary]
  BY Zenon DEF Patched
<1> HIDE DEF enabled, at, summary
<1> QED BY <1>4, <1>5, <1>6, <1>7 DEF Preference

\* The initial state has the declared shape.
LEMMA InitType == Init => TypeOK
<1> SUFFICES ASSUME Init PROVE TypeOK
  OBVIOUS
<1>1. pref \in Preference
  BY DEF Init, DefaultPreference, Preference
<1>2. agenda \in Agenda /\ agenda.list = {}
  BY DEF Init, Idle, Agenda
<1>3. hour \in 0..Day - 1 /\ late \in 0..Day - 1 /\ late = 0
  BY AgendaAssumption DEF Init
<1>4. told \in [Reminders -> Nat]
  BY DEF Init
<1> QED BY <1>1, <1>2, <1>3, <1>4 DEF Init, TypeOK

\* The bot's steps keep the types.
LEMMA BotType ==
    ASSUME TypeOK
    PROVE  /\ \A patch \in Patch : SetPreferences(patch) => TypeOK'
           /\ RescheduleAgenda => TypeOK'
           /\ SetPreferencesFails => TypeOK'
<1>1. ASSUME NEW patch \in Patch, SetPreferences(patch) PROVE TypeOK'
  <2>1. pref' \in Preference
    BY <1>1, PatchedType DEF SetPreferences, TypeOK
  <2> QED BY <1>1, <2>1 DEF SetPreferences, TypeOK, boundVars, noteVars
<1>2. ASSUME RescheduleAgenda PROVE TypeOK'
  <2>1. Wanted(pref) => NextFire(pref.at) \in 1..Day
    BY NextFireType DEF TypeOK, Preference, Wanted
  <2>2. job' \in 0..Day \cup {None} /\ late' = 0
    BY <1>2, <2>1, AgendaAssumption DEF RescheduleAgenda, TypeOK, None
  <2>3. late' \in 0..Day - 1
    BY <2>2, AgendaAssumption
  <2> QED BY <1>2, <2>2, <2>3 DEF RescheduleAgenda, TypeOK, boundVars
<1>3. ASSUME SetPreferencesFails PROVE TypeOK'
  BY <1>3 DEF SetPreferencesFails, TypeOK
<1> QED BY <1>1, <1>2, <1>3

\* The store's and the thread's steps keep the types.
LEMMA AgendaType ==
    ASSUME TypeOK
    PROVE  /\ DispatchAgenda => TypeOK'
           /\ DispatchDrop => TypeOK'
           /\ BuildAgenda => TypeOK'
           /\ SendAgenda => TypeOK'
           /\ AgendaFails => TypeOK'
<1>1. NextTime => job' \in 0..Day \cup {None} /\ late' \in 0..Day - 1 /\ late' = 0
  BY AgendaAssumption, SMT DEF NextTime, TypeOK
<1>2. Idle \in Agenda /\ [Idle EXCEPT !.pc = "started"] \in Agenda
      /\ Idle.list = {} /\ [Idle EXCEPT !.pc = "started"].list = {}
  BY DEF Idle, Agenda
<1>3. ASSUME DispatchAgenda PROVE TypeOK'
  BY <1>1, <1>2, <1>3 DEF DispatchAgenda, TypeOK, boundVars, noteVars
<1>4. ASSUME DispatchDrop PROVE TypeOK'
  BY <1>1, <1>4 DEF DispatchDrop, TypeOK, boundVars, noteVars
<1>5. ASSUME BuildAgenda PROVE TypeOK'
  <2>1. ToReport \subseteq Reminders
    BY DEF ToReport, TypeOK
  <2>2. PICK list \in FirstOf(ToReport) :
          /\ agenda' = [pc |-> "send", list |-> list, mark |-> pref.summary]
          /\ IF pref.summary
             THEN /\ reported' = reported \cup ToReport
                  /\ untold' = untold \cup (ToReport \ list)
             ELSE UNCHANGED <<reported, untold>>
    BY <1>5 DEF BuildAgenda
  <2>3. list \subseteq Reminders
    BY <2>1 DEF FirstOf
  <2>4. pref.summary \in BOOLEAN
    BY DEF TypeOK, Preference
  <2>5. agenda' \in Agenda /\ agenda'.pc = "send"
    BY <2>2, <2>3, <2>4 DEF Agenda
  <2>6. reported' \subseteq Reminders /\ untold' \subseteq Reminders
    BY <2>1, <2>2 DEF TypeOK
  <2> QED BY <1>5, <2>5, <2>6 DEF BuildAgenda, TypeOK, boundVars
<1>6. ASSUME SendAgenda PROVE TypeOK'
  <2>1. told' \in [Reminders -> Nat]
    BY <1>6 DEF SendAgenda, TypeOK
  <2> QED BY <1>2, <1>6, <2>1 DEF SendAgenda, TypeOK, boundVars
<1>7. ASSUME AgendaFails PROVE TypeOK'
  BY <1>2, <1>7 DEF AgendaFails, TypeOK, Unsent, Agenda
<1> QED BY <1>3, <1>4, <1>5, <1>6, <1>7

\* The reminders', the clock's and the process's steps keep the types.
LEMMA EnvironmentType ==
    ASSUME TypeOK
    PROVE  /\ \A r \in Reminders : GiveUp(r) \/ Reopen(r) => TypeOK'
           /\ Tick => TypeOK'
           /\ Crash => TypeOK'
           /\ Restart => (job = None => TypeOK')
<1>1. ASSUME NEW r \in Reminders, GiveUp(r) PROVE TypeOK'
  <2>1. told' \in [Reminders -> Nat]
    BY <1>1 DEF GiveUp, TypeOK
  <2> QED BY <1>1, <2>1 DEF GiveUp, TypeOK
<1>2. ASSUME NEW r \in Reminders, Reopen(r) PROVE TypeOK'
  BY <1>2 DEF Reopen, TypeOK, boundVars, noteVars
<1>3. ASSUME Tick PROVE TypeOK'
  <2>1. hour' \in 0..Day - 1
    BY <1>3, AgendaAssumption, SMT DEF Tick, TypeOK
  <2>2. /\ job' \in 0..Day \cup {None} /\ late' \in 0..Day - 1
        /\ job' # 0 => late' = 0
        /\ failures' \in Nat
    BY <1>3, AgendaAssumption, SMT DEF Tick, TypeOK, None
  <2> QED BY <1>3, <2>1, <2>2 DEF Tick, TypeOK, noteVars
<1>4. ASSUME Crash PROVE TypeOK'
  <2>1. Idle \in Agenda /\ Idle.list = {}
    BY DEF Idle, Agenda
  <2>2. job' \in 0..Day \cup {None} /\ late' \in 0..Day - 1 /\ late' = 0
    BY <1>4, AgendaAssumption, SMT DEF Crash, None
  <2>3. untold' \subseteq Reminders /\ crashes' \in Nat
    BY <1>4 DEF Crash, TypeOK, Unsent, Agenda
  <2> QED BY <1>4, <2>1, <2>2, <2>3 DEF Crash, TypeOK
<1>5. ASSUME Restart, job = None PROVE TypeOK'
  <2>1. Wanted(pref) => NextFire(pref.at) \in 1..Day
    BY NextFireType DEF TypeOK, Preference, Wanted
  <2>2. job' \in 0..Day \cup {None}
    BY <1>5, <2>1, AgendaAssumption, SMT DEF Restart, None
  <2>3. late = 0
    BY <1>5, SMT DEF TypeOK, None
  <2> QED BY <1>5, <2>2, <2>3 DEF Restart, TypeOK, boundVars, noteVars
<1> QED BY <1>1, <1>2, <1>3, <1>4, <1>5

-----------------------------------------------------------------------------
(* The invariant, and what is proved from it.                              *)

IInv == TypeOK /\ DownIsEmpty /\ JobFollowsPreference

\* A job that is set from the trigger is set for the row's hour.
LEMMA FreshJobFollows ==
    ASSUME TypeOK, Wanted(pref)
    PROVE  /\ NextFire(pref.at) # None
           /\ hour + NextFire(pref.at) \in {pref.at - Day, pref.at, pref.at + Day}
<1>1. pref.at \in Hours
  BY DEF TypeOK, Preference, Wanted
<1>2. hour \in 0..Day - 1
  BY DEF TypeOK
<1>3. /\ NextFire(pref.at) \in 1..Day
      /\ hour + NextFire(pref.at) \in {pref.at, pref.at + Day}
  BY <1>1, <1>2, NextFireType
<1>4. NextFire(pref.at) # None
  BY <1>3, AgendaAssumption DEF None
<1> QED BY <1>3, <1>4

\* A day's run sets the job for the same hour of the next day.
LEMMA NextTimeFollows ==
    ASSUME TypeOK, JobFollowsPreference, job = 0, NextTime,
           UNCHANGED <<pref, bot, hour, up, behind>>
    PROVE  JobFollowsPreference'
<1> SUFFICES ASSUME up, bot = "idle", ~behind
             PROVE  /\ Wanted(pref)
                    /\ job' # None
                    /\ hour + job' - late' \in {pref.at - Day, pref.at, pref.at + Day}
  BY DEF JobFollowsPreference, Wanted
<1>1. Wanted(pref) /\ hour - late \in {pref.at - Day, pref.at, pref.at + Day}
  BY DEF JobFollowsPreference, None, TypeOK
<1>2. pref.at \in 0..Day - 1
  BY <1>1, AgendaAssumption DEF TypeOK, Preference, Wanted
<1> QED BY <1>1, <1>2, AgendaAssumption DEF NextTime, TypeOK, None

\* The clock moves hour and job together.
LEMMA TickFollows ==
    ASSUME TypeOK, JobFollowsPreference, Tick
    PROVE  JobFollowsPreference'
<1> SUFFICES ASSUME up, bot = "idle", ~behind
             PROVE  IF Wanted(pref)
                    THEN /\ job' # None
                         /\ hour' + job' - late' \in
                                {pref.at - Day, pref.at, pref.at + Day}
                    ELSE job' = None
  BY DEF JobFollowsPreference, Wanted, Tick, noteVars
<1>1. CASE ~Wanted(pref)
  BY <1>1 DEF JobFollowsPreference, Tick, TypeOK, None
<1>2. CASE Wanted(pref)
  <2>1. /\ job # None
        /\ hour + job - late \in {pref.at - Day, pref.at, pref.at + Day}
    BY <1>2 DEF JobFollowsPreference
  <2>2. pref.at \in 0..Day - 1
    BY <1>2, AgendaAssumption DEF TypeOK, Preference, Wanted
  <2>3. hour' = IF hour + 1 = Day THEN 0 ELSE hour + 1
    BY DEF Tick
  <2>4. /\ job' \in 0..Day /\ late' \in 0..Day - 1
        /\ late > 0 => job = 0
        /\ \/ job' = job - 1 /\ late' = late
           \/ job' = job /\ late' = late + 1 /\ job = 0
    BY <2>1, AgendaAssumption DEF Tick, TypeOK, None
  <2>5. /\ hour \in 0..Day - 1 /\ job \in 0..Day /\ late \in 0..Day - 1
        /\ Day \in Nat \ {0}
    BY <2>1, AgendaAssumption DEF TypeOK, None
  <2>0. job' # None
    BY <2>4, <2>5 DEF None
  <2>8. /\ hour \in Int /\ job \in Int /\ late \in Int /\ Day \in Int /\ 0 \in Int
        /\ hour' \in Int /\ job' \in Int /\ late' \in Int
    BY <2>3, <2>4, <2>5
  <2>9. (job' = job - 1 /\ late' = late) \/ (job' = job /\ late' = late + 1)
    BY <2>4
  <2>6. CASE hour + 1 = Day
    <3>0. hour' = hour + 1 - Day
      BY <2>3, <2>5, <2>6
    <3>1. hour' + job' - late' = hour + job - late - Day
      <4>1. CASE job' = job - 1 /\ late' = late
        BY <2>8, <3>0, <4>1
      <4>2. CASE job' = job /\ late' = late + 1
        BY <2>8, <3>0, <4>2
      <4> QED BY <2>9, <4>1, <4>2
    <3>2. hour + job - late # pref.at - Day
      BY <2>2, <2>4, <2>5, <2>6
    <3>3. hour + job - late = pref.at \/ hour + job - late = pref.at + Day
      BY <2>1, <3>2
    <3>4. hour' + job' - late' = pref.at - Day \/ hour' + job' - late' = pref.at
      BY <2>2, <2>5, <3>1, <3>3
    <3> QED BY <1>2, <2>0, <3>4
  <2>7. CASE hour + 1 # Day
    <3>0. hour' = hour + 1
      BY <2>3, <2>5, <2>7
    <3>1. hour' + job' - late' = hour + job - late
      <4>1. CASE job' = job - 1 /\ late' = late
        BY <2>8, <3>0, <4>1
      <4>2. CASE job' = job /\ late' = late + 1
        BY <2>8, <3>0, <4>2
      <4> QED BY <2>9, <4>1, <4>2
    <3> QED BY <1>2, <2>0, <2>1, <3>1, Zenon
  <2> QED BY <2>6, <2>7
<1> QED BY <1>1, <1>2

\* No step breaks the agreement of job and row, nor the types.
LEMMA StepKeepsIInv ==
    ASSUME IInv, [Next]_vars
    PROVE  IInv'
<1> USE DEF IInv
<1>1. ASSUME NEW patch \in Patch, SetPreferences(patch) PROVE IInv'
  BY <1>1, BotType DEF SetPreferences, DownIsEmpty, JobFollowsPreference
<1>2. CASE RescheduleAgenda
  <2>1. TypeOK'
    BY <1>2, BotType
  <2>2. JobFollowsPreference'
    BY <1>2, FreshJobFollows, <2>1
       DEF RescheduleAgenda, JobFollowsPreference, boundVars, Wanted, TypeOK, None
  <2>3. DownIsEmpty'
    BY <1>2 DEF RescheduleAgenda, DownIsEmpty, boundVars
  <2> QED BY <2>1, <2>2, <2>3
<1>3. CASE SetPreferencesFails
  BY <1>3, BotType DEF SetPreferencesFails, DownIsEmpty, JobFollowsPreference
<1>4. CASE DispatchAgenda
  <2>1. JobFollowsPreference'
    BY <1>4, NextTimeFollows DEF DispatchAgenda, noteVars
  <2>2. DownIsEmpty'
    BY <1>4 DEF DispatchAgenda, DownIsEmpty, None, noteVars
  <2> QED BY <1>4, <2>1, <2>2, AgendaType
<1>5. CASE DispatchDrop
  <2>1. JobFollowsPreference'
    BY <1>5, NextTimeFollows DEF DispatchDrop, noteVars
  <2>2. DownIsEmpty'
    BY <1>5 DEF DispatchDrop, DownIsEmpty, None, noteVars
  <2> QED BY <1>5, <2>1, <2>2, AgendaType
<1>6. CASE BuildAgenda
  <2>1. /\ agenda.pc = "started"
        /\ UNCHANGED <<pref, bot, job, late, hour, up, behind>>
    BY <1>6 DEF BuildAgenda, boundVars
  <2>2. up
    BY <2>1 DEF DownIsEmpty, Idle
  <2>3. TypeOK'
    BY <1>6, AgendaType
  <2> QED BY <2>1, <2>2, <2>3 DEF DownIsEmpty, JobFollowsPreference, Wanted
<1>7. CASE SendAgenda
  BY <1>7, AgendaType
     DEF SendAgenda, DownIsEmpty, JobFollowsPreference, Wanted, boundVars
<1>8. CASE AgendaFails
  BY <1>8, AgendaType
     DEF AgendaFails, DownIsEmpty, JobFollowsPreference, Wanted
<1>9. ASSUME NEW r \in Reminders, GiveUp(r) \/ Reopen(r) PROVE IInv'
  BY <1>9, EnvironmentType
     DEF GiveUp, Reopen, DownIsEmpty, JobFollowsPreference, Wanted, boundVars,
         noteVars
<1>10. CASE Tick
  <2>1. DownIsEmpty'
    BY <1>10 DEF Tick, DownIsEmpty, None, noteVars
  <2> QED BY <1>10, <2>1, TickFollows, EnvironmentType
<1>11. CASE Crash
  BY <1>11, EnvironmentType DEF Crash, DownIsEmpty, JobFollowsPreference
<1>12. CASE Restart
  <2>1. TypeOK'
    BY <1>12, EnvironmentType DEF Restart, DownIsEmpty
  <2>2. late = 0
    BY <1>12 DEF Restart, DownIsEmpty, TypeOK, None
  <2>3. JobFollowsPreference'
    <3>1. /\ UNCHANGED <<pref, late, hour>>
          /\ job' = IF Wanted(pref) THEN NextFire(pref.at) ELSE None
      BY <1>12 DEF Restart
    <3>2. CASE Wanted(pref)
      <4>1. hour' + job' - late' = hour + NextFire(pref.at)
        <5>1. NextFire(pref.at) \in 1..Day
          BY <3>2, NextFireType DEF TypeOK, Preference, Wanted
        <5> QED BY <2>2, <3>1, <3>2, <5>1, AgendaAssumption DEF TypeOK
      <4> QED BY <3>1, <3>2, <4>1, FreshJobFollows
              DEF JobFollowsPreference, Wanted
    <3>3. CASE ~Wanted(pref)
      BY <3>1, <3>3 DEF JobFollowsPreference, Wanted
    <3> QED BY <3>2, <3>3
  <2>4. DownIsEmpty'
    BY <1>12 DEF Restart, DownIsEmpty
  <2> QED BY <2>1, <2>3, <2>4
<1>13. CASE UNCHANGED vars
  BY <1>13
     DEF vars, boundVars, noteVars, TypeOK, DownIsEmpty, JobFollowsPreference,
         Wanted
<1> QED BY <1>1, <1>2, <1>3, <1>4, <1>5, <1>6, <1>7, <1>8, <1>9, <1>10, <1>11,
           <1>12, <1>13 DEF Next

\* The invariant holds of every behaviour.
LEMMA Invariant == Spec => []IInv
<1>1. Init => IInv
  <2>1. Init => DownIsEmpty /\ JobFollowsPreference
    BY DEF Init, DownIsEmpty, JobFollowsPreference, Wanted, DefaultPreference
  <2> QED BY <2>1, InitType DEF IInv
<1> QED BY <1>1, StepKeepsIInv, PTL DEF Spec

\* Every reachable state has the declared shape, for any day, hours, reminders
\* and bounds.
THEOREM TypeCorrect == Spec => []TypeOK
BY Invariant, PTL DEF IInv

\* Job and preference row agree whenever no handler is between its commit and
\* the job (set_preferences.py:31-35), for any length of the day.
THEOREM JobAgrees == Spec => []JobFollowsPreference
BY Invariant, PTL DEF IInv

-----------------------------------------------------------------------------
(* What becomes of a miss.                                                 *)

MissInv == ToldOnce /\ ToldIsReported /\ ReportedMeansTaken

\* Marking before sending: the invariant about misses is inductive.
LEMMA StepKeepsMissInv ==
    ASSUME TypeOK, MissInv, [Next]_vars
    PROVE  MissInv'
<1> USE DEF MissInv
<1>1. CASE /\ UNCHANGED <<missed, reported, told, untold>>
           /\ agenda' = agenda \/ (~Busy /\ agenda'.list = {})
  <2>1. agenda' # agenda => agenda.list = {}
    BY <1>1 DEF Busy, TypeOK
  <2> QED BY <1>1, <2>1 DEF ToldOnce, ToldIsReported, ReportedMeansTaken
<1>2. CASE BuildAgenda
  <2>1. PICK list \in FirstOf(ToReport) :
          /\ agenda' = [pc |-> "send", list |-> list, mark |-> pref.summary]
          /\ IF pref.summary
             THEN /\ reported' = reported \cup ToReport
                  /\ untold' = untold \cup (ToReport \ list)
             ELSE UNCHANGED <<reported, untold>>
    BY <1>2 DEF BuildAgenda
  <2>2. list \subseteq ToReport /\ UNCHANGED <<told, missed>> /\ agenda.list = {}
    BY <1>2 DEF FirstOf, BuildAgenda, TypeOK
  <2>3. agenda'.list = list /\ agenda'.mark = pref.summary
    BY <2>1
  <2>4. CASE pref.summary
    <3>1. ToReport = missed \ reported
      BY <2>4 DEF ToReport
    <3>2. \A r \in Reminders : r \notin reported => told[r] = 0
      BY DEF ToldIsReported, TypeOK
    <3> QED BY <2>1, <2>2, <2>3, <2>4, <3>1, <3>2
            DEF ToldOnce, ToldIsReported, ReportedMeansTaken
  <2>5. CASE ~pref.summary
    BY <2>1, <2>2, <2>3, <2>5 DEF ToldOnce, ToldIsReported, ReportedMeansTaken
  <2> QED BY <2>4, <2>5
<1>3. CASE SendAgenda
  <2>1. /\ UNCHANGED <<missed, reported, untold>> /\ agenda'.list = {}
        /\ told' = [r \in Reminders |-> IF agenda.mark /\ r \in agenda.list
                                        THEN told[r] + 1 ELSE told[r]]
    BY <1>3 DEF SendAgenda, Idle
  <2>2. \A r \in Reminders :
          told'[r] = IF agenda.mark /\ r \in agenda.list THEN 1 ELSE told[r]
    BY <2>1 DEF ToldIsReported, TypeOK
  <2> QED BY <2>1, <2>2 DEF ToldOnce, ToldIsReported, ReportedMeansTaken, TypeOK
<1>4. CASE AgendaFails \/ Crash
  <2>1. UNCHANGED <<missed, reported, told>> /\ agenda'.list = {}
        /\ untold' = untold \cup Unsent
    BY <1>4 DEF AgendaFails, Crash, Idle
  <2> QED BY <2>1 DEF ToldOnce, ToldIsReported, ReportedMeansTaken, Unsent
<1>5. ASSUME NEW r \in Reminders, GiveUp(r) PROVE MissInv'
  <2>1. /\ missed' = missed \cup {r} /\ reported' = reported \ {r}
        /\ told' = [told EXCEPT ![r] = 0] /\ untold' = untold \ {r}
        /\ agenda' = agenda /\ r \notin agenda.list
    BY <1>5 DEF GiveUp
  <2>2. /\ told'[r] = 0
        /\ \A q \in Reminders \ {r} : told'[q] = told[q]
    BY <2>1 DEF TypeOK
  <2> QED BY <2>1, <2>2 DEF ToldOnce, ToldIsReported, ReportedMeansTaken
<1>6. ASSUME NEW r \in Reminders, Reopen(r) PROVE MissInv'
  BY <1>6 DEF Reopen, ToldOnce, ToldIsReported, ReportedMeansTaken, noteVars
<1>7. ASSUME \/ \E patch \in Patch : SetPreferences(patch)
             \/ RescheduleAgenda \/ SetPreferencesFails
             \/ DispatchAgenda \/ DispatchDrop \/ Tick \/ Restart
             \/ UNCHANGED vars
      PROVE  MissInv'
  BY <1>1, <1>7
     DEF SetPreferences, RescheduleAgenda, SetPreferencesFails, DispatchAgenda,
         DispatchDrop, Tick, Restart, vars, noteVars, Idle
<1> QED BY <1>2, <1>3, <1>4, <1>5, <1>6, <1>7 DEF Next

\* The invariant about misses holds of every behaviour.
LEMMA MissInvariant == Spec => []MissInv
<1>1. Init => MissInv
  BY DEF Init, MissInv, ToldOnce, ToldIsReported, ReportedMeansTaken, Idle
<1> QED BY <1>1, StepKeepsMissInv, TypeCorrect, PTL DEF Spec

\* The summary tells of a miss at most once, through failures and crashes.
THEOREM SummaryTellsOnce == Spec => []ToldOnce
BY MissInvariant, PTL DEF MissInv

\* No miss is marked as reported but by an agenda that takes it on.
THEOREM MarkedByAnAgenda == Spec => []ReportedMeansTaken
BY MissInvariant, PTL DEF MissInv
=============================================================================
