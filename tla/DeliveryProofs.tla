--------------------------- MODULE DeliveryProofs ---------------------------
(***************************************************************************)
(* What Delivery keeps for every number of updates, texts, offsets and     *)
(* failures: its types, the guard's promises and the chains.               *)
(***************************************************************************)
EXTENDS Delivery, SequenceTheorems, WellFoundedInduction, TLAPS

LEMMA MinOfTwo ==
    ASSUME NEW a \in Nat, NEW b \in Nat
    PROVE  /\ Min({a, b}) \in {a, b} /\ Min({a, b}) <= a /\ Min({a, b}) <= b
<1>1. \E x \in {a, b} : \A y \in {a, b} : x <= y
  <2>1. CASE a <= b BY <2>1
  <2>2. CASE ~(a <= b) BY <2>2
  <2> QED BY <2>1, <2>2
<1>2. /\ Min({a, b}) \in {a, b}
      /\ \A y \in {a, b} : Min({a, b}) <= y
  BY <1>1, Zenon DEF Min
<1> QED BY <1>2, Zenon

LEMMA MaxOfTwo ==
    ASSUME NEW a \in Nat, NEW b \in Nat
    PROVE  /\ Max({a, b}) \in {a, b} /\ a <= Max({a, b}) /\ b <= Max({a, b})
<1>1. \E x \in {a, b} : \A y \in {a, b} : x >= y
  <2>1. CASE a >= b BY <2>1
  <2>2. CASE ~(a >= b) BY <2>2
  <2> QED BY <2>1, <2>2
<1>2. /\ Max({a, b}) \in {a, b}
      /\ \A y \in {a, b} : Max({a, b}) >= y
  BY <1>1, Zenon DEF Max
<1> QED BY <1>2, SMT

\* The wait after any error is a number.
LEMMA WaitIsNumber ==
    ASSUME NEW kind \in Kinds, NEW n \in Nat
    PROVE  Wait(kind, n) \in Nat
<1> DEFINE byConflict == ConflictStep * n
           byRetry == Max({RetryFloor, RetryStep * n})
<1>1. byConflict \in Nat /\ RetryStep * n \in Nat
  BY PollingAssumption, SMT
<1>2. byRetry \in Nat
  BY <1>1, MaxOfTwo, PollingAssumption
<1>3. Min({ConflictCap, byConflict}) \in Nat /\ Min({RetryCap, byRetry}) \in Nat
  BY <1>1, <1>2, MinOfTwo, PollingAssumption
<1> QED BY <1>3, Zenon DEF Wait

-----------------------------------------------------------------------------
(* Types.                                                                  *)

LEMMA InitTyped == Init => TypeOK
BY PollingAssumption, DeliveryAssumption, ChainAssumption
   DEF Init, TypeOK, PollInit, ChainInit, Kinds, NoAttempts, Idle, Handler, Phases,
       NoUpdate, Working, Forgotten, SeenRecord, Answers, NoAnswer, None

\* The constants of handlers and guard, as TypeOK speaks of them.
LEMMA Members ==
    /\ Idle \in Handler /\ Forgotten \in SeenRecord
    /\ \A u \in Update : u.id \in Ids /\ u.id \in Nat /\ u # NoUpdate
    /\ \A u \in Update : IsPress(u) \/ u.says \in Texts
  BY DeliveryAssumption
     DEF Idle, Handler, Phases, NoUpdate, Update, Ids, None, IsPress, Button,
         Forgotten, SeenRecord, Answers, NoAnswer

\* What a table of the guard holds after each of its operations.
LEMMA TablesTyped ==
    ASSUME NEW Keys, NEW table \in [Keys -> SeenRecord], NEW key \in Keys,
           NEW t \in Nat, NEW answer \in Answers
    PROVE  /\ MarkCallback(table, key, t) \in [Keys -> SeenRecord]
           /\ MarkMessage(table, key, t) \in [Keys -> SeenRecord]
           /\ Remember(table, key, t, answer) \in [Keys -> SeenRecord]
           /\ Cleanup(table, t) \in [Keys -> SeenRecord]
  BY GuardAssumption, Members
     DEF MarkCallback, MarkMessage, Remember, Cleanup, SeenRecord, Answers, NoAnswer

LEMMA SendTyped == TypeOK /\ (\E says \in Texts \cup {Button} : Send(says)) => TypeOK'
<1> SUFFICES ASSUME TypeOK, NEW says \in Texts \cup {Button}, Send(says) PROVE TypeOK'
  OBVIOUS
<1>1. [id |-> sent', says |-> says] \in Update
  BY DeliveryAssumption DEF Send, TypeOK, Update, Ids
<1>2. inbox' \in Seq(Update) /\ fetched' \in 0..Len(inbox')
  BY <1>1 DEF Send, TypeOK
<1> QED
  BY <1>2 DEF Send, TypeOK, pollVars, chainVars, noteVars, Idle, Working

\* What the updater hands over are updates, and Telegram keeps them.
LEMMA FetchTyped == TypeOK /\ (FetchBatch \/ FetchAgain) => TypeOK'
<1> SUFFICES ASSUME TypeOK, FetchBatch \/ FetchAgain PROVE TypeOK'
  OBVIOUS
<1>1. NotFetched \in Seq(Update)
  BY SubSeqProperties DEF NotFetched, TypeOK
<1>2. PICK batch \in Seq(Update) : Fetch(batch)
  <2>1. CASE FetchBatch
    BY <1>1, <2>1 DEF FetchBatch
  <2>2. CASE FetchAgain
    <3>1. last \in Update
      BY <2>2 DEF FetchAgain, TypeOK
    <3>2. <<last>> \o NotFetched \in Seq(Update)
      BY <1>1, <3>1
    <3> QED BY <2>2, <3>2 DEF FetchAgain
  <2> QED BY <2>1, <2>2
<1>3. /\ inbox' \in Seq(Update) /\ queue' \in Seq(Update)
      /\ fetched' \in 0..Len(inbox')
  BY <1>2 DEF Fetch, TypeOK
<1>4. redelivered' \in Nat
  BY DEF FetchBatch, FetchAgain, TypeOK
<1> QED BY <1>2, <1>3, <1>4 DEF Fetch, TypeOK, Working, pollVars, chainVars, mailVars, noteVars

LEMMA GuardTyped == TypeOK /\ GuardStep => TypeOK'
<1> SUFFICES ASSUME TypeOK, NEW u \in Update,
                    HearText(u) \/ RefuseText(u) \/ HearPress(u) \/ RefusePress(u)
             PROVE  TypeOK'
  BY DEF GuardStep
<1>1. Take(u)
  BY DEF HearText, RefuseText, HearPress, RefusePress
<1>2. /\ queue' \in Seq(Update) /\ last' \in Update \cup {NoUpdate}
      /\ heard' \subseteq Ids
      /\ UNCHANGED <<now, pollVars, chainVars, inbox, fetched, usedVars, told, mute,
                     dropped>>
  BY <1>1, Members DEF Take, TypeOK
<1>3. bot' \in Handler /\ (bot' = Idle \/ bot'.update \in Update) /\ bot'.pc # "schedule"
  BY <1>1, Members DEF HearText, RefuseText, HearPress, RefusePress, Begin, Take,
     Handler, Phases, Idle
<1>4. callbacks' \in [Ids -> SeenRecord] /\ pressed' \in [Ids -> Nat \cup {None}]
  <2>1. MarkCallback(callbacks, u.id, now) \in [Ids -> SeenRecord]
    BY Members, TablesTyped DEF TypeOK, Answers
  <2> QED
    BY <2>1, Members DEF HearText, RefuseText, HearPress, RefusePress, TypeOK
<1>5. messages' \in [Texts -> SeenRecord] /\ begun' \in [Texts -> Nat \cup {None}]
  <2>1. CASE HearText(u)
    <3>1. u.says \in Texts
      BY <2>1, Members DEF HearText
    <3>2. MarkMessage(messages, u.says, now) \in [Texts -> SeenRecord]
      BY <3>1, TablesTyped DEF TypeOK, Answers
    <3> QED BY <2>1, <3>1, <3>2 DEF HearText, TypeOK
  <2>2. CASE ~HearText(u)
    BY <2>2 DEF RefuseText, HearPress, RefusePress, TypeOK
  <2> QED BY <2>1, <2>2
<1> QED BY <1>2, <1>3, <1>4, <1>5 DEF TypeOK, pollVars, chainVars, mailVars, usedVars, Working

\* The handler goes to another phase.
LEMMA GotoTyped ==
    ASSUME TypeOK, NEW pc \in Phases, Goto(pc)
    PROVE  bot' \in Handler /\ bot'.update = bot.update /\ bot'.pc = pc
  BY DEF TypeOK, Handler, Goto

\* A handler that is doing something has an update.
LEMMA BusyHasUpdate ==
    ASSUME TypeOK, bot.pc # "idle"
    PROVE  bot.update \in Update /\ bot.update.id \in Ids
  BY Members DEF TypeOK, Idle

LEMMA PressTyped == TypeOK /\ (AnswerQuery \/ AnswerFails \/ PressWork) => TypeOK'
<1> SUFFICES ASSUME TypeOK, AnswerQuery \/ AnswerFails \/ PressWork PROVE TypeOK'
  OBVIOUS
<1>0. bot.update \in Update /\ bot.update.id \in Ids
  BY BusyHasUpdate DEF AnswerQuery, AnswerFails, PressWork, Working
<1>1. CASE AnswerQuery
  <2>1. bot' \in Handler /\ bot'.update = bot.update /\ bot'.pc = "work"
    BY <1>1, GotoTyped DEF AnswerQuery, Phases
  <2> QED
    BY <1>0, <1>1, <2>1 DEF AnswerQuery, TypeOK, Working, pollVars, chainVars, mailVars, usedVars, noteVars
<1>2. CASE AnswerFails
  BY <1>0, <1>2, Members DEF AnswerFails, TypeOK, Working, pollVars, chainVars, mailVars, Idle
<1>3. CASE PressWork
  <2>1. bot' \in Handler /\ bot'.update = bot.update /\ bot'.pc \in {"reply", "decline"}
    BY <1>3, GotoTyped DEF PressWork, Phases
  <2> QED
    BY <1>0, <1>3, <2>1 DEF PressWork, TypeOK, Working, pollVars, chainVars, mailVars, usedVars, noteVars
<1> QED BY <1>1, <1>2, <1>3

\* A press is told under pc, and the table is as remembered there.
LEMMA TellTyped ==
    ASSUME TypeOK, ReplyToPress
    PROVE  /\ IsPress(bot.update) /\ bot.update \in Update /\ bot.update.id \in Ids
           /\ bot' = Idle
           /\ told' = told \cup {bot.update.id}
           /\ \/ callbacks' = callbacks /\ pressed' = pressed /\ bot.pc = "decline"
              \/ /\ \E answer \in Answers : callbacks' = Answer(answer)
                 /\ pressed' = pressed \/ pressed' = [pressed EXCEPT ![bot.update.id] = now]
           /\ callbacks' \in [Ids -> SeenRecord]
           /\ pressed' = IF callbacks' = callbacks THEN pressed
                         ELSE [pressed EXCEPT ![bot.update.id] = now]
           /\ UNCHANGED <<now, pollVars, chainVars, mailVars, last, messages, usedVars,
                          heard, begun, mute, dropped>>
<1>0. bot.update \in Update /\ bot.update.id \in Ids
  BY BusyHasUpdate DEF ReplyToPress, TellPress, Working
<1>1. \A answer \in Answers : Answer(answer) \in [Ids -> SeenRecord]
  BY <1>0, TablesTyped DEF TypeOK, Answer
<1>2. "result" \in Answers /\ "sorry" \in Answers /\ callbacks \in [Ids -> SeenRecord]
  BY DEF Answers, TypeOK
<1> QED BY <1>0, <1>1, <1>2 DEF ReplyToPress, TellPress, Working

LEMMA ReplyTyped == TypeOK /\ ReplyToPress => TypeOK'
<1> SUFFICES ASSUME TypeOK, ReplyToPress PROVE TypeOK'
  OBVIOUS
<1>1. /\ told' \subseteq Ids /\ pressed' \in [Ids -> Nat \cup {None}]
      /\ callbacks' \in [Ids -> SeenRecord] /\ bot' = Idle
      /\ UNCHANGED <<now, pollVars, chainVars, mailVars, last, messages, usedVars,
                     heard, begun, mute, dropped>>
  BY TellTyped DEF TypeOK
<1> QED BY <1>1, Members DEF TypeOK, Working, pollVars, chainVars, mailVars, usedVars, Idle

\* A set of numbers that is not empty has a least one.
LEMMA LeastNumber ==
    ASSUME NEW S \in SUBSET Nat, S # {}
    PROVE  \E x \in S : \A y \in S : x <= y
<1>1. PICK x \in S : \A y \in S : ~(<<y, x>> \in OpToRel(<, Nat))
  BY NatLessThanWellFounded, WFMin
<1>2. \A y \in S : ~(y < x)
  BY <1>1 DEF OpToRel
<1> QED BY <1>2

\* What is still to schedule are places of the chain, of which one is first.
LEMMA ToScheduleMin ==
    /\ Places \subseteq Nat
    /\ ToSchedule # {} =>
           /\ Min(ToSchedule) \in ToSchedule /\ Min(ToSchedule) \in Places
           /\ \A i \in ToSchedule : Min(ToSchedule) <= i
<1>1. Places \in SUBSET Nat /\ Places = 1..Len(Offsets) /\ Len(Offsets) \in Nat
  BY ChainAssumption DEF Places
<1>2. ToSchedule \subseteq Places
  BY DEF ToSchedule, Active
<1>3. ASSUME ToSchedule # {} PROVE \E x \in ToSchedule : \A y \in ToSchedule : x <= y
  <2> DEFINE S == ToSchedule
  <2>1. S \subseteq Nat /\ S # {}
    BY <1>1, <1>2, <1>3
  <2> QED BY <2>1, LeastNumber
<1> QED BY <1>1, <1>2, <1>3, Zenon DEF Min

\* The handlers of texts, but for the making of a chain.
LEMMA TextTyped ==
    TypeOK /\ (OtherWork \/ ScheduleNext \/ ChainScheduled \/ ReplyToText) => TypeOK'
<1> SUFFICES ASSUME TypeOK, OtherWork \/ ScheduleNext \/ ChainScheduled \/ ReplyToText
             PROVE  TypeOK'
  OBVIOUS
<1>1. CASE OtherWork \/ ChainScheduled
  <2>1. bot' \in Handler /\ bot'.update = bot.update /\ bot'.pc = "reply"
    BY <1>1, GotoTyped DEF OtherWork, ChainScheduled, Phases
  <2>2. bot.update \in Update
    BY <1>1, BusyHasUpdate DEF OtherWork, ChainScheduled, Working
  <2> QED
    BY <1>1, <2>1, <2>2 DEF OtherWork, ChainScheduled, TypeOK, Working, pollVars, chainVars, mailVars,
       usedVars, noteVars
<1>2. CASE ScheduleNext
  <2>1. bot.update \in Update /\ Len(chains) \in DOMAIN chains
    <3>1. Working("schedule") /\ bot.update \in Update
      BY <1>2, BusyHasUpdate DEF ScheduleNext, Working
    <3>2. chains \in Seq(Chain) /\ chains # <<>>
      BY <3>1 DEF TypeOK
    <3> QED BY <3>1, <3>2
  <2>2. Min(ToSchedule) \in Places /\ Min(ToSchedule) \in Nat
    BY <1>2, ToScheduleMin, Zenon DEF ScheduleNext
  <2>3. bot' \in Handler /\ bot'.update = bot.update /\ bot'.pc = "schedule"
    <3> DEFINE n == Min(ToSchedule) + 1
    <3>1. n \in Nat
      BY <2>2
    <3>2. bot' = [bot EXCEPT !.next = n] /\ bot.pc = "schedule"
      BY <1>2, Zenon DEF ScheduleNext, Working
    <3>3. bot \in Handler
      BY DEF TypeOK
    <3> HIDE DEF n
    <3> QED BY <3>1, <3>2, <3>3 DEF Handler
  <2>4. jobs' \subseteq (DOMAIN chains) \X Places
    BY <1>2, <2>1, <2>2 DEF ScheduleNext, ScheduleRow, TypeOK
  <2>5. /\ chains # <<>>
        /\ UNCHANGED <<now, pollVars, chains, asked, stray, mailVars, last, callbacks, messages,
                       usedVars, noteVars>>
    BY <1>2 DEF ScheduleNext, ScheduleRow, TypeOK, Working
  <2>6. /\ bot' \in Handler /\ bot'.update \in Update
        /\ bot'.pc = "schedule" => chains' # <<>>
    BY <2>1, <2>3, <2>5
  <2> QED BY <2>4, <2>5, <2>6 DEF TypeOK, Working, pollVars, mailVars, usedVars, noteVars
<1>3. CASE ReplyToText
  BY <1>3, Members DEF ReplyToText, TypeOK, Working, pollVars, chainVars, mailVars, usedVars, noteVars, Idle
<1> QED BY <1>1, <1>2, <1>3

\* A chain that is made has a row for every offset ahead.
LEMMA CreateTyped ==
    ASSUME TypeOK, NEW t \in Nat, CreateChain(t)
    PROVE  /\ chains' \in Seq(Chain) /\ asked' \in Seq(Nat)
           /\ Len(asked') = Len(chains') /\ chains' # <<>>
           /\ Len(chains') = Len(chains) + 1
           /\ DOMAIN chains \subseteq DOMAIN chains'
           /\ jobs' = jobs /\ stray' = stray
<1> DEFINE new == [i \in Places |-> IF i \in Ahead(t) THEN "active" ELSE "none"]
<1>1. new \in Chain
  BY DEF Chain, Statuses
<1>2. /\ chains' = Append(chains, new) /\ asked' = Append(asked, t)
      /\ jobs' = jobs /\ stray' = stray
  BY DEF CreateChain
<1> HIDE DEF new
<1>3. chains \in Seq(Chain) /\ asked \in Seq(Nat) /\ Len(asked) = Len(chains)
  BY DEF TypeOK
<1>4. /\ chains' \in Seq(Chain) /\ Len(chains') = Len(chains) + 1
      /\ DOMAIN chains = 1..Len(chains) /\ DOMAIN chains' = 1..Len(chains')
      /\ Len(chains) \in Nat
  BY <1>1, <1>2, <1>3
<1>5. asked' \in Seq(Nat) /\ Len(asked') = Len(asked) + 1
  BY <1>2, <1>3
<1>6. chains' # <<>>
  BY <1>4
<1> QED BY <1>2, <1>3, <1>4, <1>5, <1>6

LEMMA MakeTyped == TypeOK /\ MakeChain => TypeOK'
<1> SUFFICES ASSUME TypeOK, MakeChain PROVE TypeOK'
  OBVIOUS
<1>0. bot.update \in Update /\ now \in Nat
  BY BusyHasUpdate DEF MakeChain, Working, TypeOK
<1>1. UNCHANGED <<now, pollVars, mailVars, last, callbacks, messages, usedVars, noteVars>>
  BY DEF MakeChain
<1>2. CASE Ahead(now) = {}
  <2>1. Goto("reply") /\ UNCHANGED chainVars
    BY <1>2 DEF MakeChain
  <2>2. bot' \in Handler /\ bot'.update = bot.update /\ bot'.pc = "reply"
    BY <2>1, GotoTyped DEF Phases
  <2>3. bot' \in Handler /\ bot'.update \in Update /\ bot'.pc # "schedule"
    BY <1>0, <2>2
  <2> QED
    BY <1>1, <2>1, <2>3 DEF TypeOK, Working, pollVars, chainVars, mailVars, usedVars, noteVars
<1>3. CASE Ahead(now) # {}
  <2>1. Goto("schedule") /\ CreateChain(now)
    BY <1>3 DEF MakeChain
  <2>2. bot' \in Handler /\ bot'.update = bot.update
    BY <2>1, GotoTyped DEF Phases
  <2>3. /\ chains' \in Seq(Chain) /\ asked' \in Seq(Nat)
        /\ Len(asked') = Len(chains') /\ chains' # <<>>
        /\ DOMAIN chains \subseteq DOMAIN chains'
        /\ jobs' = jobs /\ stray' = stray
    BY <1>0, <2>1, CreateTyped
  <2>4. /\ jobs' \subseteq (DOMAIN chains') \X Places
        /\ stray' \subseteq (DOMAIN chains') \X Places
    BY <2>3 DEF TypeOK
  <2> QED
    BY <1>0, <1>1, <2>2, <2>3, <2>4 DEF TypeOK, Working, pollVars, mailVars, usedVars, noteVars
<1> QED BY <1>2, <1>3

\* The rows that a failing handler leaves behind are rows.
LEMMA LeaveTyped ==
    ASSUME TypeOK, Working("schedule"), LeaveRows(Len(chains), bot.next)
    PROVE  /\ stray' \subseteq (DOMAIN chains) \X Places
           /\ stray \subseteq stray'
           /\ UNCHANGED <<chains, jobs, asked>>
<1>1. Len(chains) \in DOMAIN chains
  BY DEF TypeOK
<1>2. Active(Len(chains)) \subseteq Places
  BY DEF Active
<1> QED BY <1>1, <1>2 DEF LeaveRows, TypeOK

LEMMA FailTyped == TypeOK /\ (WorkFails \/ ApologyFails) => TypeOK'
<1> SUFFICES ASSUME TypeOK, WorkFails \/ ApologyFails PROVE TypeOK'
  OBVIOUS
<1>0. bot.update \in Update /\ bot.update.id \in Ids
  BY BusyHasUpdate DEF WorkFails, ApologyFails, Working
<1>1. CASE WorkFails
  <2>1. bot' \in Handler /\ bot'.update = bot.update /\ bot'.pc = "sorry"
    BY <1>1, GotoTyped DEF WorkFails, Phases
  <2>2. /\ failures' \in Nat
        /\ UNCHANGED <<now, pollVars, mailVars, last, callbacks, messages, sent,
                       redelivered, crashes, noteVars>>
    BY <1>1 DEF WorkFails, TypeOK
  <2>3. /\ stray' \subseteq (DOMAIN chains) \X Places
        /\ UNCHANGED <<chains, jobs, asked>>
    <3>1. CASE Working("schedule")
      BY <1>1, <3>1, LeaveTyped DEF WorkFails
    <3>2. CASE ~Working("schedule")
      BY <1>1, <3>2 DEF WorkFails, chainVars, TypeOK
    <3> QED BY <3>1, <3>2
  <2> QED BY <1>0, <2>1, <2>2, <2>3 DEF TypeOK, Working, pollVars, mailVars, noteVars
<1>2. CASE ApologyFails
  BY <1>0, <1>2, Members DEF ApologyFails, TypeOK, Working, pollVars, chainVars, mailVars, usedVars, Idle
<1> QED BY <1>1, <1>2

\* A row that has a job is a row, and the job's run changes at most it.
LEMMA RowTyped ==
    ASSUME TypeOK, NEW c \in DOMAIN chains, NEW i \in Places,
           RunRow(c, i, now) \/ RunRowFails(c, i, now) \/ DropRow(c, i, now)
    PROVE  /\ chains' \in Seq(Chain) /\ Len(chains') = Len(chains)
           /\ DOMAIN chains' = DOMAIN chains
           /\ chains' # <<>>
           /\ jobs' \subseteq (DOMAIN chains) \X Places
           /\ stray' \subseteq (DOMAIN chains) \X Places
           /\ asked' = asked
<1>1. /\ jobs' = jobs \ {<<c, i>>} /\ asked' = asked
      /\ stray' = stray \/ stray' = stray \cup {<<c, i>>}
  BY DEF RunRow, RunRowFails, DropRow
<1>2. chains' = chains \/ chains' = [chains EXCEPT ![c] = [chains[c] EXCEPT ![i] = "completed"]]
  BY DEF RunRow, RunRowFails, DropRow
<1>3. chains \in Seq(Chain) /\ chains[c] \in Chain
  BY DEF TypeOK
<1>4. [chains[c] EXCEPT ![i] = "completed"] \in Chain
  BY <1>3 DEF Chain, Statuses
<1>5. /\ chains' \in Seq(Chain) /\ Len(chains') = Len(chains)
      /\ DOMAIN chains' = DOMAIN chains /\ chains' # <<>>
  BY <1>2, <1>3, <1>4
<1> QED BY <1>1, <1>5 DEF TypeOK

LEMMA JobTyped ==
    ASSUME TypeOK, NEW c \in DOMAIN chains, NEW i \in Places,
           RunJob(c, i) \/ JobFails(c, i)
    PROVE  TypeOK'
<1>1. /\ UNCHANGED <<now, pollVars, handlerVars, sent, redelivered, crashes, noteVars>>
      /\ failures' \in Nat
      /\ RunRow(c, i, now) \/ RunRowFails(c, i, now) \/ DropRow(c, i, now)
  BY DEF RunJob, JobFails, TypeOK, usedVars
<1>2. /\ chains' \in Seq(Chain) /\ Len(chains') = Len(chains)
      /\ DOMAIN chains' = DOMAIN chains /\ chains' # <<>>
      /\ jobs' \subseteq (DOMAIN chains) \X Places
      /\ stray' \subseteq (DOMAIN chains) \X Places
      /\ asked' = asked
  BY <1>1, RowTyped
<1> QED BY <1>1, <1>2 DEF TypeOK, Working, pollVars, handlerVars, mailVars, noteVars

\* A wait begins, of some length.
LEMMA WaitBegins ==
    ASSUME TypeOK, NEW kind \in Kinds, PollFails(kind)
    PROVE  attempts' \in [Kinds -> Nat] /\ wake' \in Nat /\ loop' = "waiting"
<1>1. attempts \in [Kinds -> Nat] /\ now \in Nat
  BY DEF TypeOK
<1>2. attempts' \in [Kinds -> Nat] /\ attempts'[kind] \in Nat
  BY <1>1 DEF PollFails
<1>3. Wait(kind, attempts'[kind]) \in Nat
  BY <1>2, WaitIsNumber
<1>4. wake' = now + Wait(kind, attempts'[kind])
  BY DEF PollFails
<1> QED BY <1>1, <1>2, <1>3, <1>4 DEF PollFails

LEMMA StartTyped == TypeOK /\ (StartPolling \/ StartFails) => TypeOK'
<1> SUFFICES ASSUME TypeOK, StartPolling \/ StartFails PROVE TypeOK'
  OBVIOUS
<1>1. CASE StartPolling
  BY <1>1 DEF StartPolling, PollBegins, TypeOK, Working, chainVars, handlerVars, mailVars,
     usedVars, noteVars
<1>2. CASE StartFails
  <2>1. attempts' \in [Kinds -> Nat] /\ wake' \in Nat /\ loop' = "waiting"
    BY <1>2, WaitBegins DEF StartFails
  <2>2. failures' \in Nat
    BY <1>2 DEF StartFails, TypeOK
  <2> QED
    BY <1>2, <2>1, <2>2 DEF StartFails, TypeOK, Working, chainVars, handlerVars, mailVars,
       noteVars
<1> QED BY <1>1, <1>2

LEMMA LifeTyped == TypeOK /\ (Crash \/ RetryFails \/ Restart) => TypeOK'
<1> SUFFICES ASSUME TypeOK, Crash \/ RetryFails \/ Restart PROVE TypeOK'
  OBVIOUS
<1>1. CASE Crash \/ RetryFails
  <2>0. PollEnds /\ MemoryIsLost /\ crashes' \in Nat
    BY <1>1 DEF Crash, RetryFails, PollAgain, TypeOK
  <2>1. /\ queue' \in Seq(Update) /\ fetched' \in 0..Len(inbox) /\ inbox' = inbox
        /\ last' = last
    BY <2>0 DEF MemoryIsLost, TypeOK
  <2>2. /\ attempts' \in [Kinds -> Nat] /\ loop' = "down" /\ wake' = 0
    BY <2>0 DEF PollEnds, NoAttempts
  <2>3. /\ callbacks' \in [Ids -> SeenRecord] /\ messages' \in [Texts -> SeenRecord]
        /\ pressed' \in [Ids -> Nat \cup {None}] /\ begun' \in [Texts -> Nat \cup {None}]
    BY <2>0, Members DEF MemoryIsLost
  <2>4. /\ jobs' = {} /\ UNCHANGED <<chains, asked, stray>>
        /\ bot' = Idle
        /\ UNCHANGED <<now, sent, redelivered, failures, heard, told, mute>>
    BY <2>0 DEF MemoryIsLost, JobsGone
  <2>5. bot' \in Handler /\ bot'.pc # "schedule"
    BY <2>4, Members DEF Idle
  <2>6. dropped' \subseteq Ids
    <3>1. \A k \in DOMAIN queue : queue[k].id \in Ids
      BY Members DEF TypeOK
    <3> QED BY <2>0, <3>1 DEF MemoryIsLost, TypeOK
  <2> QED BY <2>0, <2>1, <2>2, <2>3, <2>4, <2>5, <2>6 DEF TypeOK, Working
<1>2. CASE Restart
  <2>1. /\ jobs' = ActiveRows /\ stray' = {} /\ UNCHANGED <<chains, asked>>
        /\ loop' = "starting"
        /\ UNCHANGED <<now, attempts, wake, handlerVars, usedVars, noteVars>>
    BY <1>2 DEF Restart, RestoreRows, PollStarts
  <2>2. jobs' \subseteq (DOMAIN chains) \X Places
    BY <2>1 DEF ActiveRows
  <2> QED BY <2>1, <2>2 DEF TypeOK, Working, handlerVars, mailVars, usedVars, noteVars
<1> QED BY <1>1, <1>2

LEMMA TickTyped == TypeOK /\ Tick => TypeOK'
<1> SUFFICES ASSUME TypeOK, Tick PROVE TypeOK'
  OBVIOUS
<1>1. /\ now' \in Nat /\ callbacks' = Cleanup(callbacks, now')
      /\ messages' = Cleanup(messages, now')
      /\ UNCHANGED <<pollVars, chainVars, mailVars, last, bot, usedVars, noteVars>>
  BY DEF Tick, TypeOK
<1>2. callbacks' \in [Ids -> SeenRecord] /\ messages' \in [Texts -> SeenRecord]
  BY <1>1, Members DEF TypeOK, Cleanup
<1> QED BY <1>1, <1>2 DEF TypeOK, Working, pollVars, chainVars, mailVars, usedVars, noteVars

LEMMA StutterTyped == TypeOK /\ UNCHANGED vars => TypeOK'
  BY DEF TypeOK, vars, pollVars, chainVars, handlerVars, mailVars, usedVars, noteVars, Working

\* The state keeps its shape.
THEOREM TypeCorrect == Spec => []TypeOK
<1>1. Init => TypeOK
  BY InitTyped
<1>2. TypeOK /\ [Next]_vars => TypeOK'
  <2> SUFFICES ASSUME TypeOK, [Next]_vars PROVE TypeOK'
    OBVIOUS
  <2>1. CASE UNCHANGED vars
    BY <2>1, StutterTyped
  <2>2. CASE \E says \in Texts \cup {Button} : Send(says)
    BY <2>2, SendTyped
  <2>3. CASE BotStep
    BY <2>3, GuardTyped, PressTyped, ReplyTyped, TextTyped, MakeTyped DEF BotStep
  <2>4. CASE AnswerFails
    BY <2>4, PressTyped
  <2>5. CASE WorkFails \/ ApologyFails
    BY <2>5, FailTyped
  <2>6. CASE JobStep \/ \E c \in DOMAIN chains, i \in Places : JobFails(c, i)
    BY <2>6, JobTyped DEF JobStep
  <2>7. CASE StartPolling \/ StartFails \/ FetchBatch \/ FetchAgain
    BY <2>7, StartTyped, FetchTyped
  <2>8. CASE Crash \/ RetryFails \/ Restart
    BY <2>8, LifeTyped
  <2>9. CASE Tick
    BY <2>9, TickTyped
  <2>10. CASE Horizon
    BY <2>10, StutterTyped DEF Horizon
  <2> QED BY <2>1, <2>2, <2>3, <2>4, <2>5, <2>6, <2>7, <2>8, <2>9, <2>10 DEF Next
<1> QED BY <1>1, <1>2, PTL DEF Spec

-----------------------------------------------------------------------------
(* The guard.                                                              *)

\* A press is remembered for its term from its latest beginning, and it is
\* being handled, or its user was told or could not be.
PressRemembered ==
    \A i \in Ids :
        /\ pressed[i] # None =>
               pressed[i] + CallbackTtl <= callbacks[i].until \/ pressed[i] + CallbackTtl <= now
        /\ callbacks[i].until > now =>
               i \in told \cup mute \/ (IsPress(bot.update) /\ bot.update.id = i)

\* A text is remembered for at most its term from its latest beginning.
TextRemembered ==
    \A x \in Texts :
        /\ begun[x] <= now
        /\ messages[x].until > now =>
               begun[x] # None /\ messages[x].until <= begun[x] + MessageTtl

GuardInvariant == PressRemembered /\ TextRemembered

LEMMA InitRemembered == Init => GuardInvariant
  BY DEF Init, GuardInvariant, PressRemembered, TextRemembered, Forgotten, None

\* Where neither clock nor tables move, it is enough that the handler keeps
\* its update or tells, or fails to tell, its user.
LEMMA TablesUnmoved ==
    ASSUME TypeOK, GuardInvariant,
           UNCHANGED <<now, callbacks, messages, pressed, begun>>,
           told \subseteq told', mute \subseteq mute',
           \/ bot' = bot \/ bot'.update = bot.update
           \/ bot.update.id \notin Ids \/ ~IsPress(bot.update)
           \/ bot.update.id \in told' \cup mute'
    PROVE  GuardInvariant'
  BY DEF GuardInvariant, PressRemembered, TextRemembered, IsPress

LEMMA HearRemembered == TypeOK /\ GuardInvariant /\ GuardStep => GuardInvariant'
<1> SUFFICES ASSUME TypeOK, GuardInvariant, NEW u \in Update,
                    HearText(u) \/ RefuseText(u) \/ HearPress(u) \/ RefusePress(u)
             PROVE  GuardInvariant'
  BY DEF GuardStep
<1>1. /\ bot = Idle /\ UNCHANGED <<now, told, mute>>
      /\ now \in Nat /\ bot.update.id \notin Ids
  BY DEF HearText, RefuseText, HearPress, RefusePress, Take, TypeOK, Idle, NoUpdate, None, Ids
<1>2. CASE RefuseText(u) \/ RefusePress(u)
  BY <1>1, <1>2, TablesUnmoved DEF RefuseText, RefusePress
<1>3. CASE HearText(u)
  <2>1. PressRemembered'
    BY <1>1, <1>3 DEF HearText, GuardInvariant, PressRemembered
  <2>2. u.says \in Texts
    BY <1>3, Members DEF HearText
  <2>3. \A x \in Texts : x # u.says => messages'[x] = messages[x] /\ begun'[x] = begun[x]
    BY <1>3, <2>2 DEF HearText, MarkMessage, TypeOK
  <2>4. begun'[u.says] = now
    BY <1>3, <2>2 DEF HearText, TypeOK
  <2>5. CASE u.says \in GuardedTexts
    <3>1. messages'[u.says].until = now + MessageTtl
      BY <1>3, <2>2, <2>5 DEF HearText, MarkMessage, TypeOK
    <3>2. ASSUME NEW x \in Texts
          PROVE  /\ begun'[x] <= now
                 /\ messages'[x].until > now =>
                        begun'[x] # None /\ messages'[x].until <= begun'[x] + MessageTtl
      <4>1. CASE x # u.says
        BY <4>1, <1>1, <2>3 DEF GuardInvariant, TextRemembered
      <4>2. CASE x = u.says
        BY <4>2, <1>1, <2>4, <3>1, GuardAssumption DEF None
      <4> QED BY <4>1, <4>2
    <3> QED BY <1>1, <2>1, <3>2, Zenon DEF GuardInvariant, TextRemembered
  <2>6. CASE u.says \notin GuardedTexts
    <3>1. messages' = messages
      BY <1>3, <2>6 DEF HearText
    <3>2. messages[u.says].until \in Nat /\ begun[u.says] \in Nat \cup {None}
      BY <2>2 DEF TypeOK, SeenRecord
    <3>3. ASSUME NEW x \in Texts
          PROVE  /\ begun'[x] <= now
                 /\ messages'[x].until > now =>
                        begun'[x] # None /\ messages'[x].until <= begun'[x] + MessageTtl
      <4>1. CASE x # u.says
        BY <4>1, <2>3, <3>1 DEF GuardInvariant, TextRemembered
      <4>2. CASE x = u.says
        BY <4>2, <1>1, <2>4, <3>1, <3>2, GuardAssumption
           DEF GuardInvariant, TextRemembered, None
      <4> QED BY <4>1, <4>2
    <3> QED BY <1>1, <2>1, <3>3 DEF GuardInvariant, TextRemembered
  <2> QED BY <2>5, <2>6
<1>4. CASE HearPress(u)
  <2>1. u.id \in Ids /\ IsPress(u)
    BY <1>4, Members DEF HearPress
  <2>2. /\ callbacks' = [callbacks EXCEPT ![u.id] =
                            [until |-> now + CallbackTtl, answer |-> NoAnswer]]
        /\ pressed' = [pressed EXCEPT ![u.id] = now]
        /\ bot'.update = u
        /\ UNCHANGED <<messages, begun>>
    BY <1>4 DEF HearPress, MarkCallback, Begin
  <2>3. \A i \in Ids : i # u.id => callbacks'[i] = callbacks[i] /\ pressed'[i] = pressed[i]
    BY <2>1, <2>2 DEF TypeOK
  <2>4. callbacks'[u.id].until = now + CallbackTtl /\ pressed'[u.id] = now
    BY <2>1, <2>2 DEF TypeOK
  <2>5. ASSUME NEW i \in Ids
        PROVE  /\ pressed'[i] # None =>
                      pressed'[i] + CallbackTtl <= callbacks'[i].until
                      \/ pressed'[i] + CallbackTtl <= now
               /\ callbacks'[i].until > now =>
                      i \in told \cup mute \/ (IsPress(u) /\ u.id = i)
    <3>1. CASE i = u.id
      BY <3>1, <2>1, <2>4, <1>1, GuardAssumption
    <3>2. CASE i # u.id
      BY <3>2, <2>3, <1>1 DEF GuardInvariant, PressRemembered
    <3> QED BY <3>1, <3>2
  <2> QED BY <1>1, <2>2, <2>5 DEF GuardInvariant, PressRemembered, TextRemembered, IsPress
<1> QED BY <1>2, <1>3, <1>4

LEMMA TellRemembered == TypeOK /\ GuardInvariant /\ ReplyToPress => GuardInvariant'
<1> SUFFICES ASSUME TypeOK, GuardInvariant, ReplyToPress PROVE GuardInvariant'
  OBVIOUS
<1> DEFINE u == bot.update
<1>1. /\ u.id \in Ids /\ told' = told \cup {u.id}
      /\ UNCHANGED <<now, messages, begun, mute>>
      /\ now \in Nat /\ callbacks \in [Ids -> SeenRecord]
      /\ pressed \in [Ids -> Nat \cup {None}]
  BY TellTyped DEF TypeOK
<1>2. CASE callbacks' = callbacks
  <2>1. pressed' = pressed
    BY <1>2, TellTyped
  <2> QED BY <1>1, <1>2, <2>1, TablesUnmoved
<1>3. CASE callbacks' # callbacks
  <2>1. PICK answer \in Answers : callbacks' = Answer(answer)
    BY <1>3, TellTyped
  <2>2. /\ callbacks' = [callbacks EXCEPT ![u.id] =
                            [until |-> now + CallbackTtl, answer |-> answer]]
        /\ pressed' = [pressed EXCEPT ![u.id] = now]
    BY <1>3, <2>1, TellTyped DEF Answer, Remember
  <2> HIDE DEF u
  <2>3. \A i \in Ids : i # u.id => callbacks'[i] = callbacks[i] /\ pressed'[i] = pressed[i]
    BY <1>1, <2>2
  <2>4. callbacks'[u.id].until = now + CallbackTtl /\ pressed'[u.id] = now
    BY <1>1, <2>2
  <2>5. ASSUME NEW i \in Ids
        PROVE  /\ pressed'[i] # None =>
                      pressed'[i] + CallbackTtl <= callbacks'[i].until
                      \/ pressed'[i] + CallbackTtl <= now
               /\ callbacks'[i].until > now => i \in told' \cup mute
    <3>1. CASE i = u.id
      BY <3>1, <2>4, <1>1, GuardAssumption
    <3>2. CASE i # u.id
      BY <3>2, <2>3, <1>1 DEF GuardInvariant, PressRemembered, u
    <3> QED BY <3>1, <3>2
  <2>6. PressRemembered'
    BY <1>1, <2>5, Zenon DEF PressRemembered
  <2>7. TextRemembered'
    BY <1>1 DEF GuardInvariant, TextRemembered
  <2> QED BY <2>6, <2>7 DEF GuardInvariant
<1> QED BY <1>2, <1>3

\* What expires is forgotten when its term is over, not earlier.
LEMMA TickRemembered == TypeOK /\ GuardInvariant /\ Tick => GuardInvariant'
<1> SUFFICES ASSUME TypeOK, GuardInvariant, Tick PROVE GuardInvariant'
  OBVIOUS
<1>1. /\ now \in Nat /\ now' = now + 1 /\ UNCHANGED <<bot, pressed, begun, told, mute>>
      /\ callbacks' = Cleanup(callbacks, now') /\ messages' = Cleanup(messages, now')
      /\ callbacks \in [Ids -> SeenRecord] /\ messages \in [Texts -> SeenRecord]
      /\ pressed \in [Ids -> Nat \cup {None}] /\ begun \in [Texts -> Nat \cup {None}]
  BY DEF Tick, TypeOK, noteVars
<1>2. ASSUME NEW i \in Ids
      PROVE  callbacks'[i].until = callbacks[i].until
             \/ (callbacks[i].until <= now' /\ callbacks'[i].until = 0)
  BY <1>1 DEF Cleanup, Forgotten, SeenRecord
<1>3. ASSUME NEW x \in Texts
      PROVE  messages'[x].until = messages[x].until \/ messages'[x].until = 0
  BY <1>1 DEF Cleanup, Forgotten
<1>4. ASSUME NEW i \in Ids
      PROVE  callbacks[i].until \in Nat /\ pressed[i] \in Nat \cup {None}
  BY <1>1 DEF SeenRecord
<1>5. ASSUME NEW x \in Texts
      PROVE  messages[x].until \in Nat /\ begun[x] \in Nat \cup {None}
  BY <1>1 DEF SeenRecord
<1>6. PressRemembered'
  BY <1>1, <1>2, <1>4, GuardAssumption DEF GuardInvariant, PressRemembered, IsPress, None
<1>7. TextRemembered'
  BY <1>1, <1>3, <1>5, GuardAssumption DEF GuardInvariant, TextRemembered, None
<1> QED BY <1>6, <1>7 DEF GuardInvariant

LEMMA LossRemembered == TypeOK /\ GuardInvariant /\ MemoryIsLost => GuardInvariant'
  BY DEF TypeOK, MemoryIsLost, GuardInvariant, PressRemembered, TextRemembered, Forgotten, None

LEMMA RememberedStep == TypeOK /\ GuardInvariant /\ [Next]_vars => GuardInvariant'
<1> SUFFICES ASSUME TypeOK, GuardInvariant, [Next]_vars PROVE GuardInvariant'
  OBVIOUS
<1>1. CASE GuardStep
  BY <1>1, HearRemembered
<1>2. CASE ReplyToPress
  BY <1>2, TellRemembered
<1>3. CASE Tick
  BY <1>3, TickRemembered
<1>4. CASE Crash \/ RetryFails
  BY <1>4, LossRemembered DEF Crash, RetryFails
<1>5. CASE AnswerQuery \/ PressWork \/ OtherWork \/ MakeChain \/ ChainScheduled \/ WorkFails
  <2>1. UNCHANGED <<now, callbacks, messages, noteVars>>
    BY <1>5 DEF AnswerQuery, PressWork, OtherWork, MakeChain, ChainScheduled, WorkFails
  <2>2. \E pc \in Phases : Goto(pc)
    BY <1>5 DEF AnswerQuery, PressWork, OtherWork, MakeChain, ChainScheduled, WorkFails, Phases
  <2>3. bot'.update = bot.update
    BY <2>2, GotoTyped
  <2> QED BY <2>1, <2>3, TablesUnmoved DEF noteVars
<1>6. CASE ScheduleNext
  <2>1. /\ bot' = [bot EXCEPT !.next = Min(ToSchedule) + 1]
        /\ UNCHANGED <<now, callbacks, messages, noteVars>>
    BY <1>6, Zenon DEF ScheduleNext
  <2>2. bot \in Handler
    BY DEF TypeOK
  <2>3. bot'.update = bot.update
    BY <2>1, <2>2 DEF Handler
  <2> QED BY <2>1, <2>3, TablesUnmoved DEF noteVars
<1>7. CASE AnswerFails \/ ApologyFails \/ ReplyToText
  <2>1. /\ UNCHANGED <<now, callbacks, messages, pressed, begun>> /\ told' = told
        /\ mute \subseteq mute'
        /\ bot.update.id \in told' \cup mute' \/ ~IsPress(bot.update)
    BY <1>7 DEF AnswerFails, ApologyFails, ReplyToText, noteVars
  <2> QED BY <2>1, TablesUnmoved
<1>8. CASE \/ \E says \in Texts \cup {Button} : Send(says)
           \/ JobStep \/ \E c \in DOMAIN chains, i \in Places : JobFails(c, i)
           \/ StartPolling \/ StartFails \/ FetchBatch \/ FetchAgain
           \/ Restart \/ Horizon \/ UNCHANGED vars
  <2>1. UNCHANGED <<now, bot, callbacks, messages, pressed, begun, told, mute>>
    BY <1>8 DEF Send, JobStep, RunJob, JobFails, StartPolling, StartFails, FetchBatch,
       FetchAgain, Fetch, Restart, Horizon, vars, handlerVars, noteVars
  <2> QED BY <2>1, TablesUnmoved
<1> QED BY <1>1, <1>2, <1>3, <1>4, <1>5, <1>6, <1>7, <1>8 DEF Next, BotStep

\* The tables always remember what they should, no more and no less.
THEOREM TablesRemember == Spec => []GuardInvariant
<1>1. TypeOK /\ GuardInvariant /\ [Next]_vars => GuardInvariant'
  BY RememberedStep
<1> QED BY <1>1, InitRemembered, TypeCorrect, PTL DEF Spec

\* No press is worked on twice within its term in one life of the process.
THEOREM PressedOnce == Spec => PressWorksOnce
<1>1. TypeOK /\ GuardInvariant =>
          \A u \in Update : HearPress(u) =>
              pressed[u.id] = None \/ now >= pressed[u.id] + CallbackTtl
  <2> SUFFICES ASSUME TypeOK, GuardInvariant, NEW u \in Update, HearPress(u)
               PROVE  pressed[u.id] = None \/ now >= pressed[u.id] + CallbackTtl
    OBVIOUS
  <2>1. u.id \in Ids
    BY Members
  <2>2. /\ ~(callbacks[u.id].until > now) /\ now \in Nat /\ callbacks[u.id].until \in Nat
        /\ pressed[u.id] \in Nat \cup {None}
    BY <2>1 DEF HearPress, Seen, TypeOK, SeenRecord
  <2> QED BY <2>1, <2>2, GuardAssumption DEF GuardInvariant, PressRemembered
<1> QED BY <1>1, TypeCorrect, TablesRemember, PTL DEF PressWorksOnce, Spec

\* A text is refused only within its term from when work on it began.
THEOREM RepeatsAreHeard == Spec => RefusedTextWasHeard
<1>1. TypeOK /\ GuardInvariant =>
          \A u \in Update : RefuseText(u) =>
              begun[u.says] # None /\ now < begun[u.says] + MessageTtl
  <2> SUFFICES ASSUME TypeOK, GuardInvariant, NEW u \in Update, RefuseText(u)
               PROVE  begun[u.says] # None /\ now < begun[u.says] + MessageTtl
    OBVIOUS
  <2>1. u.says \in Texts /\ messages[u.says].until > now
    BY Members DEF RefuseText, Repeated, Seen
  <2>2. now \in Nat /\ messages[u.says].until \in Nat /\ begun[u.says] \in Nat \cup {None}
    BY <2>1 DEF TypeOK, SeenRecord
  <2> QED BY <2>1, <2>2, GuardAssumption DEF GuardInvariant, TextRemembered
<1> QED BY <1>1, TypeCorrect, TablesRemember, PTL DEF RefusedTextWasHeard, Spec

\* A press that is refused was told its outcome, or could not be.
THEOREM RefusedPressWasTold == Spec => HandledMeansTold
<1>1. TypeOK /\ GuardInvariant =>
          \A u \in Update : RefusePress(u) => u.id \in told \cup mute
  <2> SUFFICES ASSUME TypeOK, GuardInvariant, NEW u \in Update, RefusePress(u)
               PROVE  u.id \in told \cup mute
    OBVIOUS
  <2>1. u.id \in Ids /\ callbacks[u.id].until > now /\ bot.update.id \notin Ids
    BY Members DEF RefusePress, Seen, Take, Idle, NoUpdate, None, Ids
  <2> QED BY <2>1 DEF GuardInvariant, PressRemembered
<1> QED BY <1>1, TypeCorrect, TablesRemember, PTL DEF HandledMeansTold, Spec

-----------------------------------------------------------------------------
(* The chains.                                                             *)

\* A job belongs to a row of its chain.
JobsHaveRows == \A row \in jobs : chains[row[1]][row[2]] # "none"

\* Where the handler stands: no polling, no handler; a chain is scheduled from
\* its first row on; the rows it has passed have their jobs, or lost them.
HandlerAtRow ==
    /\ loop # "polling" => bot = Idle
    /\ bot.pc \in {"answer", "work"} => bot.next = 1
    /\ Working("schedule") =>
          \A i \in Active(Len(chains)) :
              i < bot.next => <<Len(chains), i>> \in jobs \cup stray

ChainInvariant == ChainWhole /\ JobsHaveRows /\ HandlerAtRow /\ ChainHasJobs

LEMMA InitChains == Init => ChainInvariant
  BY DEF Init, ChainInit, PollInit, ChainInvariant, ChainWhole, JobsHaveRows, HandlerAtRow,
         ChainHasJobs, ActiveRows, Idle, Working, Up

\* The handler goes on in its text or press.
LEMMA GotoKeepsPlace ==
    ASSUME TypeOK, NEW pc \in Phases, Goto(pc)
    PROVE  bot'.next = bot.next /\ bot'.pc = pc
  BY DEF TypeOK, Handler, Goto

\* Where chains and jobs do not move, it is enough that the handler is not at a
\* chain, before or after.
LEMMA ChainsUnmoved ==
    ASSUME ChainInvariant, UNCHANGED chainVars, Up' = Up,
           bot' = bot \/ (bot.pc # "schedule" /\ bot'.pc # "schedule"),
           loop' # "polling" => bot' = Idle,
           bot'.pc \in {"answer", "work"} => bot'.next = 1
    PROVE  ChainInvariant'
<1>1. UNCHANGED <<chains, jobs, asked, stray>>
  BY DEF chainVars
<1>2. ChainWhole' /\ JobsHaveRows'
  BY <1>1 DEF ChainInvariant, ChainWhole, JobsHaveRows
<1>3. HandlerAtRow'
  BY <1>1 DEF ChainInvariant, HandlerAtRow, Working, Active
<1>4. ChainInHand' = ChainInHand /\ ActiveRows' = ActiveRows
  BY <1>1 DEF ChainInHand, ActiveRows
<1>5. ChainHasJobs'
  BY <1>1, <1>4 DEF ChainInvariant, ChainHasJobs
<1> QED BY <1>2, <1>3, <1>5 DEF ChainInvariant

\* A handler is only at work in a process that polls.
LEMMA BusyIsUp ==
    ASSUME ChainInvariant, bot.pc # "idle"
    PROVE  Up /\ loop = "polling"
  BY DEF ChainInvariant, HandlerAtRow, Idle, Up

LEMMA PlainKeepsChains ==
    TypeOK /\ ChainInvariant
    /\ (GuardStep \/ AnswerQuery \/ AnswerFails \/ PressWork \/ ReplyToPress
        \/ OtherWork \/ ReplyToText \/ ApologyFails)
    => ChainInvariant'
<1> SUFFICES ASSUME TypeOK, ChainInvariant,
                    GuardStep \/ AnswerQuery \/ AnswerFails \/ PressWork \/ ReplyToPress
                    \/ OtherWork \/ ReplyToText \/ ApologyFails
             PROVE  ChainInvariant'
  OBVIOUS
<1>1. UNCHANGED chainVars /\ UNCHANGED pollVars
  BY DEF GuardStep, HearText, RefuseText, HearPress, RefusePress, Take, AnswerQuery,
     AnswerFails, PressWork, ReplyToPress, TellPress, OtherWork, ReplyToText, ApologyFails
<1>2. Up' = Up /\ loop' = loop
  BY <1>1 DEF Up, pollVars
<1>3. CASE GuardStep
  <2>1. /\ bot = Idle /\ loop = "polling"
        /\ \/ bot' = bot
           \/ \E u \in Update, pc \in {"work", "answer"} : Begin(u, pc)
    BY <1>3 DEF GuardStep, HearText, RefuseText, HearPress, RefusePress, Take
  <2>2. bot.pc # "schedule" /\ bot'.pc # "schedule"
        /\ (bot'.pc \in {"answer", "work"} => bot'.next = 1)
    BY <2>1 DEF Begin, Idle
  <2> QED BY <1>1, <1>2, <2>1, <2>2, ChainsUnmoved
<1>4. CASE AnswerQuery \/ PressWork \/ OtherWork
  <2>1. /\ bot.pc \in {"answer", "work"} /\ bot.next = 1
        /\ \E pc \in {"work", "reply", "decline"} : Goto(pc)
    BY <1>4 DEF AnswerQuery, PressWork, OtherWork, Working, ChainInvariant, HandlerAtRow
  <2>2. bot'.next = 1 /\ bot'.pc # "schedule"
    BY <2>1, GotoKeepsPlace DEF Phases
  <2>3. loop = "polling"
    BY <2>1, BusyIsUp
  <2> QED BY <1>1, <1>2, <2>1, <2>2, <2>3, ChainsUnmoved
<1>5. CASE AnswerFails \/ ReplyToPress \/ ReplyToText \/ ApologyFails
  <2>1. bot.pc # "schedule" /\ bot' = Idle
    BY <1>5 DEF AnswerFails, ReplyToPress, TellPress, ReplyToText, ApologyFails, Working
  <2> QED BY <1>1, <1>2, <2>1, ChainsUnmoved DEF Idle
<1> QED BY <1>3, <1>4, <1>5

\* A new chain has a row for every offset ahead, and no job yet.
LEMMA MakeKeepsChains == TypeOK /\ ChainInvariant /\ MakeChain => ChainInvariant'
<1> SUFFICES ASSUME TypeOK, ChainInvariant, MakeChain PROVE ChainInvariant'
  OBVIOUS
<1>0. /\ bot.pc = "work" /\ bot.next = 1 /\ UNCHANGED pollVars /\ now \in Nat
      /\ loop' = "polling" /\ Up /\ Up'
  <2>1. bot.pc = "work" /\ UNCHANGED pollVars
    BY DEF MakeChain, Working
  <2> QED BY <2>1, BusyIsUp DEF ChainInvariant, HandlerAtRow, Up, pollVars, TypeOK
<1>1. CASE Ahead(now) = {}
  <2>1. Goto("reply") /\ UNCHANGED chainVars
    BY <1>1 DEF MakeChain
  <2>2. bot'.pc = "reply"
    BY <2>1, GotoKeepsPlace DEF Phases
  <2> QED BY <1>0, <2>1, <2>2, ChainsUnmoved
<1>2. CASE Ahead(now) # {}
  <2> DEFINE new == [i \in Places |-> IF i \in Ahead(now) THEN "active" ELSE "none"]
             n == Len(chains)
  <2>1. Goto("schedule") /\ CreateChain(now)
    BY <1>2 DEF MakeChain
  <2>2. bot'.pc = "schedule" /\ bot'.next = 1
    BY <1>0, <2>1, GotoKeepsPlace DEF Phases
  <2>3. /\ chains' = Append(chains, new) /\ asked' = Append(asked, now)
        /\ jobs' = jobs /\ stray' = stray
    BY <2>1 DEF CreateChain
  <2>4. \A i \in Places : new[i] # "none" <=> i \in Ahead(now)
    OBVIOUS
  <2> HIDE DEF new
  <2>5. /\ chains \in Seq(Chain) /\ asked \in Seq(Nat) /\ Len(asked) = n /\ n \in Nat
        /\ DOMAIN chains = 1..n
        /\ jobs \subseteq (DOMAIN chains) \X Places
    BY DEF TypeOK
  <2>6. /\ Len(chains') = n + 1 /\ DOMAIN chains' = 1..(n + 1)
        /\ \A c \in 1..n : chains'[c] = chains[c]
        /\ chains'[n + 1] = new
    BY <2>3, <2>5
  <2>7. (\A c \in 1..n : asked'[c] = asked[c]) /\ asked'[n + 1] = now
    BY <2>3, <2>5
  <2>8. ChainWhole'
    <3> SUFFICES ASSUME NEW c \in 1..(n + 1), NEW i \in Places
                 PROVE  chains'[c][i] # "none" <=> i \in Ahead(asked'[c])
      BY <2>6 DEF ChainWhole, Ahead, Trigger
    <3>1. CASE c = n + 1
      BY <2>4, <2>6, <2>7, <3>1
    <3>2. CASE c \in 1..n
      BY <2>5, <2>6, <2>7, <3>2 DEF ChainInvariant, ChainWhole
    <3> QED BY <2>5, <3>1, <3>2
  <2>9. JobsHaveRows'
    <3> SUFFICES ASSUME NEW row \in jobs PROVE chains'[row[1]][row[2]] # "none"
      BY <2>3 DEF JobsHaveRows
    <3>1. row[1] \in 1..n
      BY <2>5
    <3> QED BY <2>6, <3>1 DEF ChainInvariant, JobsHaveRows
  <2>10. HandlerAtRow'
    <3>1. \A i \in Places : ~(i < 1)
      BY ChainAssumption DEF Places
    <3>2. Active(Len(chains))' \subseteq Places
      BY DEF Active
    <3> QED BY <1>0, <2>2, <3>1, <3>2 DEF HandlerAtRow, Working
  <2>11. ChainHasJobs'
    <3> SUFFICES ASSUME NEW row \in ActiveRows'
                 PROVE  row \in jobs \cup stray \/ row[1] = n + 1
      BY <2>2, <2>3, <2>6 DEF ChainHasJobs, ChainInHand
    <3>1. row \in (1..(n + 1)) \X Places /\ chains'[row[1]][row[2]] = "active"
      BY <2>6 DEF ActiveRows
    <3>2. CASE row[1] # n + 1
      <4>1. row[1] \in 1..n
        BY <2>5, <3>1, <3>2
      <4>2. row \in ActiveRows
        BY <2>5, <2>6, <3>1, <4>1 DEF ActiveRows
      <4>3. ChainInHand = {}
        BY <1>0 DEF ChainInHand
      <4> QED BY <1>0, <4>2, <4>3 DEF ChainInvariant, ChainHasJobs
    <3> QED BY <3>2
  <2> QED BY <2>8, <2>9, <2>10, <2>11 DEF ChainInvariant
<1> QED BY <1>1, <1>2

\* The row that is scheduled gets its job, the rows before it have theirs.
LEMMA ScheduleKeepsChains == TypeOK /\ ChainInvariant /\ ScheduleNext => ChainInvariant'
<1> SUFFICES ASSUME TypeOK, ChainInvariant, ScheduleNext PROVE ChainInvariant'
  OBVIOUS
<1> DEFINE n == Len(chains)
           first == Min(ToSchedule)
<1>1. /\ Working("schedule") /\ ToSchedule # {} /\ Up
      /\ bot' = [bot EXCEPT !.next = first + 1]
      /\ jobs' = jobs \cup {<<n, first>>}
      /\ UNCHANGED <<chains, asked, stray, pollVars>>
  <2>1. Working("schedule") /\ ToSchedule # {}
        /\ bot' = [bot EXCEPT !.next = first + 1] /\ UNCHANGED pollVars
    BY Zenon DEF ScheduleNext
  <2>2. jobs' = jobs \cup {<<n, first>>} /\ UNCHANGED <<chains, asked, stray>>
    BY Zenon DEF ScheduleNext, ScheduleRow
  <2>3. Up
    BY <2>1, BusyIsUp DEF Working
  <2> QED BY <2>1, <2>2, <2>3
<1>2. /\ first \in ToSchedule /\ first \in Nat
      /\ \A i \in ToSchedule : first <= i
      /\ Places \subseteq Nat
  BY <1>1, ToScheduleMin, Zenon
<1>3. first \in Active(n)
  BY <1>2 DEF ToSchedule
<1> HIDE DEF first
<1>4. bot'.pc = "schedule" /\ bot'.next = first + 1 /\ bot.next \in Nat
  BY <1>1 DEF TypeOK, Handler, Working
<1>5. Up' /\ loop' = "polling"
  BY <1>1, BusyIsUp DEF Up, pollVars, Working
<1>6. ChainWhole'
  BY <1>1 DEF ChainInvariant, ChainWhole, Ahead, Trigger
<1>7. JobsHaveRows'
  BY <1>1, <1>3 DEF ChainInvariant, JobsHaveRows, Active
<1>8. HandlerAtRow'
  <2> SUFFICES ASSUME NEW i \in Active(n), i < first + 1
               PROVE  <<n, i>> \in jobs' \cup stray
    BY <1>1, <1>4, <1>5 DEF HandlerAtRow, Active
  <2>1. i \in Nat
    BY <1>2 DEF Active
  <2>2. CASE i = first
    BY <1>1, <2>2
  <2>3. CASE i # first
    <3>1. i \notin ToSchedule
      BY <1>2, <2>1, <2>3
    <3>2. i < bot.next
      BY <1>4, <2>1, <3>1 DEF ToSchedule
    <3> QED BY <1>1, <3>2 DEF ChainInvariant, HandlerAtRow
  <2> QED BY <2>2, <2>3
<1>9. ChainHasJobs'
  <2>1. ChainInHand' = ChainInHand /\ ActiveRows' = ActiveRows
    BY <1>1, <1>4 DEF ChainInHand, ActiveRows, Working
  <2> QED BY <1>1, <2>1 DEF ChainInvariant, ChainHasJobs
<1> QED BY <1>6, <1>7, <1>8, <1>9 DEF ChainInvariant

\* The handler leaves the chain when every row of it has its job, or is
\* noted for the next start.
LEMMA LeavingKeepsChains ==
    TypeOK /\ ChainInvariant /\ (ChainScheduled \/ WorkFails) => ChainInvariant'
<1> SUFFICES ASSUME TypeOK, ChainInvariant, ChainScheduled \/ WorkFails
             PROVE  ChainInvariant'
  OBVIOUS
<1> DEFINE n == Len(chains)
<1>1. /\ bot'.pc \in {"reply", "sorry"} /\ UNCHANGED pollVars
      /\ bot.pc # "idle" /\ loop' = "polling" /\ Up /\ Up'
  <2>1. \E pc \in {"reply", "sorry"} : Goto(pc)
    BY DEF ChainScheduled, WorkFails
  <2>2. UNCHANGED pollVars /\ bot.pc # "idle"
    BY DEF ChainScheduled, WorkFails, Working
  <2>3. loop' = "polling" /\ Up /\ Up'
    BY <2>2, BusyIsUp DEF Up, pollVars
  <2> QED BY <2>1, <2>2, <2>3, GotoKeepsPlace DEF Phases
<1>2. CASE ~Working("schedule")
  <2>1. UNCHANGED chainVars
    BY <1>2 DEF ChainScheduled, WorkFails
  <2> QED BY <1>1, <1>2, <2>1, ChainsUnmoved DEF Working
<1>3. CASE Working("schedule")
  <2>1. /\ stray \subseteq stray' /\ UNCHANGED <<chains, jobs, asked>>
        /\ \A i \in ToSchedule : <<n, i>> \in stray'
    <3>1. CASE ChainScheduled
      BY <3>1 DEF ChainScheduled, chainVars
    <3>2. CASE WorkFails
      <4>1. LeaveRows(n, bot.next)
        BY <1>3, <3>2 DEF WorkFails
      <4> QED BY <1>3, <4>1, LeaveTyped DEF LeaveRows, ToSchedule
    <3> QED BY <3>1, <3>2
  <2>2. Places \subseteq Nat /\ bot.next \in Nat
    BY ToScheduleMin DEF TypeOK, Handler
  <2>3. ASSUME NEW i \in Active(n) PROVE <<n, i>> \in jobs \cup stray'
    <3>1. CASE i < bot.next
      BY <1>3, <2>1, <3>1 DEF ChainInvariant, HandlerAtRow
    <3>2. CASE ~(i < bot.next)
      BY <2>1, <2>2, <3>2 DEF ToSchedule, Active
    <3> QED BY <3>1, <3>2
  <2>4. ChainWhole' /\ JobsHaveRows'
    BY <2>1 DEF ChainInvariant, ChainWhole, JobsHaveRows, Ahead, Trigger
  <2>5. HandlerAtRow'
    BY <1>1 DEF HandlerAtRow, Working
  <2>6. ChainHasJobs'
    <3> SUFFICES ASSUME NEW row \in ActiveRows PROVE row \in jobs \cup stray'
      BY <2>1 DEF ChainHasJobs, ActiveRows
    <3>1. /\ row = <<row[1], row[2]>> /\ row[2] \in Places
          /\ chains[row[1]][row[2]] = "active"
      BY DEF ActiveRows
    <3>2. CASE row[1] = n
      BY <2>3, <3>1, <3>2 DEF Active
    <3>3. CASE row[1] # n
      <4>1. row[1] \notin ChainInHand
        BY <3>3 DEF ChainInHand
      <4> QED BY <1>1, <2>1, <4>1 DEF ChainInvariant, ChainHasJobs
    <3> QED BY <3>2, <3>3
  <2> QED BY <2>4, <2>5, <2>6 DEF ChainInvariant
<1> QED BY <1>2, <1>3

\* A job that runs, fails or is dropped leaves its row done or noted.
LEMMA JobKeepsChains ==
    ASSUME TypeOK, ChainInvariant, NEW c \in DOMAIN chains, NEW i \in Places,
           RunJob(c, i) \/ JobFails(c, i)
    PROVE  ChainInvariant'
<1>1. /\ UNCHANGED <<now, pollVars, bot, asked>>
      /\ <<c, i>> \in jobs /\ jobs' = jobs \ {<<c, i>>}
  BY DEF RunJob, JobFails, RunRow, RunRowFails, DropRow, handlerVars
<1>2. Up' = Up /\ loop' = loop /\ chains \in Seq(Chain)
  BY <1>1 DEF Up, pollVars, TypeOK
<1>3. \/ chains' = chains /\ stray' = stray \cup {<<c, i>>}
      \/ /\ chains' = [chains EXCEPT ![c] = [chains[c] EXCEPT ![i] = "completed"]]
         /\ stray' = stray
  BY DEF RunJob, JobFails, RunRow, RunRowFails, DropRow
<1>4. /\ DOMAIN chains' = DOMAIN chains /\ Len(chains') = Len(chains)
      /\ \A d \in DOMAIN chains, j \in Places :
             \/ chains'[d][j] = chains[d][j]
             \/ d = c /\ j = i /\ chains'[d][j] = "completed"
  <2>1. CASE chains' = chains
    BY <2>1
  <2>2. CASE chains' # chains
    <3> DEFINE row == [chains[c] EXCEPT ![i] = "completed"]
    <3>1. chains[c] \in Chain
      BY <1>2
    <3>2. row[i] = "completed" /\ \A j \in Places : j # i => row[j] = chains[c][j]
      BY <3>1 DEF Chain
    <3>3. chains' = [chains EXCEPT ![c] = row]
      BY <1>3, <2>2
    <3> HIDE DEF row
    <3>4. /\ DOMAIN chains' = DOMAIN chains /\ Len(chains') = Len(chains)
          /\ chains'[c] = row /\ \A d \in DOMAIN chains : d # c => chains'[d] = chains[d]
      BY <1>2, <3>3
    <3> QED BY <3>2, <3>4
  <2> QED BY <2>1, <2>2
<1>5. chains[c][i] # "none" /\ ChainInHand' = ChainInHand
  BY <1>1, <1>4 DEF ChainInvariant, JobsHaveRows, ChainInHand
<1>6. /\ stray \subseteq stray' /\ jobs \subseteq (DOMAIN chains) \X Places
      /\ \A row \in ActiveRows' :
             row \in ActiveRows /\ (row \in jobs \cup stray => row \in jobs' \cup stray')
  <2>1. stray \subseteq stray' /\ jobs \subseteq (DOMAIN chains) \X Places
    BY <1>3 DEF TypeOK
  <2>2. ASSUME NEW row \in ActiveRows'
        PROVE  row \in ActiveRows /\ (row \in jobs \cup stray => row \in jobs' \cup stray')
    <3>1. /\ row = <<row[1], row[2]>> /\ row[1] \in DOMAIN chains /\ row[2] \in Places
          /\ chains'[row[1]][row[2]] = "active"
      BY <1>4 DEF ActiveRows
    <3>2. chains[row[1]][row[2]] = "active"
      BY <1>4, <3>1
    <3>3. row \in ActiveRows
      BY <3>1, <3>2 DEF ActiveRows
    <3>4. CASE chains' = chains /\ stray' = stray \cup {<<c, i>>}
      BY <1>1, <3>3, <3>4
    <3>5. CASE chains' = [chains EXCEPT ![c] = [chains[c] EXCEPT ![i] = "completed"]]
      <4>1. chains'[c][i] = "completed"
        <5>1. chains[c] \in Chain
          BY <1>2
        <5> QED BY <1>2, <3>5, <5>1 DEF Chain
      <4>2. row # <<c, i>>
        BY <3>1, <4>1
      <4> QED BY <1>1, <2>1, <3>3, <4>2
    <3> QED BY <1>3, <3>4, <3>5
  <2> QED BY <2>1, <2>2
<1>7. ChainWhole'
  <2> SUFFICES ASSUME NEW d \in DOMAIN chains, NEW j \in Places
               PROVE  chains'[d][j] # "none" <=> j \in Ahead(asked[d])
    BY <1>1, <1>4 DEF ChainWhole, Ahead, Trigger
  <2>1. chains[d][j] # "none" <=> j \in Ahead(asked[d])
    BY DEF ChainInvariant, ChainWhole
  <2> QED BY <1>4, <1>5, <2>1
<1>8. JobsHaveRows'
  <2> SUFFICES ASSUME NEW row \in jobs PROVE chains'[row[1]][row[2]] # "none"
    BY <1>1 DEF JobsHaveRows
  <2>1. row[1] \in DOMAIN chains /\ row[2] \in Places /\ chains[row[1]][row[2]] # "none"
    BY <1>6 DEF ChainInvariant, JobsHaveRows
  <2> QED BY <1>4, <2>1
<1>9. HandlerAtRow'
  <2>1. ASSUME Working("schedule"), NEW j \in Active(Len(chains))', j < bot.next
        PROVE  <<Len(chains), j>> \in jobs' \cup stray'
    <3>1. Len(chains) \in DOMAIN chains
      BY <2>1 DEF TypeOK
    <3>2. j \in Places /\ <<Len(chains), j>> \in ActiveRows'
      BY <1>4, <2>1, <3>1 DEF Active, ActiveRows
    <3>3. j \in Active(Len(chains))
      BY <1>6, <3>2 DEF Active, ActiveRows
    <3>4. <<Len(chains), j>> \in jobs \cup stray
      BY <2>1, <3>3 DEF ChainInvariant, HandlerAtRow
    <3> QED BY <1>6, <3>2, <3>4
  <2> QED BY <1>1, <1>2, <1>4, <2>1 DEF ChainInvariant, HandlerAtRow, Working
<1>10. ChainHasJobs'
  BY <1>2, <1>5, <1>6 DEF ChainInvariant, ChainHasJobs
<1> QED BY <1>7, <1>8, <1>9, <1>10 DEF ChainInvariant

\* The updater and the clock do not touch the chains.
LEMMA LoopKeepsChains ==
    TypeOK /\ ChainInvariant
    /\ (StartPolling \/ StartFails \/ FetchBatch \/ FetchAgain \/ Tick \/ UNCHANGED vars
        \/ \E says \in Texts \cup {Button} : Send(says))
    => ChainInvariant'
<1> SUFFICES ASSUME TypeOK, ChainInvariant,
                    \/ StartPolling \/ StartFails \/ FetchBatch \/ FetchAgain
                    \/ Tick \/ UNCHANGED vars
                    \/ \E says \in Texts \cup {Button} : Send(says)
             PROVE  ChainInvariant'
  OBVIOUS
<1>1. UNCHANGED chainVars /\ bot' = bot
  BY DEF StartPolling, StartFails, FetchBatch, FetchAgain, Fetch, Tick, Send, vars, handlerVars
<1>2. loop' = loop \/ (loop = "starting" /\ loop' \in {"polling", "waiting"})
  BY DEF StartPolling, PollBegins, StartFails, PollFails, FetchBatch, FetchAgain, Fetch,
     Tick, Send, vars, pollVars
<1>3. Up' = Up
  BY <1>2 DEF Up
<1>4. /\ loop' # "polling" => bot' = Idle
      /\ bot'.pc \in {"answer", "work"} => bot'.next = 1
  BY <1>1, <1>2 DEF ChainInvariant, HandlerAtRow
<1> QED BY <1>1, <1>3, <1>4, ChainsUnmoved

\* The jobs go with the process and are made anew from the rows.
LEMMA LifeKeepsChains ==
    TypeOK /\ ChainInvariant /\ (Crash \/ RetryFails \/ Restart) => ChainInvariant'
<1> SUFFICES ASSUME TypeOK, ChainInvariant, Crash \/ RetryFails \/ Restart
             PROVE  ChainInvariant'
  OBVIOUS
<1>1. CASE Crash \/ RetryFails
  <2>1. PollEnds /\ JobsGone /\ bot' = Idle
    BY <1>1 DEF Crash, RetryFails, PollAgain, MemoryIsLost
  <2> QED
    BY <2>1 DEF JobsGone, PollEnds, ChainInvariant, ChainWhole, Ahead, Trigger, JobsHaveRows,
       HandlerAtRow, ChainHasJobs, Up, Idle, Working
<1>2. CASE Restart
  <2>1. /\ UNCHANGED <<chains, asked>> /\ bot' = Idle /\ jobs' = ActiveRows
        /\ ActiveRows' = ActiveRows
    BY <1>2 DEF Restart, RestoreRows, PollStarts, handlerVars, ActiveRows, ChainInvariant,
       HandlerAtRow
  <2>2. ChainWhole'
    BY <2>1 DEF ChainInvariant, ChainWhole, Ahead, Trigger
  <2>3. HandlerAtRow'
    BY <2>1 DEF HandlerAtRow, Idle, Working
  <2> QED
    BY <2>1, <2>2, <2>3 DEF ChainInvariant, JobsHaveRows, ChainHasJobs, ActiveRows
<1> QED BY <1>1, <1>2

LEMMA ChainsStep == TypeOK /\ ChainInvariant /\ [Next]_vars => ChainInvariant'
<1> SUFFICES ASSUME TypeOK, ChainInvariant, [Next]_vars PROVE ChainInvariant'
  OBVIOUS
<1>1. CASE GuardStep \/ AnswerQuery \/ AnswerFails \/ PressWork \/ ReplyToPress
           \/ OtherWork \/ ReplyToText \/ ApologyFails
  BY <1>1, PlainKeepsChains
<1>2. CASE MakeChain
  BY <1>2, MakeKeepsChains
<1>3. CASE ScheduleNext
  BY <1>3, ScheduleKeepsChains
<1>4. CASE ChainScheduled \/ WorkFails
  BY <1>4, LeavingKeepsChains
<1>5. CASE JobStep \/ \E c \in DOMAIN chains, i \in Places : JobFails(c, i)
  BY <1>5, JobKeepsChains DEF JobStep
<1>6. CASE StartPolling \/ StartFails \/ FetchBatch \/ FetchAgain
           \/ Tick \/ Horizon \/ UNCHANGED vars
           \/ \E says \in Texts \cup {Button} : Send(says)
  BY <1>6, LoopKeepsChains DEF Horizon
<1>7. CASE Crash \/ RetryFails \/ Restart
  BY <1>7, LifeKeepsChains
<1> QED BY <1>1, <1>2, <1>3, <1>4, <1>5, <1>6, <1>7 DEF Next, BotStep

\* The chains, their jobs and the handler stay in step.
THEOREM ChainsKept == Spec => []ChainInvariant
<1>1. TypeOK /\ ChainInvariant /\ [Next]_vars => ChainInvariant'
  BY ChainsStep
<1> QED BY <1>1, InitChains, TypeCorrect, PTL DEF Spec

\* No failure and no crash leaves a part of a chain.
THEOREM ChainsAreWhole == Spec => []ChainWhole
<1>1. ChainInvariant => ChainWhole
  BY DEF ChainInvariant
<1> QED BY <1>1, ChainsKept, PTL

\* A row that waits to ring has its job, but for what a failure took away in
\* this life of the process and for what the handler has still to schedule.
THEOREM WaitingRowsHaveJobs == Spec => []ChainHasJobs
<1>1. ChainInvariant => ChainHasJobs
  BY DEF ChainInvariant
<1> QED BY <1>1, ChainsKept, PTL
=============================================================================
