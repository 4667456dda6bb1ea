------------------------------ MODULE Delivery ------------------------------
(***************************************************************************)
(* From Telegram to the work and back: the updater fetches updates in      *)
(* batches into a queue in memory, handlers take them from there one at a  *)
(* time, the execution guard lets a press or a text through or refuses it  *)
(* as a repeat, and a handler does the work, answers, and apologises when  *)
(* something fails.  The work of a press is abstract; a text may ask for a *)
(* deadline chain.                                                         *)
(*                                                                         *)
(* Telegram keeps what it handed over until the next fetch confirms it: it *)
(* is delivered again when the process ends before that, and is lost when  *)
(* the process ends after it with the update still in the queue.  Users    *)
(* repeat texts on their own: such a text is another update.               *)
(***************************************************************************)
EXTENDS ExecutionGuard, Polling, DeadlineChain

CONSTANTS
    ChainTexts,         \* texts that ask for a deadline chain
    OtherTexts,         \* texts that ask for something else
    GuardedTexts,       \* texts the guard looks at
    MaxUpdates,         \* bound: updates users send
    MaxRedeliveries,    \* bound: updates delivered again
    MaxFailures,        \* bound: exceptions in handlers, jobs and the start
    MaxCrashes,         \* bound: process ends
    LastEvent,          \* bound: users and faults act up to this time
    MaxTime             \* bound: the clock

ASSUME DeliveryAssumption ==
    /\ ChainTexts \cap OtherTexts = {}
    /\ GuardedTexts \subseteq ChainTexts \cup OtherTexts
    /\ MaxUpdates \in Nat /\ MaxRedeliveries \in Nat /\ MaxFailures \in Nat
    /\ MaxCrashes \in Nat /\ LastEvent \in Nat /\ MaxTime \in Nat

VARIABLES
    inbox,        \* updates Telegram still keeps
    fetched,      \* how many of them, from the first, it has handed over
    queue,        \* update_queue: fetched and not yet taken by a handler
    last,         \* the press taken last
    bot,          \* the handler on the bot thread
    callbacks,    \* _seen_callbacks of the guard, by update
    messages,     \* _seen_messages, by text
    sent, redelivered, failures, crashes,    \* how much of a bound is used
    (* What an observer of the run would have noted; no action reads these. *)
    heard,        \* updates the process has taken
    pressed,      \* when the work on a press last began in this life
    begun,        \* when the work on a text last began in this life
    told,         \* presses whose outcome, or failure, the user was told
    mute,         \* presses whose answer or apology could not be sent
    dropped       \* updates lost with the queue of a process that ended

mailVars == <<inbox, fetched, queue>>
handlerVars == <<mailVars, last, bot, callbacks, messages>>
usedVars == <<sent, redelivered, failures, crashes>>
noteVars == <<heard, pressed, begun, told, mute, dropped>>
vars == <<now, pollVars, chainVars, handlerVars, usedVars, noteVars>>

-----------------------------------------------------------------------------
Texts == ChainTexts \cup OtherTexts
Ids == 1..MaxUpdates
None == -1

\* An update; a button press has a query id of its own, and no text.
Button == "button"
Update == [id : Ids, says : Texts \cup {Button}]
NoUpdate == [id |-> None, says |-> Button]
IsPress(u) == u.says = Button

\* What the handler is doing: it answers the query of a press, works, has
\* scheduled a chain up to row next, replies, or apologises.
Phases == {"idle", "answer", "work", "schedule", "decline", "reply", "sorry"}
Handler == [pc : Phases, update : Update \cup {NoUpdate}, next : Nat]
Idle == [pc |-> "idle", update |-> NoUpdate, next |-> 0]

Up == loop # "down"
FaultsAllowed == now <= LastEvent
MayFail == FaultsAllowed /\ failures < MaxFailures

\* The chain that the handler in flight is scheduling.
ChainInHand == IF bot.pc = "schedule" THEN {Len(chains)} ELSE {}

Init ==
    /\ now = 0
    /\ PollInit /\ ChainInit
    /\ inbox = <<>> /\ fetched = 0 /\ queue = <<>>
    /\ last = NoUpdate /\ bot = Idle
    /\ callbacks = [i \in Ids |-> Forgotten]
    /\ messages = [x \in Texts |-> Forgotten]
    /\ sent = 0 /\ redelivered = 0 /\ failures = 0 /\ crashes = 0
    /\ heard = {} /\ told = {} /\ mute = {} /\ dropped = {}
    /\ pressed = [i \in Ids |-> None]
    /\ begun = [x \in Texts |-> None]

-----------------------------------------------------------------------------
(* Telegram.                                                               *)

\* A user sends a text or presses a button, whether anyone polls or not.
Send(says) ==
    /\ FaultsAllowed /\ sent < MaxUpdates
    /\ sent' = sent + 1
    /\ inbox' = Append(inbox, [id |-> sent', says |-> says])
    /\ UNCHANGED <<now, pollVars, chainVars, fetched, queue, last, bot, callbacks,
                   messages, redelivered, failures, crashes, noteVars>>

-----------------------------------------------------------------------------
(* The updater.                                                            *)

\* Mutant: drop_pending_updates is set.
StartDroppingPending ==
    /\ PollBegins
    /\ inbox' = <<>>
    /\ UNCHANGED <<now, chainVars, fetched, queue, last, bot, callbacks, messages,
                   usedVars, noteVars>>

StartPolling ==
    /\ PollBegins
    /\ UNCHANGED <<now, chainVars, handlerVars, usedVars, noteVars>>

\* What Telegram has not handed over yet.
NotFetched == SubSeq(inbox, fetched + 1, Len(inbox))

\* One getUpdates, whatever the handler is doing: it confirms the batch before
\* and appends everything else that waits to the queue.
Fetch(batch) ==
    /\ loop = "polling"
    /\ inbox' = batch /\ fetched' = Len(batch)
    /\ queue' = queue \o batch
    /\ UNCHANGED <<now, pollVars, chainVars, last, bot, callbacks, messages, sent,
                   failures, crashes, noteVars>>

FetchBatch ==
    /\ NotFetched # <<>> \/ fetched > 0
    /\ Fetch(NotFetched)
    /\ UNCHANGED redelivered

\* Telegram hands a press out once more than it should.  (A text that comes
\* again is for the guard the same as one the user repeats.)
FetchAgain ==
    /\ FaultsAllowed /\ redelivered < MaxRedeliveries /\ last # NoUpdate
    /\ redelivered' = redelivered + 1
    /\ Fetch(<<last>> \o NotFetched)

-----------------------------------------------------------------------------
(* The guard, in front of a text and in front of a press.                  *)

Take(u) ==
    /\ loop = "polling" /\ bot = Idle
    /\ queue # <<>> /\ u = Head(queue)
    /\ queue' = Tail(queue)
    /\ last' = IF IsPress(u) THEN u ELSE last
    /\ heard' = heard \cup {u.id}
    /\ UNCHANGED <<now, pollVars, chainVars, inbox, fetched, usedVars, told, mute,
                   dropped>>

Begin(u, pc) == bot' = [pc |-> pc, update |-> u, next |-> 1]

Repeated(u) == u.says \in GuardedTexts /\ Seen(messages, u.says, now)

HearText(u) ==
    /\ Take(u) /\ ~IsPress(u) /\ ~Repeated(u)
    /\ messages' = IF u.says \in GuardedTexts
                   THEN MarkMessage(messages, u.says, now) ELSE messages
    /\ begun' = [begun EXCEPT ![u.says] = now]
    /\ Begin(u, "work")
    /\ UNCHANGED <<callbacks, pressed>>

\* "I already received that same request just now."
RefuseText(u) ==
    /\ Take(u) /\ ~IsPress(u) /\ Repeated(u)
    /\ UNCHANGED <<bot, callbacks, messages, pressed, begun>>

HearPress(u) ==
    /\ Take(u) /\ IsPress(u) /\ ~Seen(callbacks, u.id, now)
    /\ callbacks' = MarkCallback(callbacks, u.id, now)
    /\ pressed' = [pressed EXCEPT ![u.id] = now]
    /\ Begin(u, "answer")
    /\ UNCHANGED <<messages, begun>>

\* The cached answer, or "Already handled."
RefusePress(u) ==
    /\ Take(u) /\ IsPress(u) /\ Seen(callbacks, u.id, now)
    /\ UNCHANGED <<bot, callbacks, messages, pressed, begun>>

-----------------------------------------------------------------------------
(* The handler of a press.                                                 *)

Working(pc) == bot.pc = pc
Goto(pc) == bot' = [bot EXCEPT !.pc = pc]

\* query.answer(), which tells Telegram that the press arrived.
AnswerQuery ==
    /\ Working("answer") /\ Goto("work")
    /\ UNCHANGED <<now, pollVars, chainVars, mailVars, last, callbacks, messages,
                   usedVars, noteVars>>

\* It stands outside the try: the handler ends and the user hears nothing.
AnswerFails ==
    /\ Working("answer") /\ MayFail
    /\ bot' = Idle
    /\ failures' = failures + 1
    /\ mute' = mute \cup {bot.update.id}
    /\ UNCHANGED <<now, pollVars, chainVars, mailVars, last, callbacks, messages,
                   sent, redelivered, crashes, heard, pressed, begun, told,
                   dropped>>

\* The work is done; or there was none to do: an invalid payload, a reminder
\* that is gone or waits for nothing.
PressWork ==
    /\ Working("work") /\ IsPress(bot.update)
    /\ Goto("reply") \/ Goto("decline")
    /\ UNCHANGED <<now, pollVars, chainVars, mailVars, last, callbacks, messages,
                   usedVars, noteVars>>

\* Tell the user; a press that was declined is not remembered.
TellPress(pc, table) ==
    /\ Working(pc) /\ IsPress(bot.update)
    /\ bot' = Idle
    /\ told' = told \cup {bot.update.id}
    /\ callbacks' = table
    /\ pressed' = IF table = callbacks THEN pressed
                  ELSE [pressed EXCEPT ![bot.update.id] = now]
    /\ UNCHANGED <<now, pollVars, chainVars, mailVars, last, messages, usedVars,
                   heard, begun, mute, dropped>>

Answer(answer) == Remember(callbacks, bot.update.id, now, answer)

ReplyToPress ==
    \/ TellPress("reply", Answer("result"))
    \/ TellPress("decline", callbacks)
    \/ TellPress("sorry", Answer("sorry"))

-----------------------------------------------------------------------------
(* The handler of a text.                                                  *)

OtherWork ==
    /\ Working("work") /\ bot.update.says \in OtherTexts
    /\ Goto("reply")
    /\ UNCHANGED <<now, pollVars, chainVars, mailVars, last, callbacks, messages,
                   usedVars, noteVars>>

\* DeadlineChainTool.execute: nothing to do if every offset is over.
MakeChain ==
    /\ Working("work") /\ bot.update.says \in ChainTexts
    /\ IF Ahead(now) = {}
       THEN Goto("reply") /\ UNCHANGED chainVars
       ELSE Goto("schedule") /\ CreateChain(now)
    /\ UNCHANGED <<now, pollVars, mailVars, last, callbacks, messages, usedVars,
                   noteVars>>

ToSchedule == {i \in Active(Len(chains)) : i >= bot.next}

\* Mutant: the loop ends after its first row.
ScheduleFirst ==
    /\ Working("schedule") /\ ToSchedule # {}
    /\ ScheduleRow(Len(chains), Min(ToSchedule))
    /\ Goto("reply")
    /\ UNCHANGED <<now, pollVars, mailVars, last, callbacks, messages, usedVars,
                   noteVars>>

ScheduleNext ==
    /\ Working("schedule") /\ ToSchedule # {}
    /\ ScheduleRow(Len(chains), Min(ToSchedule))
    /\ bot' = [bot EXCEPT !.next = Min(ToSchedule) + 1]
    /\ UNCHANGED <<now, pollVars, mailVars, last, callbacks, messages, usedVars,
                   noteVars>>

ChainScheduled ==
    /\ Working("schedule") /\ ToSchedule = {}
    /\ Goto("reply")
    /\ UNCHANGED <<now, pollVars, chainVars, mailVars, last, callbacks, messages,
                   usedVars, noteVars>>

ReplyToText ==
    /\ Working("reply") \/ Working("sorry")
    /\ ~IsPress(bot.update)
    /\ bot' = Idle
    /\ UNCHANGED <<now, pollVars, chainVars, mailVars, last, callbacks, messages,
                   usedVars, noteVars>>

-----------------------------------------------------------------------------
(* Failures.                                                               *)

\* Mutant: the except clause swallows the exception.
WorkFailsSilently ==
    /\ bot.pc \in {"work", "schedule", "reply", "decline"} /\ MayFail
    /\ failures' = failures + 1
    /\ bot' = Idle
    /\ IF Working("schedule") THEN LeaveRows(Len(chains), bot.next)
                              ELSE UNCHANGED chainVars
    /\ UNCHANGED <<now, pollVars, mailVars, last, callbacks, messages, sent,
                   redelivered, crashes, noteVars>>

\* An exception inside the try: of the database, the scheduler, or the reply.
WorkFails ==
    /\ bot.pc \in {"work", "schedule", "reply", "decline"} /\ MayFail
    /\ failures' = failures + 1
    /\ Goto("sorry")
    /\ IF Working("schedule") THEN LeaveRows(Len(chains), bot.next)
                              ELSE UNCHANGED chainVars
    /\ UNCHANGED <<now, pollVars, mailVars, last, callbacks, messages, sent,
                   redelivered, crashes, noteVars>>

\* The apology cannot be sent either, for the same reason: this is no further
\* failure.  What follows it is not done.
ApologyFails ==
    /\ Working("sorry") /\ FaultsAllowed
    /\ bot' = Idle
    /\ mute' = IF IsPress(bot.update) THEN mute \cup {bot.update.id} ELSE mute
    /\ UNCHANGED <<now, pollVars, chainVars, mailVars, last, callbacks, messages,
                   usedVars, heard, pressed, begun, told, dropped>>

-----------------------------------------------------------------------------
(* Scheduler, start of the polling, process, clock.                        *)

RunJob(c, i) ==
    /\ Up
    /\ RunRow(c, i, now) \/ DropRow(c, i, now)
    /\ UNCHANGED <<now, pollVars, handlerVars, usedVars, noteVars>>

JobFails(c, i) ==
    /\ Up /\ MayFail
    /\ failures' = failures + 1
    /\ RunRowFails(c, i, now)
    /\ UNCHANGED <<now, pollVars, handlerVars, sent, redelivered, crashes,
                   noteVars>>

StartFails ==
    /\ MayFail
    /\ failures' = failures + 1
    /\ \E kind \in Kinds : PollFails(kind)
    /\ UNCHANGED <<now, chainVars, handlerVars, sent, redelivered, crashes, noteVars>>

\* Guard, jobs, handler and queue are gone with the process; what Telegram had
\* not been told to forget will be delivered again.
MemoryIsLost ==
    /\ JobsGone
    /\ bot' = Idle
    /\ queue' = <<>> /\ fetched' = 0
    /\ dropped' = dropped \cup ({queue[k].id : k \in DOMAIN queue}
                                 \ {inbox[k].id : k \in DOMAIN inbox})
    /\ callbacks' = [i \in Ids |-> Forgotten]
    /\ messages' = [x \in Texts |-> Forgotten]
    /\ pressed' = [i \in Ids |-> None]
    /\ begun' = [x \in Texts |-> None]
    /\ UNCHANGED <<now, inbox, last, sent, redelivered, failures, heard, told, mute>>

\* The process ends in the middle of anything.
Crash ==
    /\ FaultsAllowed /\ crashes < MaxCrashes
    /\ crashes' = crashes + 1
    /\ PollEnds /\ MemoryIsLost

\* The second run_polling of a process ends it.
RetryFails == PollAgain /\ MemoryIsLost /\ UNCHANGED crashes

Restart ==
    /\ PollStarts /\ RestoreRows
    /\ UNCHANGED <<now, handlerVars, usedVars, noteVars>>

\* A due job of a running scheduler starts before the clock moves on, a wait
\* ends on time, and the start of the polling takes no time of its own; the
\* work of a handler may take any time.  What has
\* expired is cleaned up at once.
Tick ==
    /\ now < MaxTime
    /\ bot.pc \in {"idle", "work", "schedule"}
    /\ Up => \A row \in jobs : Trigger(row[2]) > now
    /\ loop # "starting" /\ (loop = "waiting" => now < wake)
    /\ now' = now + 1
    /\ callbacks' = Cleanup(callbacks, now')
    /\ messages' = Cleanup(messages, now')
    /\ UNCHANGED <<pollVars, chainVars, mailVars, last, bot, usedVars, noteVars>>

\* Nothing beyond MaxTime is modelled.
Horizon == now = MaxTime /\ UNCHANGED vars

-----------------------------------------------------------------------------
GuardStep ==
    \E u \in Update : HearText(u) \/ RefuseText(u) \/ HearPress(u) \/ RefusePress(u)

BotStep ==
    \/ GuardStep
    \/ AnswerQuery \/ PressWork \/ ReplyToPress
    \/ OtherWork \/ MakeChain \/ ScheduleNext \/ ChainScheduled \/ ReplyToText

JobStep == \E c \in DOMAIN chains, i \in Places : RunJob(c, i)

Next ==
    \/ \E says \in Texts \cup {Button} : Send(says)
    \/ StartPolling \/ StartFails \/ FetchBatch \/ FetchAgain
    \/ BotStep \/ AnswerFails \/ WorkFails \/ ApologyFails
    \/ JobStep
    \/ \E c \in DOMAIN chains, i \in Places : JobFails(c, i)
    \/ Crash \/ RetryFails \/ Restart \/ Tick \/ Horizon

Spec == Init /\ [][Next]_vars

\* The updater, the bot thread, the scheduler's threads, the loop's sleep, the
\* platform that restarts the process, and the clock go on; users and faults
\* owe nothing.
FairSpec ==
    /\ Spec
    /\ WF_vars(StartPolling) /\ WF_vars(FetchBatch) /\ WF_vars(BotStep)
    /\ WF_vars(JobStep) /\ WF_vars(RetryFails) /\ WF_vars(Restart) /\ WF_vars(Tick)

-----------------------------------------------------------------------------
(* Properties.                                                             *)

\* The shape of the state.
TypeOK ==
    /\ now \in Nat
    /\ loop \in {"starting", "polling", "waiting", "down"}
    /\ attempts \in [Kinds -> Nat] /\ wake \in Nat
    /\ chains \in Seq(Chain) /\ asked \in Seq(Nat)
    /\ Len(asked) = Len(chains)
    /\ jobs \subseteq (DOMAIN chains) \X Places
    /\ stray \subseteq (DOMAIN chains) \X Places
    /\ inbox \in Seq(Update) /\ queue \in Seq(Update)
    /\ fetched \in 0..Len(inbox)
    /\ last \in Update \cup {NoUpdate}
    /\ bot \in Handler
    /\ bot = Idle \/ bot.update \in Update
    /\ Working("schedule") => chains # <<>>
    /\ callbacks \in [Ids -> SeenRecord] /\ messages \in [Texts -> SeenRecord]
    /\ sent \in Nat /\ redelivered \in Nat
    /\ failures \in Nat /\ crashes \in Nat
    /\ heard \subseteq Ids /\ told \subseteq Ids /\ mute \subseteq Ids
    /\ dropped \subseteq Ids
    /\ pressed \in [Ids -> Nat \cup {None}]
    /\ begun \in [Texts -> Nat \cup {None}]

\* The work on a press begins again only in another life of the process or
\* when its term, from the beginning or from the remembered answer, is over
\* (telegram_bot.py:206, execution_guard.py:32): however often Telegram
\* delivers it, and whatever of the work, the answer or the apology failed.
PressWorksOnce ==
    [][\A u \in Update : HearPress(u) =>
          pressed[u.id] = None \/ now >= pressed[u.id] + CallbackTtl]_vars

\* A text is refused as a repeat only if work on it began less than its term
\* ago (execution_guard.py:54): a user who goes on repeating it is heard.
RefusedTextWasHeard ==
    [][\A u \in Update : RefuseText(u) =>
          begun[u.says] # None /\ now < begun[u.says] + MessageTtl]_vars

\* A press is called already handled only if the user was told what became of
\* it (telegram_bot.py:216), unless the answer or the apology could not be
\* sent: an exception in the work never passes for work done.
HandledMeansTold ==
    [][\A u \in Update : RefusePress(u) => u.id \in told \cup mute]_vars

\* A chain is made of exactly the offsets that lay ahead when it was asked
\* for (service.py:78-103), whatever failed afterwards: no failure leaves a
\* part of its rows, none of them is in the past.
ChainWhole ==
    \A c \in DOMAIN chains : \A i \in Places :
        chains[c][i] # "none" <=> i \in Ahead(asked[c])

\* A row that waits to ring has its job (deadline_chain.py:26): only a failure
\* or a late run takes it away, and only until the next start of the process.
ChainHasJobs ==
    Up => \A row \in ActiveRows :
              row \in jobs \cup stray \/ row[1] \in ChainInHand

\* A text is worked on once, and once more for every process that ended before
\* it was confirmed.
MaxChains == MaxUpdates * (MaxCrashes + 1)

\* Every reminder of a chain rings in the end, across crashes, or its job is
\* among those a failure or a late run took away.
ChainRings ==
    \A c \in 1..MaxChains : \A i \in Places :
        <<c, i>> \in ActiveRows ~> <<c, i>> \notin ActiveRows \/ <<c, i>> \in stray

\* What users send is taken by a handler in the end (main.py:51), whether the
\* process was starting, polling, waiting or down when they sent it, unless a
\* process ended with it in the queue and already confirmed.
UpdatesAreHeard == \A n \in Ids : n <= sent ~> n \in heard \cup dropped

\* After an error of its start the loop goes on to another run_polling
\* (main.py:69, "restarting polling loop"; README.md:308, "retries
\* automatically"): only a crash ends a process that waits.
WaitEndsInRetry ==
    [][loop = "waiting" /\ loop' # "waiting" => loop' = "starting" \/ crashes' # crashes]_vars
=============================================================================
