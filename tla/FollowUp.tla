------------------------------ MODULE FollowUp ------------------------------
(***************************************************************************)
(* How a request is completed over several messages: what the rules read   *)
(* in a message, which slot of the draft an answer fills, what is asked    *)
(* next, and what a correction does to a draft, a proposal or the latest   *)
(* reminder.  It is the bot without a language model (agent.py and the     *)
(* bridge to it in ai/interpreter.py), as it also runs while the model     *)
(* fails.  Lists, plans and threads are in Conversation, what makes a      *)
(* complete reading be proposed in Judgement.                              *)
(***************************************************************************)
EXTENDS Integers, Sequences, FiniteSets, FiniteSetsExt

CONSTANTS
    Words,      \* texts, of which some are tasks and some are times
    Nothing,    \* no text: None in the code
    WakeUp,     \* the task of wake-ups
    ByNumber,   \* the selector text of a correction: "reminder #" and its number
    Messages,   \* what the user may send
    NumberIn,   \* the number a text consists of, 0 if it is not a number
    Labels,     \* the texts that match a reminder with a given task
    MaxMade,    \* bound: reminders
    MaxHeard    \* bound: messages

Sorts == {"create", "wake", "update", "delete", "chain", "set", "indirect",
          "words", "keep", "yes", "stop"}
Slot == Words \cup {Nothing}
Ids == 1..MaxMade

\* sort is what the rules take a message for when it stands alone.  fresh: it
\* looks like a new request.  signal: detect_repair_signal finds that it asks
\* for another time ("ask"; any text with "not" in it does) or gives one
\* ("time").  rewrites: it says "I meant" and a time, and perhaps "not" after
\* that.  which: it says "that one" of a reminder.  id: the first number in it.
Message ==
    [sort : Sorts, fresh : BOOLEAN, signal : {"none", "ask", "time"},
     rewrites : {"none", "time", "not"}, which : BOOLEAN, task : Slot, time : Slot,
     hint : Slot, id : 0..MaxMade, offsets : BOOLEAN, value : {"good", "bad"},
     text : Words]

\* split_task_and_time_phrase finds a task or a time in any text, both in what
\* is an indirect wish or a chain; wake-ups and "that one" begin like requests.
ASSUME FollowUpAssumption ==
    /\ Nothing \notin Words /\ {WakeUp, ByNumber} \subseteq Words
    /\ Messages \subseteq Message
    /\ \A m \in Messages :
           /\ m.sort = "wake" => m.fresh /\ m.task = WakeUp
           /\ m.which => m.fresh
           /\ m.sort \in {"words", "keep", "yes", "stop", "indirect"} => ~m.fresh
           /\ m.sort \in {"indirect", "chain"} => m.task # Nothing /\ m.time # Nothing
           /\ ~m.fresh => m.task # Nothing \/ m.time # Nothing
           /\ m.signal = "time" => m.time # Nothing
    /\ NumberIn \in [Words -> 0..MaxMade] /\ Labels \in [Words -> SUBSET Words]
    /\ MaxMade \in Nat /\ MaxHeard \in Nat

VARIABLES
    row,        \* the draft or the proposal that waits in the chat's row
    reminders,  \* reminders, in the order they were made
    discussed,  \* last_discussed_task
    heard,      \* how much of the bound is used
    (* What an observer would have noted; no guard reads these.              *)
    wish,       \* the message the present dialogue is about
    done        \* the draft that the latest message had carried out

vars == <<row, reminders, discussed, heard, wish, done>>

-----------------------------------------------------------------------------
(* Drafts: PendingConversationState, or the envelope of a proposal.        *)

Actions == {"none", "create", "update", "delete", "chain", "set"}
Fields == {"none", "task", "time", "target", "offsets", "value"}

Draft ==
    [action : Actions, task : Slot, time : Slot, id : 0..MaxMade, hint : Slot,
     ack : BOOLEAN, value : {"good", "bad"}]
Blank == [action |-> "none", task |-> Nothing, time |-> Nothing, id |-> 0,
          hint |-> Nothing, ack |-> FALSE, value |-> "good"]

Row == [kind : {"none", "draft", "proposal"}, draft : Draft, asked : Fields]
Empty == [kind |-> "none", draft |-> Blank, asked |-> "none"]
Pending(d, field) == [kind |-> "draft", draft |-> d, asked |-> field]
Proposed(d) == [kind |-> "proposal", draft |-> d, asked |-> "none"]

Reminder == [open : BOOLEAN, task : Slot, time : Slot, ack : BOOLEAN, wish : Message]
Open == {r \in DOMAIN reminders : reminders[r].open}
Latest == Max(Open)

\* Mutant: a change is not asked for its time.
AskedForTarget(d, offsets) ==
    IF d.action \in {"create", "chain"} /\ d.task = Nothing THEN "task"
    ELSE IF d.action \in {"update", "delete"} /\ d.id = 0 /\ d.hint = Nothing THEN "target"
    ELSE IF d.action \in {"create", "chain"} /\ d.time = Nothing THEN "time"
    ELSE IF d.action = "chain" /\ ~offsets THEN "offsets"
    ELSE IF d.action = "set" /\ d.value = "bad" THEN "value" ELSE "none"

\* What has to be asked for, by the checker or the rules; offsets tells if the
\* message held any, which a draft does not keep.
AskedBy(d, offsets) ==
    IF d.action \in {"create", "chain"} /\ d.task = Nothing THEN "task"
    ELSE IF d.action \in {"update", "delete"} /\ d.id = 0 /\ d.hint = Nothing THEN "target"
    ELSE IF d.action \in {"create", "chain", "update"} /\ d.time = Nothing THEN "time"
    ELSE IF d.action = "chain" /\ ~offsets THEN "offsets"
    ELSE IF d.action = "set" /\ d.value = "bad" THEN "value" ELSE "none"

First(slot, other) == IF slot # Nothing THEN slot ELSE other

-----------------------------------------------------------------------------
(* The rules.                                                              *)

\* interpret, for a message that stands alone.  A number anywhere in a change
\* is taken for the reminder's.
Read(m) ==
    CASE m.sort \in {"create", "indirect"} ->
             [Blank EXCEPT !.action = "create", !.task = m.task, !.time = m.time]
      [] m.sort = "wake" ->
             [Blank EXCEPT !.action = "create", !.task = WakeUp, !.time = m.time,
                           !.ack = TRUE]
      [] m.sort = "update" ->
             [Blank EXCEPT !.action = "update", !.id = m.id, !.hint = m.hint,
                           !.time = m.time]
      [] m.sort = "delete" ->
             [Blank EXCEPT !.action = "delete", !.id = m.id, !.hint = m.hint]
      [] m.sort = "chain" ->
             [Blank EXCEPT !.action = "chain", !.task = m.task, !.time = m.time]
      [] m.sort = "set" -> [Blank EXCEPT !.action = "set", !.value = m.value]
      [] OTHER -> Blank

\* The text goes to the first slot that is empty; a slot takes the text as it
\* stands.
ContinueChange(d, m) ==
    [Blank EXCEPT !.action = "update", !.id = d.id, !.hint = First(d.hint, m.text),
                  !.time = IF d.hint = Nothing THEN d.time ELSE First(d.time, m.text)]
ContinueChain(d, m) ==
    [Blank EXCEPT !.action = "chain", !.task = First(d.task, m.text),
                  !.time = IF d.task = Nothing THEN d.time ELSE First(d.time, m.text)]

\* Mutant: a wake-up goes on as a reminder.
ContinueAsleep(d, m) ==
    [Blank EXCEPT !.action = "create",
                  !.task = First(d.task, m.task), !.time = First(d.time, m.time)]

\* Mutant: the answer replaces what is known already.
ContinueOver(d, m) ==
    [Blank EXCEPT !.action = "create", !.ack = d.ack,
                  !.task = First(m.task, d.task), !.time = First(m.time, d.time)]

\* Mutant: an answer that holds a time is not searched for a task.
ContinueSingle(d, m) ==
    [Blank EXCEPT !.action = "create", !.ack = d.ack, !.time = First(d.time, m.time),
                  !.task = IF m.time = Nothing THEN First(d.task, m.task) ELSE d.task]

\* A new reminder takes the task and the time that are found in the text, if
\* it lacks them.
ContinueCreation(d, m) ==
    [Blank EXCEPT !.action = "create", !.ack = d.ack,
                  !.task = First(d.task, m.task), !.time = First(d.time, m.time)]

\* _continue_pending.  A cancellation takes the text for its target, whatever
\* it had; a preference keeps its value.
Continue(d, m) ==
    CASE d.action = "create" -> ContinueCreation(d, m)
      [] d.action = "delete" -> [Blank EXCEPT !.action = "delete", !.hint = m.text]
      [] d.action = "update" -> ContinueChange(d, m)
      [] d.action = "chain"  -> ContinueChain(d, m)
      [] OTHER -> d

\* Offsets are looked for in a message that stands alone, and once the task and
\* the deadline are known.
OffsetsFound(d, m) ==
    m.offsets /\ (d.action = "chain" => d.task # Nothing /\ d.time # Nothing)

-----------------------------------------------------------------------------
(* Carrying out, _execute_action.                                          *)

\* Mutant: when the number is not open, the text decides.
FitsElse(d, r) ==
    /\ r \in Open
    /\ IF d.id \in Open THEN r = d.id
       ELSE NumberIn[d.hint] = r \/ d.hint \in Labels[reminders[r].task]

\* TargetResolver: by number, or by likeness of the text.
Fits(d, r) ==
    /\ r \in Open
    /\ IF d.id # 0 THEN r = d.id
       ELSE NumberIn[d.hint] = r \/ d.hint \in Labels[reminders[r].task]

Make(d) ==
    /\ d.action = "create" /\ Len(reminders) < MaxMade
    /\ reminders' = Append(reminders, [open |-> TRUE, task |-> d.task,
                           time |-> d.time, ack |-> d.ack, wish |-> wish'])
    /\ discussed' = d.task

Change(d, r) ==
    /\ d.action = "update" /\ Fits(d, r)
    /\ reminders' = [reminders EXCEPT ![r].time = d.time]

Cancel(d, r) ==
    /\ d.action = "delete" /\ Fits(d, r)
    /\ reminders' = [reminders EXCEPT ![r].open = FALSE]
    /\ discussed' = reminders[r].task

\* pre_general_indirect is noted before anything else is made of the message.
Noted(m) == discussed' = IF m.sort = "indirect" THEN m.task ELSE discussed

\* It fails, several reminders fit, or there is none; a chain of the rules has
\* no offsets and makes no reminders.
Fail(m) == reminders' = reminders /\ Noted(m)

CarryOut(d, m) ==
    /\ \/ Make(d)
       \/ \E r \in Ids : (Change(d, r) /\ Noted(m)) \/ Cancel(d, r)
       \/ Fail(m)
    /\ row' = Empty /\ done' = d

-----------------------------------------------------------------------------
(* handle_user_message.                                                    *)

Init ==
    /\ row = Empty /\ reminders = <<>> /\ discussed = Nothing /\ heard = 0
    /\ done = Blank /\ wish \in Messages

Say(m) == heard < MaxHeard /\ heard' = heard + 1

\* The row as a new request leaves it.
Kept(m) == IF m.fresh THEN Empty ELSE row

\* An observer's note: only an answer to a question goes on with a dialogue.
WishAfter(m) == IF Kept(m).kind = "draft" THEN wish ELSE m

\* _conversation_task_time.
CurrentTask ==
    IF row.kind # "none" THEN row.draft.task
    ELSE IF discussed # Nothing THEN discussed
    ELSE IF Open # {} THEN reminders[Latest].task ELSE Nothing

\* "Keep the task, change the time."  What was being completed, or had been
\* spoken about, becomes a new reminder; a proposal stays what it is.
KeepTask(m) ==
    /\ Say(m) /\ m.sort = "keep" /\ CurrentTask # Nothing
    /\ row' = Pending(
           CASE row.kind = "proposal" -> row.draft
             [] row.kind = "draft"    -> [row.draft EXCEPT !.action = "create"]
             [] OTHER -> [Blank EXCEPT !.action = "create", !.task = CurrentTask],
           "time")
    /\ wish' = IF row.kind = "none" THEN m ELSE wish
    /\ done' = Blank
    /\ UNCHANGED <<reminders, discussed>>

GoesOn(m) == Say(m) /\ ~(m.sort = "keep" /\ CurrentTask # Nothing)

\* The reminder is not named and several are open.
AskWhich(m) ==
    /\ GoesOn(m) /\ m.which /\ m.sort \in {"update", "delete"} /\ Cardinality(Open) > 1
    /\ row' = Pending([Blank EXCEPT !.action = m.sort], "target")
    /\ wish' = m /\ done' = Blank
    /\ UNCHANGED <<reminders, discussed>>

Considered(m) ==
    GoesOn(m) /\ ~(m.which /\ m.sort \in {"update", "delete"} /\ Cardinality(Open) > 1)

\* Nothing waits, and the message is no request: it is chatted about.
SmallTalk(m) ==
    /\ Considered(m) /\ row.kind = "none" /\ ~m.fresh /\ m.sort # "indirect"
    /\ done' = Blank
    /\ UNCHANGED <<row, reminders, discussed, wish>>

ToProposal(m) == Considered(m) /\ Kept(m).kind = "proposal"

Agree(m) ==
    /\ ToProposal(m) /\ m.sort = "yes"
    /\ wish' = wish
    /\ CarryOut(row.draft, m)

Refuse(m) ==
    /\ ToProposal(m) /\ m.sort = "stop"
    /\ row' = Empty /\ done' = Blank
    /\ UNCHANGED <<reminders, discussed, wish>>

Corrects(m) ==
    /\ ToProposal(m) /\ m.sort \notin {"yes", "stop"}
    /\ m.signal # "none" \/ m.rewrites # "none" \/ m.sort = "keep"

\* The proposal becomes a draft, and a time is asked for.
Correct(m) ==
    /\ Corrects(m)
    /\ m.rewrites = "none" \/ (m.rewrites = "not" /\ Open = {})
    /\ row' = Pending(row.draft, "time") /\ done' = Blank /\ Noted(m)
    /\ UNCHANGED <<reminders, wish>>

\* "I meant 2 PM": the draft is saved, then the time is read as a message of
\* its own, not understood, and the draft cleared.
LoseCorrected(m) ==
    /\ Corrects(m) /\ m.rewrites = "time"
    /\ row' = Empty /\ done' = Blank /\ Noted(m)
    /\ UNCHANGED <<reminders, wish>>

\* latest_to_draft, latest_to_target.
LatestDraft ==
    [Blank EXCEPT !.action = "update", !.task = reminders[Latest].task, !.id = Latest,
                  !.hint = ByNumber, !.ack = reminders[Latest].ack]

\* A correction of a proposal that still says "not" when it is rewritten is
\* taken for another correction.
SignalOf(m) ==
    IF Kept(m).kind # "proposal" THEN m.signal
    ELSE IF Corrects(m) /\ m.rewrites = "not" THEN "ask" ELSE "none"

\* _try_repair_conversation: the latest reminder is to be changed, whatever
\* the message was about.
RepairLatest(m) ==
    /\ Considered(m) /\ SignalOf(m) # "none" /\ Open # {}
    /\ row' = IF SignalOf(m) = "ask" THEN Pending(LatestDraft, "time")
              ELSE Proposed([LatestDraft EXCEPT !.time = m.time])
    /\ wish' = [m EXCEPT !.sort = "words", !.id = Latest, !.which = FALSE]
    /\ done' = Blank /\ Noted(m)
    /\ UNCHANGED reminders

\* There is no reminder to correct: "what time should I use instead?"
RepairNone(m) ==
    /\ Considered(m) /\ Kept(m).kind # "proposal"
    /\ m.signal = "ask" /\ Open = {}
    /\ row' = Kept(m) /\ done' = Blank /\ Noted(m)
    /\ UNCHANGED <<reminders, wish>>

\* Everything else is interpreted, the answer to a question with its draft.
Interpreted(m) ==
    /\ Considered(m)
    /\ m.signal = "none" \/ (m.signal = "time" /\ Open = {})
    /\ Kept(m).kind = "proposal" => m.sort \notin {"yes", "stop"} /\ ~Corrects(m)

Answers(m) == Kept(m).kind = "draft"
Reading(m) == IF Answers(m) THEN Continue(row.draft, m) ELSE Read(m)
Question(m) ==
    AskedBy(Reading(m), IF Answers(m) THEN OffsetsFound(row.draft, m) ELSE m.offsets)

Misunderstand(m) ==
    /\ Interpreted(m) /\ Reading(m).action = "none"
    /\ row' = Empty /\ done' = Blank /\ Noted(m)
    /\ UNCHANGED <<reminders, wish>>

Ask(m) ==
    /\ Interpreted(m) /\ Reading(m).action # "none" /\ Question(m) # "none"
    /\ row' = Pending(Reading(m), Question(m))
    /\ wish' = WishAfter(m) /\ done' = Blank /\ Noted(m)
    /\ UNCHANGED reminders

Understood(m) ==
    Interpreted(m) /\ Reading(m).action # "none" /\ Question(m) = "none"

\* Wake-ups and indirect wishes are always proposed; what else is, Judgement
\* and the learned risk say.
Sensitive(m) == Reading(m).ack \/ (m.sort = "indirect" /\ ~Answers(m))

Propose(m) ==
    /\ Understood(m) /\ Reading(m).action # "set"
    /\ row' = Proposed(Reading(m))
    /\ wish' = WishAfter(m) /\ done' = Blank /\ Noted(m)
    /\ UNCHANGED reminders

Execute(m) ==
    /\ Understood(m) /\ ~Sensitive(m)
    /\ wish' = WishAfter(m)
    /\ CarryOut(Reading(m), m)

\* A reminder is acknowledged, cancelled or given up elsewhere.
Close(r) ==
    /\ r \in Open
    /\ reminders' = [reminders EXCEPT ![r].open = FALSE]
    /\ UNCHANGED <<row, discussed, heard, wish, done>>

\* The bound is used up.
Horizon == heard = MaxHeard /\ UNCHANGED vars

-----------------------------------------------------------------------------
Hear(m) ==
    \/ KeepTask(m) \/ AskWhich(m) \/ SmallTalk(m)
    \/ Agree(m) \/ Refuse(m) \/ Correct(m) \/ LoseCorrected(m)
    \/ RepairLatest(m) \/ RepairNone(m)
    \/ Misunderstand(m) \/ Ask(m) \/ Propose(m) \/ Execute(m)

Next ==
    \/ \E m \in Messages : Hear(m)
    \/ \E r \in Ids : Close(r)
    \/ Horizon

Spec == Init /\ [][Next]_vars

-----------------------------------------------------------------------------
(* Properties.                                                             *)

\* The shape of the state.
TypeOK ==
    /\ row \in Row /\ done \in Draft /\ wish \in Message
    /\ reminders \in Seq(Reminder) /\ Len(reminders) <= MaxMade
    /\ discussed \in Slot /\ heard \in 0..MaxHeard

\* The slots without which a draft cannot be carried out.
Complete(d) ==
    CASE d.action \in {"create", "chain"} -> d.task # Nothing /\ d.time # Nothing
      [] d.action = "update" -> (d.id # 0 \/ d.hint # Nothing) /\ d.time # Nothing
      [] d.action = "delete" -> d.id # 0 \/ d.hint # Nothing
      [] OTHER -> d.action = "set" /\ d.value = "good"

\* Nothing is proposed or carried out while a slot it needs is empty, by
\* whatever questions, answers and corrections it came about: rules and
\* checker look at a reading, nobody at a saved draft (checker.py:29,
\* interpretation_service.py:390).
CompleteOnly ==
    /\ row.kind = "proposal" => Complete(row.draft)
    /\ done.action # "none" => Complete(done)

\* A wish that names its reminder; a number next to "that one" names nothing.
Names(w) == w.id # 0 /\ ~w.which

\* A draft or a proposal is about what the message that opened its dialogue
\* said, however many turns ago that was: the task of a new reminder or a
\* chain, and the reminder a change names (agent.py:127).
AboutTheWish(d, w) ==
    /\ d.action = "create" /\ w.sort \in {"create", "wake", "indirect"} =>
           First(w.task, d.task) = d.task
    /\ d.action = "chain" /\ w.sort = "chain" => d.task = w.task
    /\ d.action = "update" /\ Names(w) => d.id = w.id

WishIsKept ==
    /\ row.kind # "none" => AboutTheWish(row.draft, wish)
    /\ \A r \in DOMAIN reminders :
           reminders[r].wish.sort \in {"create", "wake", "indirect"} =>
               First(reminders[r].wish.task, reminders[r].task) = reminders[r].task

\* What is asked for as a wake-up becomes a reminder to be acknowledged, and
\* an ordinary request does not, through questions and corrections
\* (agent.py:153).
WakeUpStaysWakeUp ==
    \A r \in DOMAIN reminders :
        /\ reminders[r].wish.sort = "wake" => reminders[r].ack
        /\ reminders[r].wish.sort \in {"create", "indirect"} => ~reminders[r].ack

\* A wish that names a reminder by its number, or a correction, which names
\* the latest, never gives another one a new time, be the reminder closed
\* before the wish is confirmed (resolver.py:31).
OnlyTheNamed ==
    [][\A r \in DOMAIN reminders :
          reminders'[r].time # reminders[r].time /\ Names(wish)' => r = wish'.id]_vars

\* The slot an answer is to fill, and what it says.
Given(m) ==
    IF row.draft.action = "create" THEN IF row.asked = "task" THEN m.task ELSE m.time
    ELSE m.text
Held(d, field) ==
    CASE field = "task" -> d.task [] field = "time" -> d.time
      [] field = "target" -> d.hint [] OTHER -> Nothing

\* What became of the draft.
Outcome == IF row'.kind # "none" THEN row'.draft ELSE done'

\* An answer that gives what was asked for is taken: it is what the draft then
\* holds, or what is proposed or carried out, and the question is not asked
\* again (README.md:37).  Except when the draft held a time already, and when
\* a change knows its reminder by number only: see NewTimeIsUsed.
AnswerIsTaken ==
    [][\A m \in Messages :
          /\ Interpreted(m) /\ Answers(m)
          /\ row.asked \in {"task", "time", "target"} /\ Given(m) # Nothing
          /\ row.draft.action \in {"create", "update", "delete", "chain"}
          /\ Held(row.draft, row.asked) = Nothing
          /\ row.asked = "time" =>
                 /\ row.draft.action # "delete"
                 /\ ~(row.draft.action = "update" /\ row.draft.hint = Nothing)
          /\ Ask(m) \/ Propose(m) \/ Execute(m)
          => Held(Outcome, row.asked) = Given(m) /\ row'.asked # row.asked]_vars

\* The claim of interpretation_service.py:266 and 387: asked for another time,
\* the user gives one, and it is the time of the new reminder.
NewTimeIsUsed ==
    [][\A m \in Messages :
          /\ Interpreted(m) /\ Answers(m) /\ row.draft.action = "create"
          /\ row.asked = "time" /\ m.time # Nothing
          /\ Ask(m) \/ Propose(m) \/ Execute(m)
          => Outcome.time = m.time]_vars

=============================================================================
