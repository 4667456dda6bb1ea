---------------------------- MODULE Conversation ----------------------------
(***************************************************************************)
(* The dialogue of one chat: proposals that wait for a confirmation, plans *)
(* of several reminders, follow-up questions, and the one                  *)
(* ConversationState row they all share.  The bot thread handles one       *)
(* update of the chat at a time, but a handler commits several times and   *)
(* may fail, or the process may crash, between two commits; an update      *)
(* whose offset Telegram has not seen is then delivered again.             *)
(*                                                                         *)
(* A text is one of the classes the code tells apart; what the language    *)
(* models make of one is a free choice.  A wish stands for an action with  *)
(* all its fields.  Of a reminder only its moment counts: whether its next *)
(* run is still, or again, the one some wish asks for.                     *)
(***************************************************************************)
EXTENDS Integers, Sequences, FiniteSets

CONSTANTS
    Creates,         \* wishes for a new reminder
    Exact,           \* those for one task at one moment that dateparser, which
                     \* the duplicate test uses, reads as the schedule parser
                     \* does; the others recur, are a chain, or are read apart
    Changes,         \* wishes that change or cancel an existing reminder
    Plans,           \* item lists the planner or a screenshot may yield
    Texts,           \* classes of texts the user may send
    Llm,             \* the router asks its language model too
    MaxOffers,       \* bound: proposals
    MaxUpdates,      \* bound: updates the user causes
    MaxFailures,     \* bound: exceptions in a handler
    MaxCrashes,      \* bound: process crashes
    MaxRedeliveries  \* bound: updates delivered again

TextClasses == {"yes", "no", "stop", "list", "which", "request", "need",
                "multi", "chat", "repair", "retime"}

ASSUME ConversationAssumption ==
    /\ Creates \cap (Changes \cup {"elsewhere", "ended"}) = {}
    /\ Exact \subseteq Creates
    /\ Plans \subseteq Seq(Creates)
    /\ Texts \subseteq TextClasses
    /\ Llm \in BOOLEAN
    /\ MaxOffers \in Nat /\ MaxUpdates \in Nat
    /\ MaxFailures \in Nat /\ MaxCrashes \in Nat /\ MaxRedeliveries \in Nat

VARIABLES
    conv,    \* the chat's ConversationState row
    reminders, \* how many are open at the moment of each wish, how many are
             \* open elsewhere, and how many have ended
    bot,     \* the update handler in progress
    screen,  \* proposals whose keyboard is on the user's screen
    choosable, \* changes whose keyboard asks which reminder is meant
    last,    \* the latest update the process took
    updates, failures, crashes, redeliveries, \* how much of each bound is used
    (* What an observer would have noted; no guard reads these.              *)
    offer,   \* the proposals saved so far, in order
    made,    \* items carried out for each proposal
    refused, \* proposals the user was told are cancelled
    unsought \* wishes at whose moment a reminder was put without a look at
             \* what is there: by a plan, a change, a snooze or a retry

boundVars == <<updates, failures, crashes, redeliveries>>
reminderVars == <<reminders, unsought>>
keyboards == <<screen, choosable>>
vars == <<conv, reminderVars, bot, keyboards, last, boundVars, offer, made,
          refused>>

-----------------------------------------------------------------------------
(* The row, the updates and the handler.                                   *)

Wishes == Creates \cup Changes
Ids == 1 .. MaxOffers
None == 0

Proposal == [form : {"confirm", "plan"}, wishes : Seq(Wishes)]

\* pending_intent; a thread that is idle does what no row does.
Row == [kind : {"none", "thread", "follow_up"}, id : {None}]
       \cup [kind : {"confirm", "plan"}, id : Ids]
Is(kind) == [kind |-> kind, id |-> None]

\* clear_*: each deletes the row only when it is of its own kind.
Clear(kinds, c) == IF c.kind \in kinds THEN Is("none") ELSE c

TextUpdate(t) == [sort |-> "text", says |-> t, on |-> None]
Press(choice, p) == [sort |-> "button", says |-> choice, on |-> p]
Photo == [sort |-> "photo", says |-> "screenshot", on |-> None]
NoUpdate == [sort |-> "none", says |-> "nothing", on |-> None]

Choices == {"confirm", "edit", "cancel"}
Update == [sort : {"text", "button", "photo", "none"},
           says : TextClasses \cup Choices
                  \cup {"resolve", "screenshot", "nothing"},
           on : {None} \cup Ids \cup Changes]

\* id is the confirmed proposal the handler carries out, if any, todo what is
\* left of it, shows the proposal whose keyboard the reply brings, and asks
\* the change for which the reply lets the user choose a reminder.
Handler ==
    [pc : {"idle", "interpret", "carry_out", "reply", "sorry"},
     update : Update, id : {None} \cup Ids, todo : Seq(Wishes),
     shows : {None} \cup Ids, asks : SUBSET Changes]
Handling(pc, u) == [pc |-> pc, update |-> u, id |-> None, todo |-> <<>>,
                    shows |-> None, asks |-> {}]
Idle == Handling("idle", NoUpdate)
Reply(u) == Handling("reply", u)
ReplyWithKeyboard(u, p) == [Reply(u) EXCEPT !.shows = p]
CarryOut(u, p, wishes) ==
    [Handling("carry_out", u) EXCEPT !.id = p, !.todo = wishes]

OpenPlaces == Creates \cup {"elsewhere"}
Places == OpenPlaces \cup {"ended"}

SomeOpen == \E p \in OpenPlaces : reminders[p] > 0
SeveralOpen ==
    \E p \in OpenPlaces : reminders[p] > 1 \/ \E q \in OpenPlaces \ {p} :
        reminders[p] > 0 /\ reminders[q] > 0

\* A reminder gets another next run, ends, or is opened again; nobody looks
\* whether one with its task is at that moment already.
MoveReminder(from, to) ==
    /\ reminders[from] > 0
    /\ reminders' = IF from = to THEN reminders
                    ELSE [reminders EXCEPT ![from] = @ - 1, ![to] = @ + 1]
    /\ unsought' = unsought \cup (({to} \cap Creates) \ {from})

\* Saving a proposal overwrites whatever the row held.
Save(form, wishes) ==
    /\ Len(offer) < MaxOffers
    /\ offer' = Append(offer, [form |-> form, wishes |-> wishes])
    /\ conv' = [kind |-> form, id |-> Len(offer) + 1]

Waiting(kind) == kind \in {"confirm", "plan"}
NewRequests == {"list", "which", "request", "multi"}
Refusals == {"no", "stop"}

RouteNames == {"confirmation_reply", "repair_conversation",
               "reminder_conversation", "general_chat"}

\* _heuristic_route.
HeuristicRoute(t, kind) ==
    IF t \in {"yes", "no"} /\ Waiting(kind) THEN "confirmation_reply"
    ELSE IF t \in {"repair", "retime"} THEN "repair_conversation"
    ELSE IF t \in {"request", "need", "multi", "which"} \/ (kind # "none" /\ t # "chat")
    THEN "reminder_conversation" ELSE "general_chat"

\* The model's answer counts unless it makes small talk of something that
\* looks operational, or misses the answer to a pending confirmation.
Routes(t, kind) ==
    LET h == HeuristicRoute(t, kind)
    IN IF ~Llm \/ (Waiting(kind) /\ h = "confirmation_reply") THEN {h}
       ELSE {h, "reminder_conversation", "confirmation_reply",
             "repair_conversation"}

Consents(t, route) == t = "yes" \/ route = "confirmation_reply"

\* Mutant: the row of a single action stays too, to be cleared after the work.
AfterConsentKept(c) == c

\* Mutant: a plan's row goes before its loop, like a single action's.
AfterConsentForgotten(c) == Clear({"confirm", "plan"}, c)

\* What consent does to the row before the work: a single action's row goes,
\* a plan's stays until its loop has ended.
AfterConsent(c) == Clear({"confirm"}, c)

\* Mutant: a refusal forgets a single action only.
AfterRefusalOfAction(c) == Clear({"confirm"}, c)

AfterRefusal(c) == Clear({"confirm", "plan"}, c)

-----------------------------------------------------------------------------
(* handle_user_message, up to the interpreter: the branches in the order   *)
(* the code tries them.                                                    *)

Init ==
    /\ conv = Is("none")
    /\ reminders = [p \in Places |-> 0]
    /\ bot = Idle
    /\ screen = {} /\ choosable = {}
    /\ last = NoUpdate
    /\ updates = 0 /\ failures = 0 /\ crashes = 0 /\ redeliveries = 0
    /\ offer = <<>>
    /\ made = [p \in Ids |-> 0]
    /\ refused = {} /\ unsought = {}

\* The process takes update u: a new one, or the latest once more.
Take(u) ==
    /\ bot.pc = "idle"
    /\ last' = u
    /\ \/ updates < MaxUpdates /\ updates' = updates + 1
          /\ UNCHANGED redeliveries
       \/ u = last /\ redeliveries < MaxRedeliveries
          /\ redeliveries' = redeliveries + 1 /\ UNCHANGED updates
    /\ UNCHANGED <<reminderVars, keyboards, failures, crashes, made>>

Hear(t, route) == Take(TextUpdate(t)) /\ route \in Routes(t, conv.kind)

AgreeToPlan(t, route) ==
    /\ Hear(t, route)
    /\ conv.kind = "plan" /\ Consents(t, route)
    /\ conv' = AfterConsent(conv)
    /\ bot' = CarryOut(TextUpdate(t), conv.id, offer[conv.id].wishes)
    /\ UNCHANGED <<offer, refused>>

RefusePlan(t, route) ==
    /\ Hear(t, route)
    /\ conv.kind = "plan" /\ ~Consents(t, route) /\ t \in Refusals
    /\ conv' = AfterRefusal(conv)
    /\ refused' = refused \cup {conv.id}
    /\ bot' = Reply(TextUpdate(t))
    /\ UNCHANGED offer

\* The text is not an answer to a plan; a new request drops the plan.
NoPlanAnswer(t, route) ==
    /\ Hear(t, route)
    /\ conv.kind = "plan" => ~Consents(t, route) /\ t \notin Refusals

AfterPlan(t) == IF t \in NewRequests THEN Clear({"plan"}, conv) ELSE conv

\* "Keep the task, change the time": the draft becomes a follow-up question.
ChangeTimeOnly(t, route) ==
    /\ NoPlanAnswer(t, route)
    /\ t = "retime"
    /\ conv' = Is("follow_up")
    /\ bot' = Reply(TextUpdate(t))
    /\ UNCHANGED <<offer, refused>>

\* Lists are answered before any pending state is looked at.
ListFirst(t, route) ==
    /\ NoPlanAnswer(t, route)
    /\ t = "list"
    /\ conv' = AfterPlan(t)
    /\ bot' = Reply(TextUpdate(t))
    /\ UNCHANGED <<offer, refused>>

AskWhich(t, route) ==
    /\ NoPlanAnswer(t, route)
    /\ t = "which" /\ SeveralOpen
    /\ conv' = Is("follow_up")
    /\ bot' = Reply(TextUpdate(t))
    /\ UNCHANGED <<offer, refused>>

\* None of the early answers applies.  "Keep the task" goes on as an ordinary
\* text when there is no task to keep.
GoesOn(t, route) ==
    /\ NoPlanAnswer(t, route)
    /\ t # "list"
    /\ t = "which" => ~SeveralOpen
    /\ t = "retime" => conv.kind # "confirm"

IsSmallTalk(t, route) ==
    /\ route = "general_chat"
    /\ AfterPlan(t).kind \in {"none", "thread"}
    /\ t \notin NewRequests \cup {"need"}

SmallTalk(t, route) ==
    /\ GoesOn(t, route) /\ IsSmallTalk(t, route)
    /\ conv' = Clear({"thread"}, conv)
    /\ bot' = Reply(TextUpdate(t))
    /\ UNCHANGED <<offer, refused>>

\* A new request drops what was pending, and a conversation about reminders
\* with nothing pending is noted as a thread.
Prepared(t, route) ==
    LET c == IF t \in NewRequests
             THEN Clear({"follow_up", "confirm"}, AfterPlan(t)) ELSE conv
    IN IF /\ route \in {"reminder_conversation", "repair_conversation"}
          /\ c.kind = "none"
       THEN Is("thread") ELSE c

Considers(t, route) == GoesOn(t, route) /\ ~IsSmallTalk(t, route)

ProposePlan(t, route) ==
    /\ Considers(t, route)
    /\ t = "multi"
    /\ \E items \in Plans : Save("plan", items)
    /\ bot' = ReplyWithKeyboard(TextUpdate(t), Len(offer) + 1)
    /\ UNCHANGED refused

\* The text meets a single action that waits for its confirmation.
Answers(t, route) ==
    /\ Considers(t, route)
    /\ t # "multi"
    /\ Prepared(t, route).kind = "confirm"

AgreeToAction(t, route) ==
    /\ Answers(t, route)
    /\ Consents(t, route)
    /\ conv' = AfterConsent(conv)
    /\ bot' = CarryOut(TextUpdate(t), conv.id, offer[conv.id].wishes)
    /\ UNCHANGED <<offer, refused>>

RefuseAction(t, route) ==
    /\ Answers(t, route)
    /\ ~Consents(t, route) /\ t \in Refusals
    /\ conv' = AfterRefusal(conv)
    /\ refused' = refused \cup {conv.id}
    /\ bot' = Reply(TextUpdate(t))
    /\ UNCHANGED offer

\* The draft goes back to a follow-up; a correction that names a time is
\* interpreted at once.
CorrectsAction(t, route) ==
    /\ Answers(t, route)
    /\ ~Consents(t, route) /\ t \notin Refusals
    /\ route = "repair_conversation" \/ t = "repair"

RepairAction(t, route) ==
    /\ CorrectsAction(t, route)
    /\ conv' = Is("follow_up")
    /\ \/ bot' = Reply(TextUpdate(t))
       \/ t = "repair" /\ bot' = Handling("interpret", TextUpdate(t))
    /\ UNCHANGED <<offer, refused>>

\* _try_repair_conversation: the latest open reminder is corrected.
RepairLatest(t, route) ==
    /\ Considers(t, route)
    /\ t = "repair" /\ ~Answers(t, route)
    /\ \/ /\ SomeOpen
          /\ \E w \in Changes : Save("confirm", <<w>>)
          /\ bot' = ReplyWithKeyboard(TextUpdate(t), Len(offer) + 1)
       \/ /\ SomeOpen
          /\ conv' = Is("follow_up")
          /\ bot' = Reply(TextUpdate(t))
          /\ UNCHANGED offer
       \/ /\ ~SomeOpen
          /\ conv' = Prepared(t, route)
          /\ bot' = Reply(TextUpdate(t))
          /\ UNCHANGED offer
    /\ UNCHANGED refused

Interpret(t, route) ==
    /\ Considers(t, route)
    /\ t # "multi"
    /\ ~(Answers(t, route) /\ (Consents(t, route) \/ t \in Refusals))
    /\ ~CorrectsAction(t, route)
    /\ conv' = Prepared(t, route)
    /\ bot' = Handling("interpret", TextUpdate(t))
    /\ UNCHANGED <<offer, refused>>

-----------------------------------------------------------------------------
(* handle_user_message from the interpreter on.  The row is saved or       *)
(* cleared without asking what it holds by then.                           *)

UnchangedInStep == UNCHANGED <<keyboards, last, boundVars, refused>>

\* Something is missing: the draft is saved as a follow-up.
AskMore ==
    /\ bot.pc = "interpret"
    /\ conv' = Is("follow_up")
    /\ bot' = Reply(bot.update)
    /\ UNCHANGED <<reminderVars, offer, made>> /\ UnchangedInStep

AskConfirmation ==
    /\ bot.pc = "interpret"
    /\ \E w \in Wishes : Save("confirm", <<w>>)
    /\ bot' = ReplyWithKeyboard(bot.update, Len(offer) + 1)
    /\ UNCHANGED <<reminderVars, made>> /\ UnchangedInStep

\* Sure enough to act, or nothing to do but answer.
Act ==
    /\ bot.pc = "interpret"
    /\ conv' = Clear({"follow_up", "confirm", "thread"}, conv)
    /\ \/ \E w \in Wishes : bot' = CarryOut(bot.update, None, <<w>>)
       \/ bot' = Reply(bot.update)
    /\ UNCHANGED <<reminderVars, offer, made>> /\ UnchangedInStep

-----------------------------------------------------------------------------
(* Carrying out: _execute_action and _execute_multi_plan_state.            *)

InPlan == bot.id # None /\ offer[bot.id].form = "plan"

\* Mutant: what the user confirmed is made without looking for a duplicate.
DuplicateUnconfirmed(w) == w \in Exact /\ reminders[w] > 0 /\ bot.id = None

\* Looked for before a single reminder is made, confirmed or not.  A reminder
\* of the same task whose next run is the wished moment is found; what else
\* lies within 20 minutes, or has the same key, may be: see SkipItem.
Duplicate(w) == w \in Exact /\ reminders[w] > 0

\* The handler after one item: a plan goes on, a single action answers.
ItemDone ==
    IF InPlan THEN [bot EXCEPT !.todo = Tail(@)] ELSE Reply(bot.update)

\* A new reminder is put at its moment; only a plan does not look first.
Create(w) ==
    /\ w \in Creates
    /\ ~InPlan => ~Duplicate(w)
    /\ reminders' = [reminders EXCEPT ![w] = @ + 1]
    /\ unsought' = IF InPlan THEN unsought \cup {w} ELSE unsought

\* The reminder meant is cancelled or gets another time.  One picked on a
\* keyboard may have ended since the keyboard was sent: nobody looks.
Change(w) ==
    /\ w \in Changes
    /\ \E from \in IF bot.update.says = "resolve" THEN Places ELSE OpenPlaces,
          to \in Places : MoveReminder(from, to)

CarryOutItem ==
    /\ bot.pc = "carry_out" /\ bot.todo # <<>>
    /\ Create(Head(bot.todo)) \/ Change(Head(bot.todo))
    /\ bot' = ItemDone
    /\ made' = IF bot.id = None THEN made ELSE [made EXCEPT ![bot.id] = @ + 1]
    /\ UNCHANGED <<conv, offer>> /\ UnchangedInStep

\* A duplicate, a time that cannot be read, a target that is gone: the reply
\* says so.
SkipItem ==
    /\ bot.pc = "carry_out" /\ bot.todo # <<>>
    /\ bot' = ItemDone
    /\ UNCHANGED <<conv, reminderVars, offer, made>> /\ UnchangedInStep

\* Several reminders may be meant: the reply asks which, with a keyboard.  A
\* press on "confirm" answers with the text only, and a press on this very
\* keyboard has named its reminder.
OfferChoice ==
    /\ bot.pc = "carry_out" /\ bot.todo # <<>> /\ ~InPlan
    /\ bot.update.sort = "text"
    /\ Head(bot.todo) \in Changes /\ SeveralOpen
    /\ bot' = [Reply(bot.update) EXCEPT !.asks = {Head(bot.todo)}]
    /\ UNCHANGED <<conv, reminderVars, offer, made>> /\ UnchangedInStep

EndOfPlan ==
    /\ bot.pc = "carry_out" /\ InPlan /\ bot.todo = <<>>
    /\ conv' = Clear({"plan"}, conv)
    /\ bot' = Reply(bot.update)
    /\ UNCHANGED <<reminderVars, offer, made>> /\ UnchangedInStep

SendReply ==
    /\ bot.pc = "reply"
    /\ screen' = IF bot.shows = None THEN screen ELSE screen \cup {bot.shows}
    /\ choosable' = choosable \cup bot.asks
    /\ bot' = Idle
    /\ UNCHANGED <<conv, reminderVars, last, boundVars, offer, made, refused>>

\* The last resort of every handler: it tells the user that it failed.
Apologise ==
    /\ bot.pc = "sorry"
    /\ bot' = Idle
    /\ UNCHANGED <<conv, reminderVars, offer, made>> /\ UnchangedInStep

HandlerFails ==
    /\ bot.pc \in {"interpret", "carry_out", "reply"}
    /\ failures < MaxFailures
    /\ failures' = failures + 1
    /\ bot' = [bot EXCEPT !.pc = "sorry", !.todo = <<>>, !.shows = None,
                          !.asks = {}]
    /\ UNCHANGED <<conv, reminderVars, keyboards, last, updates, crashes,
                   redeliveries, offer, made, refused>>

-----------------------------------------------------------------------------
(* handle_confirmation_choice, handle_resolution_choice and the screenshot *)
(* import.                                                                 *)

\* The callback data is "confirm:<choice>": it does not say which proposal
\* the keyboard belongs to.
PressConfirm(p) ==
    /\ p \in screen
    /\ Take(Press("confirm", p))
    /\ IF Waiting(conv.kind)
       THEN /\ conv' = AfterConsent(conv)
            /\ bot' = CarryOut(Press("confirm", p), conv.id,
                               offer[conv.id].wishes)
       ELSE /\ bot' = Reply(Press("confirm", p))
            /\ UNCHANGED conv
    /\ UNCHANGED <<offer, refused>>

PressCancel(p) ==
    /\ p \in screen
    /\ Take(Press("cancel", p))
    /\ conv' = IF Waiting(conv.kind) THEN AfterRefusal(conv) ELSE conv
    /\ refused' = IF Waiting(conv.kind) THEN refused \cup {conv.id} ELSE refused
    /\ bot' = Reply(Press("cancel", p))
    /\ UNCHANGED offer

PressEdit(p) ==
    /\ p \in screen
    /\ Take(Press("edit", p))
    /\ conv' = Clear({"confirm", "plan"}, conv)
    /\ bot' = Reply(Press("edit", p))
    /\ UNCHANGED <<offer, refused>>

\* A reminder is chosen for change c.  The row is not looked at.
PressChoice(c) ==
    /\ c \in choosable
    /\ Take(Press("resolve", c))
    /\ bot' = CarryOut(Press("resolve", c), None, <<c>>)
    /\ UNCHANGED <<conv, offer, refused>>

\* The proposal of an imported screenshot comes without a keyboard.
ImportScreenshot ==
    /\ Take(Photo)
    /\ \E items \in Plans : Save("plan", items)
    /\ bot' = Reply(Photo)
    /\ UNCHANGED refused

-----------------------------------------------------------------------------
(* The rest of the system.                                                 *)

\* The scheduler delivers a reminder or tries it again, or the user answers
\* it: its next run moves on, or it ends.
ReminderMoves ==
    /\ \E from \in OpenPlaces : \E to \in Places \ {from} : MoveReminder(from, to)
    /\ UNCHANGED <<conv, bot, offer, made>> /\ UnchangedInStep

\* The row is in the database; the handler is gone.
Crash ==
    /\ bot.pc # "idle"
    /\ crashes < MaxCrashes
    /\ crashes' = crashes + 1
    /\ bot' = Idle
    /\ UNCHANGED <<conv, reminderVars, keyboards, last, updates, failures,
                   redeliveries, offer, made, refused>>

Done ==
    /\ bot.pc = "idle" /\ updates = MaxUpdates
    /\ UNCHANGED vars

TextStep(t, route) ==
    \/ AgreeToPlan(t, route) \/ RefusePlan(t, route)
    \/ ChangeTimeOnly(t, route) \/ ListFirst(t, route) \/ AskWhich(t, route)
    \/ SmallTalk(t, route) \/ ProposePlan(t, route)
    \/ AgreeToAction(t, route) \/ RefuseAction(t, route)
    \/ RepairAction(t, route) \/ RepairLatest(t, route) \/ Interpret(t, route)

ButtonStep(p) == PressConfirm(p) \/ PressCancel(p) \/ PressEdit(p)

HandlerStep ==
    \/ AskMore \/ AskConfirmation \/ Act
    \/ CarryOutItem \/ SkipItem \/ OfferChoice \/ EndOfPlan
    \/ SendReply \/ Apologise \/ HandlerFails

Next ==
    \/ \E t \in Texts, route \in RouteNames : TextStep(t, route)
    \/ \E p \in Ids : ButtonStep(p)
    \/ \E c \in Changes : PressChoice(c)
    \/ ImportScreenshot
    \/ HandlerStep
    \/ ReminderMoves
    \/ Crash \/ Done

Spec == Init /\ [][Next]_vars

-----------------------------------------------------------------------------
(* Properties.                                                             *)

\* Every variable keeps its shape, and the row names a saved proposal of its
\* own kind.
TypeOK ==
    /\ conv \in Row
    /\ reminders \in [Places -> Nat] /\ unsought \subseteq Creates
    /\ bot \in Handler /\ last \in Update
    /\ {bot.id, bot.shows} \subseteq {None} \cup DOMAIN offer
    /\ screen \subseteq DOMAIN offer /\ choosable \subseteq Changes
    /\ offer \in Seq(Proposal) /\ Len(offer) <= MaxOffers
    /\ Waiting(conv.kind) =>
         conv.id \in DOMAIN offer /\ offer[conv.id].form = conv.kind
    /\ made \in [Ids -> Nat]
    /\ refused \subseteq DOMAIN offer

IsPlan(p) == offer[p].form = "plan"

\* One confirmed action is carried out at most once: not again by a second
\* press, by an older keyboard, by the same update delivered again after a
\* crash, or after a handler that failed half-way.  A change the user picks a
\* reminder for is carried out once for every press instead.
AtMostOnce == \A p \in DOMAIN offer : ~IsPlan(p) => made[p] <= 1

\* Once the user has been told that a proposal is cancelled, nothing of it is
\* carried out any more.
RefusedStaysUndone ==
    [][\A p \in refused : made'[p] = made[p]]_vars

\* While items of a plan are left, the row still holds the plan: an exception
\* or a crash at this point costs none of them.
UnfinishedPlanIsKept ==
    bot.pc = "carry_out" /\ InPlan => conv = [kind |-> "plan", id |-> bot.id]

\* However often and by whatever way it is asked for, confirmed and repeated,
\* a task is open at most once at one moment, as long as nothing else put a
\* reminder there: a single wish is never made beside one that is there.
OneAtItsMoment == \A w \in Exact \ unsought : reminders[w] <= 1

\* Where each proposal is, seen from the row and the handler.
PhaseOf(p) ==
    IF p \notin DOMAIN offer THEN "new"
    ELSE IF bot.pc = "carry_out" /\ bot.id = p THEN "running"
    ELSE IF Waiting(conv.kind) /\ conv.id = p THEN "offered"
    ELSE "closed"

Life == INSTANCE ProposalLife WITH
    phase <- [p \in Ids |-> PhaseOf(p)],
    plans <- {p \in DOMAIN offer : IsPlan(p)},
    left <- IF bot.pc = "carry_out" /\ bot.id # None THEN Len(bot.todo) ELSE 0

\* The dialogue implements ProposalLife.
ImplementsLife == Life!Spec
=============================================================================
