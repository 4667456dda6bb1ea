------------------------- MODULE ConversationProofs -------------------------
(***************************************************************************)
(* Theorems about Conversation for every value of its constants: any       *)
(* wishes and plans, any texts, with or without the router's model, and    *)
(* any number of updates, failures, crashes and redeliveries.              *)
(***************************************************************************)
EXTENDS Conversation, TLAPS

-----------------------------------------------------------------------------
(* What the helpers return.                                                *)

LEMMA PlanWishes ==
    ASSUME NEW items \in Plans
    PROVE  items \in Seq(Wishes)
  BY ConversationAssumption DEF Wishes

LEMMA UpdateTypes ==
    /\ \A t \in Texts : TextUpdate(t) \in Update
    /\ \A p \in Ids, choice \in Choices : Press(choice, p) \in Update
    /\ \A c \in Changes : Press("resolve", c) \in Update
    /\ Photo \in Update /\ NoUpdate \in Update
<1>1. ASSUME NEW t \in TextClasses PROVE TextUpdate(t) \in Update
  BY DEF TextUpdate, Update
<1>2. Texts \subseteq TextClasses
  BY ConversationAssumption
<1>3. ASSUME NEW p \in Ids, NEW choice \in Choices
      PROVE  Press(choice, p) \in Update
  BY DEF Press, Update
<1>4. Photo \in Update /\ NoUpdate \in Update
  BY DEF Photo, NoUpdate, Update
<1>5. ASSUME NEW c \in Changes PROVE Press("resolve", c) \in Update
  BY DEF Press, Update
<1>6. QED
  BY <1>1, <1>2, <1>3, <1>4, <1>5

LEMMA HandlingType ==
    ASSUME NEW u \in Update, NEW pc \in {"idle", "interpret", "reply"}
    PROVE  /\ Handling(pc, u) \in Handler
           /\ Handling(pc, u).pc = pc
           /\ Handling(pc, u).id = None /\ Handling(pc, u).shows = None
           /\ Handling(pc, u).update = u
  BY DEF Handling, Handler

LEMMA ReplyType ==
    ASSUME NEW u \in Update
    PROVE  /\ Reply(u) \in Handler
           /\ Reply(u).pc = "reply"
           /\ Reply(u).id = None /\ Reply(u).shows = None
           /\ Reply(u).update = u
  BY HandlingType DEF Reply

LEMMA KeyboardType ==
    ASSUME NEW u \in Update, NEW p \in Ids
    PROVE  /\ ReplyWithKeyboard(u, p) \in Handler
           /\ ReplyWithKeyboard(u, p).pc = "reply"
           /\ ReplyWithKeyboard(u, p).id = None
           /\ ReplyWithKeyboard(u, p).shows = p
<1>1. Reply(u) \in Handler /\ Reply(u).pc = "reply" /\ Reply(u).id = None
  BY ReplyType
<1>2. ReplyWithKeyboard(u, p) = [Reply(u) EXCEPT !.shows = p]
  BY DEF ReplyWithKeyboard
<1>3. QED
  BY <1>1, <1>2 DEF Handler

LEMMA CarryOutType ==
    ASSUME NEW u \in Update, NEW p \in {None} \cup Ids,
           NEW wishes \in Seq(Wishes)
    PROVE  /\ CarryOut(u, p, wishes) \in Handler
           /\ CarryOut(u, p, wishes).pc = "carry_out"
           /\ CarryOut(u, p, wishes).id = p
           /\ CarryOut(u, p, wishes).todo = wishes
           /\ CarryOut(u, p, wishes).shows = None
  BY DEF Handling, CarryOut, Handler

LEMMA IdleType ==
    Idle \in Handler /\ Idle.pc = "idle" /\ Idle.id = None /\ Idle.shows = None
  BY HandlingType, UpdateTypes DEF Idle

LEMMA ClearType ==
    ASSUME NEW c \in Row, NEW kinds
    PROVE  /\ Clear(kinds, c) \in Row
           /\ Clear(kinds, c) = c \/ ~Waiting(Clear(kinds, c).kind)
  BY DEF Clear, Row, Is, Waiting

LEMMA IsType ==
    ASSUME NEW kind \in {"none", "thread", "follow_up"}
    PROVE  Is(kind) \in Row /\ ~Waiting(Is(kind).kind)
  BY DEF Is, Row, Waiting

-----------------------------------------------------------------------------
(* The inductive invariant.  A proposal is held while the row offers it and *)
(* running while the handler carries it out.                               *)

Held(p) == Waiting(conv.kind) /\ conv.id = p
Running(p) == bot.pc = "carry_out" /\ bot.id = p

\* Consent to a single action is used up before the action is done.
SpentBeforeDone(p) ==
    /\ made[p] <= 1
    /\ Held(p) \/ Running(p) => made[p] = 0
    /\ ~(Held(p) /\ Running(p))

ProposalInv ==
    \A p \in DOMAIN offer :
        /\ ~IsPlan(p) => SpentBeforeDone(p)
        /\ IsPlan(p) /\ Running(p) => Held(p)

\* Ids that have not been used yet carry no trace of earlier proposals.
FreshIds == \A p \in Ids : p \notin DOMAIN offer => made[p] = 0

RefusedInv == \A p \in refused : ~Held(p) /\ ~Running(p)

IInv == TypeOK /\ ProposalInv /\ FreshIds /\ RefusedInv

(* What a step does to proposals is one of six things.                     *)

\* Nothing is confirmed; the row keeps what it holds or drops it, but while a
\* proposal is carried out only the end of a plan touches the row.
Calm ==
    /\ bot'.pc = "carry_out" => bot'.id = None
    /\ conv' = conv \/ ~Waiting(conv'.kind)
    /\ bot.pc = "carry_out" => conv' = conv \/ (InPlan /\ bot.todo = <<>>)
    /\ UNCHANGED <<offer, made, refused>>

Agrees ==
    /\ Waiting(conv.kind)
    /\ bot.pc = "idle"
    /\ conv' = AfterConsent(conv)
    /\ bot'.pc = "carry_out" /\ bot'.id = conv.id
    /\ bot'.todo = offer[conv.id].wishes
    /\ UNCHANGED <<offer, made, refused>>

Refuses ==
    /\ Waiting(conv.kind)
    /\ bot.pc = "idle" /\ bot'.pc # "carry_out"
    /\ ~Waiting(conv'.kind)
    /\ refused' = refused \cup {conv.id}
    /\ UNCHANGED <<offer, made>>

Proposes ==
    /\ bot.pc # "carry_out" /\ bot'.pc # "carry_out"
    /\ \E form \in {"confirm", "plan"}, wishes \in Seq(Wishes) :
         Save(form, wishes)
    /\ UNCHANGED <<made, refused>>

Works ==
    /\ bot.pc = "carry_out"
    /\ bot'.pc = "carry_out" <=> InPlan
    /\ InPlan => bot'.id = bot.id /\ bot'.todo = Tail(bot.todo)
    /\ bot.todo # <<>>
    /\ \/ made' = made
       \/ bot.id # None /\ made' = [made EXCEPT ![bot.id] = @ + 1]
    /\ UNCHANGED <<conv, offer, refused>>

Rests == UNCHANGED <<conv, bot, offer, made, refused>>

Effect == Calm \/ Agrees \/ Refuses \/ Proposes \/ Works \/ Rests

LEMMA OfferFacts ==
    ASSUME TypeOK
    PROVE  /\ Len(offer) \in Nat /\ DOMAIN offer = 1 .. Len(offer)
           /\ DOMAIN offer \subseteq Ids
           /\ \A p \in DOMAIN offer : offer[p] \in Proposal
           /\ MaxOffers \in Nat /\ None \notin DOMAIN offer
  BY ConversationAssumption DEF TypeOK, Ids, None

LEMMA SaveFacts ==
    ASSUME TypeOK, NEW form \in {"confirm", "plan"},
           NEW wishes \in Seq(Wishes), Save(form, wishes)
    PROVE  /\ offer' \in Seq(Proposal) /\ Len(offer') = Len(offer) + 1
           /\ Len(offer') <= MaxOffers
           /\ DOMAIN offer' = DOMAIN offer \cup {Len(offer) + 1}
           /\ Len(offer) + 1 \in Ids /\ Len(offer) + 1 \notin DOMAIN offer
           /\ \A p \in DOMAIN offer : offer'[p] = offer[p]
           /\ conv' \in Row /\ Waiting(conv'.kind)
           /\ conv'.id = Len(offer) + 1
           /\ offer'[conv'.id].form = conv'.kind
<1> DEFINE new == [form |-> form, wishes |-> wishes]
<1>1. new \in Proposal
  BY DEF Proposal
<1>2. Len(offer) \in Nat /\ Len(offer) < MaxOffers /\ MaxOffers \in Nat
  BY OfferFacts DEF Save
<1>3. offer' = Append(offer, new) /\ offer \in Seq(Proposal)
  BY DEF Save, TypeOK
<1>4. offer' \in Seq(Proposal) /\ Len(offer') = Len(offer) + 1
  BY <1>1, <1>3
<1>5. \A p \in 1 .. Len(offer) : offer'[p] = offer[p]
  BY <1>1, <1>3
<1>6. offer'[Len(offer) + 1] = new
  BY <1>1, <1>3
<1>7. DOMAIN offer' = 1 .. (Len(offer) + 1) /\ DOMAIN offer = 1 .. Len(offer)
  BY <1>3, <1>4
<1>8. Len(offer) + 1 \in Ids
  BY <1>2 DEF Ids
<1>9. conv' = [kind |-> form, id |-> Len(offer) + 1]
  BY DEF Save
<1>10. /\ conv' \in Row /\ Waiting(conv'.kind)
       /\ conv'.id = Len(offer) + 1 /\ conv'.kind = form
  BY <1>8, <1>9 DEF Row, Waiting
<1>11. QED
  BY <1>2, <1>4, <1>5, <1>6, <1>7, <1>8, <1>10

LEMMA EffectKeepsInv ==
    ASSUME IInv, TypeOK', Effect
    PROVE  ProposalInv' /\ FreshIds' /\ RefusedInv'
<1> USE DEF IInv
<1>0. /\ DOMAIN offer \subseteq Ids /\ made \in [Ids -> Nat]
      /\ None \notin DOMAIN offer
      /\ refused \subseteq DOMAIN offer
      /\ Waiting(conv.kind) => conv.id \in DOMAIN offer
                                /\ offer[conv.id].form = conv.kind
      /\ bot.id \in {None} \cup DOMAIN offer
  BY OfferFacts DEF TypeOK
<1>1. CASE Calm
  <2>1. \A p \in DOMAIN offer : ~Running(p)' /\ (Held(p)' => Held(p))
    BY <1>0, <1>1 DEF Calm, Running, Held, Waiting
  <2>2. QED
    BY <1>0, <1>1, <2>1
    DEF Calm, ProposalInv, SpentBeforeDone, FreshIds, RefusedInv, IsPlan
<1>2. CASE Agrees
  <2>1. conv' = IF conv.kind = "plan" THEN conv ELSE Is("none")
    BY <1>2 DEF Agrees, AfterConsent, Clear, Waiting
  <2>2. ~Waiting(Is("none").kind)
    BY IsType
  <2>3. \A p \in DOMAIN offer :
          /\ Running(p)' => Held(p)
          /\ Held(p)' => Held(p) /\ IsPlan(p)
          /\ IsPlan(p) /\ Running(p)' => Held(p)'
    BY <1>0, <1>2, <2>1, <2>2 DEF Agrees, Running, Held, IsPlan, Waiting
  <2>4. QED
    BY <1>0, <1>2, <2>3
    DEF Agrees, ProposalInv, SpentBeforeDone, FreshIds, RefusedInv, IsPlan
<1>3. CASE Refuses
  <2>1. \A p \in DOMAIN offer : ~Running(p)' /\ ~Held(p)'
    BY <1>3 DEF Refuses, Running, Held
  <2>2. QED
    BY <1>0, <1>3, <2>1
    DEF Refuses, ProposalInv, SpentBeforeDone, FreshIds, RefusedInv, IsPlan
<1>4. CASE Proposes
  <2>1. PICK form \in {"confirm", "plan"}, wishes \in Seq(Wishes) :
          Save(form, wishes)
    BY <1>4 DEF Proposes
  <2> DEFINE new == Len(offer) + 1
  <2>2. /\ DOMAIN offer' = DOMAIN offer \cup {new}
        /\ new \in Ids /\ new \notin DOMAIN offer
        /\ \A p \in DOMAIN offer : offer'[p] = offer[p]
        /\ conv'.id = new
    BY <2>1, SaveFacts
  <2>3. \A p : ~Running(p)' /\ (Held(p)' => p = new)
    BY <1>4, <2>2 DEF Proposes, Running, Held
  <2>4. made' = made /\ refused' = refused /\ made[new] = 0
    BY <1>4, <2>2 DEF Proposes, FreshIds
  <2>5. FreshIds' /\ RefusedInv'
    BY <1>0, <2>2, <2>3, <2>4 DEF FreshIds, RefusedInv
  <2>6. ASSUME NEW p \in DOMAIN offer', ~IsPlan(p)'
        PROVE  SpentBeforeDone(p)'
    <3>1. CASE p = new
      BY <2>3, <2>4, <3>1 DEF SpentBeforeDone
    <3>2. CASE p \in DOMAIN offer
      <4>1. ~IsPlan(p) /\ made[p] <= 1 /\ p # new
        BY <2>2, <2>6, <3>2 DEF IsPlan, ProposalInv, SpentBeforeDone
      <4>2. QED
        BY <2>3, <2>4, <4>1 DEF SpentBeforeDone
    <3>3. QED
      BY <2>2, <3>1, <3>2
  <2>7. QED
    BY <2>3, <2>5, <2>6 DEF ProposalInv
<1>5. CASE Works
  <2>1. /\ conv' = conv /\ offer' = offer /\ refused' = refused
        /\ bot.pc = "carry_out"
    BY <1>5 DEF Works
  <2>2. \A p \in DOMAIN offer :
          /\ Held(p)' <=> Held(p)
          /\ IsPlan(p)' <=> IsPlan(p)
          /\ Running(p)' => Running(p) /\ IsPlan(p)
    BY <1>0, <1>5 DEF Works, Held, Running, InPlan, IsPlan
  <2>3. \A p \in Ids : made'[p] = made[p] \/ (Running(p) /\ made'[p] = made[p] + 1)
    BY <1>0, <1>5 DEF Works, Running
  <2>4. FreshIds'
    <3>1. None \notin Ids
      BY OfferFacts DEF Ids, None
    <3>2. QED
      BY <1>0, <2>1, <2>3, <3>1 DEF FreshIds, Running
  <2>5. RefusedInv'
    BY <1>0, <2>1, <2>2 DEF RefusedInv
  <2>6. ASSUME NEW p \in DOMAIN offer, ~IsPlan(p)
        PROVE  SpentBeforeDone(p)'
    <3>1. SpentBeforeDone(p) /\ made[p] \in Nat /\ p \in Ids
      BY <1>0, <2>6 DEF ProposalInv
    <3>2. ~Running(p)' /\ (Held(p)' <=> Held(p))
      BY <2>2, <2>6
    <3>3. CASE Running(p)
      BY <2>3, <3>1, <3>2, <3>3 DEF SpentBeforeDone
    <3>4. CASE ~Running(p)
      BY <2>3, <3>1, <3>2, <3>4 DEF SpentBeforeDone
    <3>5. QED
      BY <3>3, <3>4
  <2>7. QED
    BY <2>1, <2>2, <2>4, <2>5, <2>6 DEF ProposalInv
<1>6. CASE Rests
  BY <1>6
  DEF Rests, ProposalInv, SpentBeforeDone, FreshIds, RefusedInv, Held,
      Running, IsPlan
<1>7. QED
  BY <1>1, <1>2, <1>3, <1>4, <1>5, <1>6 DEF Effect

-----------------------------------------------------------------------------
(* Every step keeps the types and has one of the six effects.              *)

Step == TypeOK' /\ Effect

LEMMA TakeFacts ==
    ASSUME TypeOK, NEW u \in Update, Take(u)
    PROVE  /\ UNCHANGED <<reminders, unsought, screen, choosable, made>>
           /\ made \in [Ids -> Nat]
           /\ last' \in Update /\ bot.pc = "idle"
  BY DEF Take, TypeOK, reminderVars, keyboards

\* A handler that starts without consent, with the row kept or dropped.
LEMMA CalmStep ==
    ASSUME TypeOK, NEW u \in Update, Take(u), NEW pc \in {"interpret", "reply"},
           bot' = Handling(pc, u), UNCHANGED <<offer, refused>>,
           conv' \in Row, conv' = conv \/ ~Waiting(conv'.kind)
    PROVE  Step
<1>1. bot' \in Handler /\ bot'.pc = pc /\ bot'.id = None /\ bot'.shows = None
  BY HandlingType
<1>2. Calm
  BY <1>1, TakeFacts DEF Calm
<1>3. TypeOK'
  BY <1>1, TakeFacts DEF TypeOK, Waiting
<1>4. QED
  BY <1>2, <1>3 DEF Step, Effect

LEMMA AgreeStep ==
    ASSUME TypeOK, NEW u \in Update, Take(u), Waiting(conv.kind),
           conv' = AfterConsent(conv),
           bot' = CarryOut(u, conv.id, offer[conv.id].wishes),
           UNCHANGED <<offer, refused>>
    PROVE  Step
<1>1. conv \in Row /\ conv.id \in DOMAIN offer /\ conv.id \in Ids
  BY OfferFacts DEF TypeOK
<1>2. offer[conv.id].wishes \in Seq(Wishes)
  BY <1>1, OfferFacts DEF Proposal
<1>3. /\ bot' \in Handler /\ bot'.pc = "carry_out"
      /\ bot'.id = conv.id /\ bot'.shows = None
      /\ bot'.todo = offer[conv.id].wishes
  BY <1>1, <1>2, CarryOutType
<1>4. conv' \in Row /\ (conv' = conv \/ ~Waiting(conv'.kind))
  BY <1>1, ClearType DEF AfterConsent
<1>5. Agrees
  BY <1>3, TakeFacts DEF Agrees
<1>6. TypeOK'
  BY <1>1, <1>3, <1>4, TakeFacts DEF TypeOK, Waiting
<1>7. QED
  BY <1>5, <1>6 DEF Step, Effect

LEMMA RefuseStep ==
    ASSUME TypeOK, NEW u \in Update, Take(u), Waiting(conv.kind),
           conv' = AfterRefusal(conv), refused' = refused \cup {conv.id},
           bot' = Reply(u), offer' = offer
    PROVE  Step
<1>1. conv \in Row /\ conv.id \in DOMAIN offer
  BY DEF TypeOK
<1>2. bot' \in Handler /\ bot'.pc = "reply" /\ bot'.id = None /\ bot'.shows = None
  BY ReplyType
<1>3. conv' \in Row /\ ~Waiting(conv'.kind)
  <2>1. conv' = Is("none")
    BY DEF AfterRefusal, Clear, Waiting
  <2>2. QED
    BY <2>1, IsType
<1>4. Refuses
  BY <1>2, <1>3, TakeFacts DEF Refuses
<1>5. TypeOK'
  BY <1>1, <1>2, <1>3, TakeFacts DEF TypeOK
<1>6. QED
  BY <1>4, <1>5 DEF Step, Effect

\* A proposal is saved and the reply shows it, with a keyboard or without.
LEMMA ProposeStep ==
    ASSUME TypeOK, NEW u \in Update,
           NEW form \in {"confirm", "plan"}, NEW wishes \in Seq(Wishes),
           Save(form, wishes),
           bot' = ReplyWithKeyboard(u, Len(offer) + 1) \/ bot' = Reply(u),
           bot.pc # "carry_out",
           UNCHANGED <<reminders, unsought, screen, choosable, made, refused>>,
           last' \in Update
    PROVE  Step
<1>1. /\ offer' \in Seq(Proposal) /\ Len(offer') <= MaxOffers
      /\ DOMAIN offer' = DOMAIN offer \cup {Len(offer) + 1}
      /\ Len(offer) + 1 \in Ids
      /\ conv' \in Row /\ Waiting(conv'.kind)
      /\ conv'.id = Len(offer) + 1
      /\ offer'[conv'.id].form = conv'.kind
  BY SaveFacts
<1>2. /\ bot' \in Handler /\ bot'.pc = "reply" /\ bot'.id = None
      /\ bot'.shows \in {None, Len(offer) + 1}
  BY <1>1, ReplyType, KeyboardType
<1>3. Proposes
  BY <1>2 DEF Proposes
<1>4. TypeOK'
  BY <1>1, <1>2 DEF TypeOK
<1>5. QED
  BY <1>3, <1>4 DEF Step, Effect

-----------------------------------------------------------------------------
(* The actions, one lemma per group.                                       *)

LEMMA PreparedType ==
    ASSUME TypeOK, NEW t, NEW route
    PROVE  /\ AfterPlan(t) \in Row
           /\ AfterPlan(t) = conv \/ ~Waiting(AfterPlan(t).kind)
           /\ Prepared(t, route) \in Row
           /\ Prepared(t, route) = conv \/ ~Waiting(Prepared(t, route).kind)
<1>1. conv \in Row
  BY DEF TypeOK
<1>2. /\ AfterPlan(t) \in Row
      /\ AfterPlan(t) = conv \/ ~Waiting(AfterPlan(t).kind)
  BY <1>1, ClearType DEF AfterPlan
<1> DEFINE c == IF t \in NewRequests
                THEN Clear({"follow_up", "confirm"}, AfterPlan(t)) ELSE conv
<1>3. c \in Row /\ (c = conv \/ ~Waiting(c.kind))
  BY <1>1, <1>2, ClearType
<1>4. Is("thread") \in Row /\ ~Waiting(Is("thread").kind)
  BY IsType
<1>5. Prepared(t, route) = c \/ Prepared(t, route) = Is("thread")
  BY DEF Prepared
<1>6. QED
  BY <1>2, <1>3, <1>4, <1>5

LEMMA TextStepFacts ==
    ASSUME TypeOK, NEW t \in Texts, NEW route, TextStep(t, route)
    PROVE  Step
<1> DEFINE u == TextUpdate(t)
<1>0. u \in Update /\ conv \in Row
  BY UpdateTypes DEF TypeOK
<1>1. CASE AgreeToPlan(t, route)
  <2>1. Take(u) /\ Waiting(conv.kind)
    BY <1>1 DEF AgreeToPlan, Hear, Waiting
  <2>2. QED
    BY <1>0, <1>1, <2>1, AgreeStep DEF AgreeToPlan
<1>2. CASE RefusePlan(t, route)
  <2>1. Take(u) /\ Waiting(conv.kind)
    BY <1>2 DEF RefusePlan, Hear, Waiting
  <2>2. QED
    BY <1>0, <1>2, <2>1, RefuseStep DEF RefusePlan
<1>3. CASE ChangeTimeOnly(t, route) \/ AskWhich(t, route)
  <2>1. /\ Take(u) /\ conv' = Is("follow_up") /\ bot' = Handling("reply", u)
        /\ UNCHANGED <<offer, refused>>
    BY <1>3 DEF ChangeTimeOnly, AskWhich, NoPlanAnswer, Hear, Reply
  <2>2. QED
    BY <1>0, <2>1, IsType, CalmStep
<1>4. CASE ListFirst(t, route)
  <2>1. /\ Take(u) /\ conv' = AfterPlan(t) /\ bot' = Handling("reply", u)
        /\ UNCHANGED <<offer, refused>>
    BY <1>4 DEF ListFirst, NoPlanAnswer, Hear, Reply
  <2>2. QED
    BY <1>0, <2>1, PreparedType, CalmStep
<1>5. CASE SmallTalk(t, route)
  <2>1. /\ Take(u) /\ conv' = Clear({"thread"}, conv)
        /\ bot' = Handling("reply", u) /\ UNCHANGED <<offer, refused>>
    BY <1>5 DEF SmallTalk, GoesOn, NoPlanAnswer, Hear, Reply
  <2>2. QED
    BY <1>0, <2>1, ClearType, CalmStep
<1>6. CASE ProposePlan(t, route)
  <2>1. /\ Take(u) /\ UNCHANGED refused
        /\ bot' = ReplyWithKeyboard(u, Len(offer) + 1)
    BY <1>6 DEF ProposePlan, Considers, GoesOn, NoPlanAnswer, Hear
  <2>2. PICK items \in Plans : Save("plan", items)
    BY <1>6 DEF ProposePlan
  <2>3. QED
    BY <1>0, <2>1, <2>2, PlanWishes, TakeFacts, ProposeStep
<1>7. CASE AgreeToAction(t, route)
  <2>1. Take(u) /\ Prepared(t, route).kind = "confirm"
    BY <1>7 DEF AgreeToAction, Answers, Considers, GoesOn, NoPlanAnswer, Hear
  <2>2. Waiting(conv.kind)
    BY <2>1, PreparedType DEF Waiting
  <2>3. QED
    BY <1>0, <1>7, <2>1, <2>2, AgreeStep DEF AgreeToAction
<1>8. CASE RefuseAction(t, route)
  <2>1. Take(u) /\ Prepared(t, route).kind = "confirm"
    BY <1>8 DEF RefuseAction, Answers, Considers, GoesOn, NoPlanAnswer, Hear
  <2>2. Waiting(conv.kind)
    BY <2>1, PreparedType DEF Waiting
  <2>3. QED
    BY <1>0, <1>8, <2>1, <2>2, RefuseStep DEF RefuseAction
<1>9. CASE RepairAction(t, route)
  <2>1. /\ Take(u) /\ conv' = Is("follow_up") /\ UNCHANGED <<offer, refused>>
    BY <1>9 DEF RepairAction, CorrectsAction, Answers, Considers, GoesOn,
                NoPlanAnswer, Hear
  <2>2. bot' = Handling("reply", u) \/ bot' = Handling("interpret", u)
    BY <1>9 DEF RepairAction, Reply
  <2>3. QED
    BY <1>0, <2>1, <2>2, IsType, CalmStep
<1>10. CASE RepairLatest(t, route)
  <2>1. Take(u) /\ UNCHANGED refused
    BY <1>10 DEF RepairLatest, Considers, GoesOn, NoPlanAnswer, Hear
  <2>2. CASE /\ \E w \in Changes : Save("confirm", <<w>>)
             /\ bot' = ReplyWithKeyboard(u, Len(offer) + 1)
    <3>1. PICK w \in Changes : Save("confirm", <<w>>)
      BY <2>2
    <3>2. <<w>> \in Seq(Wishes)
      BY DEF Wishes
    <3>3. QED
      BY <1>0, <2>1, <2>2, <3>1, <3>2, TakeFacts, ProposeStep
  <2>3. CASE conv' = Is("follow_up") /\ bot' = Reply(u) /\ UNCHANGED offer
    BY <1>0, <2>1, <2>3, IsType, CalmStep DEF Reply
  <2>4. CASE conv' = Prepared(t, route) /\ bot' = Reply(u) /\ UNCHANGED offer
    BY <1>0, <2>1, <2>4, PreparedType, CalmStep DEF Reply
  <2>5. QED
    BY <1>10, <2>2, <2>3, <2>4 DEF RepairLatest
<1>11. CASE Interpret(t, route)
  <2>1. /\ Take(u) /\ conv' = Prepared(t, route)
        /\ bot' = Handling("interpret", u) /\ UNCHANGED <<offer, refused>>
    BY <1>11 DEF Interpret, Considers, GoesOn, NoPlanAnswer, Hear
  <2>2. QED
    BY <1>0, <2>1, PreparedType, CalmStep
<1>12. QED
  BY <1>1, <1>2, <1>3, <1>4, <1>5, <1>6, <1>7, <1>8, <1>9, <1>10, <1>11
  DEF TextStep

LEMMA ButtonStepFacts ==
    ASSUME TypeOK, NEW p \in Ids, ButtonStep(p) \/ ImportScreenshot
    PROVE  Step
<1>0. /\ \A choice \in Choices : Press(choice, p) \in Update
      /\ Photo \in Update /\ conv \in Row
  BY UpdateTypes DEF TypeOK
<1>1. CASE PressConfirm(p)
  <2> DEFINE u == Press("confirm", p)
  <2>1. u \in Update /\ Take(u) /\ UNCHANGED <<offer, refused>>
    BY <1>0, <1>1 DEF PressConfirm, Choices
  <2>2. CASE Waiting(conv.kind)
    BY <1>1, <2>1, <2>2, AgreeStep DEF PressConfirm
  <2>3. CASE ~Waiting(conv.kind)
    <3>1. conv' = conv /\ bot' = Handling("reply", u)
      BY <1>1, <2>3 DEF PressConfirm, Reply
    <3>2. QED
      BY <1>0, <2>1, <3>1, CalmStep
  <2>4. QED
    BY <2>2, <2>3
<1>2. CASE PressCancel(p)
  <2> DEFINE u == Press("cancel", p)
  <2>1. u \in Update /\ Take(u) /\ UNCHANGED offer /\ bot' = Reply(u)
    BY <1>0, <1>2 DEF PressCancel, Choices
  <2>2. CASE Waiting(conv.kind)
    <3>1. conv' = AfterRefusal(conv) /\ refused' = refused \cup {conv.id}
      BY <1>2, <2>2 DEF PressCancel
    <3>2. QED
      BY <2>1, <2>2, <3>1, RefuseStep
  <2>3. CASE ~Waiting(conv.kind)
    <3>1. conv' = conv /\ refused' = refused /\ bot' = Handling("reply", u)
      BY <1>2, <2>1, <2>3 DEF PressCancel, Reply
    <3>2. QED
      BY <1>0, <2>1, <3>1, CalmStep
  <2>4. QED
    BY <2>2, <2>3
<1>3. CASE PressEdit(p)
  <2> DEFINE u == Press("edit", p)
  <2>1. /\ u \in Update /\ Take(u) /\ UNCHANGED <<offer, refused>>
        /\ bot' = Handling("reply", u)
        /\ conv' = Clear({"confirm", "plan"}, conv)
    BY <1>0, <1>3 DEF PressEdit, Choices, Reply
  <2>2. QED
    BY <1>0, <2>1, ClearType, CalmStep
<1>4. CASE ImportScreenshot
  <2>1. Take(Photo) /\ UNCHANGED refused /\ bot' = Reply(Photo)
    BY <1>4 DEF ImportScreenshot
  <2>2. PICK items \in Plans : Save("plan", items)
    BY <1>4 DEF ImportScreenshot
  <2>3. QED
    BY <1>0, <2>1, <2>2, PlanWishes, TakeFacts, ProposeStep
<1>5. QED
  BY <1>1, <1>2, <1>3, <1>4 DEF ButtonStep

\* A press that picks a reminder carries out a change of its own.
LEMMA ChoiceFacts ==
    ASSUME TypeOK, NEW c \in Changes, PressChoice(c)
    PROVE  Step
<1> DEFINE u == Press("resolve", c)
<1>1. /\ u \in Update /\ Take(u)
      /\ bot' = CarryOut(u, None, <<c>>)
      /\ UNCHANGED <<conv, offer, refused>>
  BY UpdateTypes DEF PressChoice
<1>2. <<c>> \in Seq(Wishes) /\ None \in {None} \cup Ids
  BY DEF Wishes
<1>3. bot' \in Handler /\ bot'.id = None /\ bot'.shows = None
  BY <1>1, <1>2, CarryOutType, Zenon
<1>4. TypeOK'
  BY <1>1, <1>3, TakeFacts DEF TypeOK, Waiting
<1>5. Calm
  BY <1>1, <1>3, TakeFacts DEF Calm
<1>6. QED
  BY <1>4, <1>5 DEF Step, Effect

LEMMA BotFacts ==
    ASSUME TypeOK
    PROVE  /\ bot \in Handler /\ bot.update \in Update
           /\ bot.todo \in Seq(Wishes)
           /\ bot.id \in {None} \cup DOMAIN offer
           /\ bot.shows \in {None} \cup DOMAIN offer
           /\ conv \in Row /\ last \in Update /\ made \in [Ids -> Nat]
           /\ reminders \in [Places -> Nat] /\ unsought \subseteq Creates
           /\ bot.asks \subseteq Changes /\ choosable \subseteq Changes
           /\ DOMAIN offer \subseteq Ids
  BY OfferFacts DEF TypeOK, Handler

\* The handler goes on with a row, reminders and items of the right types,
\* for the proposals saved so far.
LEMMA GoOnType ==
    ASSUME TypeOK, bot' \in Handler, bot'.id \in {None, bot.id},
           bot'.shows \in {None, bot.shows},
           conv' \in Row, conv' = conv \/ ~Waiting(conv'.kind),
           reminders' \in [Places -> Nat], unsought' \subseteq Creates,
           made' \in [Ids -> Nat],
           screen' \subseteq DOMAIN offer, choosable' \subseteq Changes,
           UNCHANGED <<offer, refused, last>>
    PROVE  TypeOK'
<1>1. {bot'.id, bot'.shows} \subseteq {None} \cup DOMAIN offer
  BY BotFacts
<1>2. QED
  BY <1>1 DEF TypeOK, Waiting

LEMMA ItemDoneType ==
    ASSUME TypeOK, bot.todo # <<>>, bot.pc = "carry_out"
    PROVE  /\ ItemDone \in Handler
           /\ ItemDone.id \in {None, bot.id}
           /\ ItemDone.shows \in {None, bot.shows}
           /\ ItemDone.pc = "carry_out" <=> InPlan
           /\ InPlan => /\ ItemDone.id = bot.id
                        /\ ItemDone.todo = Tail(bot.todo)
<1>1. CASE InPlan
  <2>1. Tail(bot.todo) \in Seq(Wishes)
    BY BotFacts
  <2>2. ItemDone = [bot EXCEPT !.todo = Tail(bot.todo)]
    BY <1>1 DEF ItemDone
  <2>3. QED
    BY <1>1, <2>1, <2>2, BotFacts DEF Handler
<1>2. CASE ~InPlan
  <2>1. ItemDone = Reply(bot.update)
    BY <1>2 DEF ItemDone
  <2>2. Reply(bot.update) \in Handler /\ Reply(bot.update).pc = "reply"
        /\ Reply(bot.update).id = None /\ Reply(bot.update).shows = None
    BY BotFacts, ReplyType
  <2>3. ItemDone \in Handler /\ ItemDone.pc = "reply"
        /\ ItemDone.id = None /\ ItemDone.shows = None
    BY <2>1, <2>2 DEF Handler
  <2>4. ItemDone.pc # "carry_out"
    BY <2>3
  <2>5. QED
    BY <1>2, <2>3, <2>4, Zenon
<1>3. QED
  BY <1>1, <1>2

\* A reminder that moves stays a reminder; where it comes to rest is noted.
LEMMA MoveFacts ==
    ASSUME TypeOK, NEW from \in Places, NEW to \in Places,
           MoveReminder(from, to)
    PROVE  /\ reminders' \in [Places -> Nat] /\ unsought' \subseteq Creates
           /\ \A w \in Creates \ unsought' :
                w \notin unsought /\ reminders'[w] <= reminders[w]
<1>0. reminders \in [Places -> Nat] /\ unsought \subseteq Creates
  BY DEF TypeOK
<1>1. reminders[from] \in Nat /\ reminders[from] > 0
  BY <1>0 DEF MoveReminder
<1>2. CASE from = to
  <2>1. reminders' = reminders
    BY <1>2 DEF MoveReminder
  <2>2. unsought' = unsought
    BY <1>0, <1>2 DEF MoveReminder
  <2>3. Creates \subseteq Places
    BY DEF Places, OpenPlaces
  <2>4. QED
    BY <1>0, <2>1, <2>2, <2>3
<1>3. CASE from # to
  <2>1. reminders' = [reminders EXCEPT ![from] = @ - 1, ![to] = @ + 1]
    BY <1>3 DEF MoveReminder
  <2>2. \A p \in Places :
          reminders'[p] = IF p = from THEN reminders[p] - 1
                          ELSE IF p = to THEN reminders[p] + 1 ELSE reminders[p]
    BY <1>0, <1>3, <2>1
  <2>3. reminders' \in [Places -> Nat]
    <3>1. reminders[from] - 1 \in Nat /\ reminders[to] + 1 \in Nat
      BY <1>0, <1>1
    <3>2. QED
      BY <1>0, <1>3, <2>1, <3>1
  <2>4. unsought' = unsought \cup (({to} \cap Creates) \ {from})
    BY DEF MoveReminder
  <2>5. unsought' \subseteq Creates
    BY <1>0, <2>4
  <2>6. ASSUME NEW w \in Creates \ unsought'
        PROVE  w \notin unsought /\ reminders'[w] <= reminders[w]
    <3>1. w \notin unsought /\ w # to /\ w \in Places
      BY <1>3, <2>4, <2>6 DEF Places, OpenPlaces
    <3>2. QED
      BY <1>0, <2>2, <3>1
  <2>7. QED
    BY <2>3, <2>5, <2>6
<1>4. QED
  BY <1>2, <1>3

\* An item that is carried out puts one reminder at its moment, after a look
\* unless a plan does it, or moves one.
LEMMA ItemFacts ==
    ASSUME TypeOK, CarryOutItem
    PROVE  /\ reminders' \in [Places -> Nat] /\ unsought' \subseteq Creates
           /\ \A w \in Exact \ unsought' :
                /\ w \notin unsought
                /\ reminders'[w] <= reminders[w] \/ reminders'[w] = 1
<1>0. /\ reminders \in [Places -> Nat] /\ unsought \subseteq Creates
      /\ Exact \subseteq Creates /\ Creates \subseteq Places
  BY ConversationAssumption DEF TypeOK, Places, OpenPlaces
<1>1. PICK item : item = Head(bot.todo)
  OBVIOUS
<1>2. CASE Create(item)
  <2>1. /\ item \in Creates
        /\ reminders' = [reminders EXCEPT ![item] = @ + 1]
        /\ ~InPlan => ~Duplicate(item)
        /\ unsought' = IF InPlan THEN unsought \cup {item} ELSE unsought
    BY <1>2 DEF Create
  <2>2. reminders' \in [Places -> Nat] /\ unsought' \subseteq Creates
    BY <1>0, <2>1
  <2>3. ASSUME NEW w \in Exact \ unsought'
        PROVE  /\ w \notin unsought
               /\ reminders'[w] <= reminders[w] \/ reminders'[w] = 1
    <3>1. w \notin unsought /\ w \in Places /\ reminders[w] \in Nat
      BY <1>0, <2>1, <2>3
    <3>2. CASE w # item
      BY <1>0, <2>1, <3>1, <3>2
    <3>3. CASE w = item
      <4>1. ~InPlan
        BY <2>1, <2>3, <3>3
      <4>2. reminders[w] = 0
        BY <2>1, <2>3, <3>1, <3>3, <4>1 DEF Duplicate
      <4>3. QED
        BY <1>0, <2>1, <3>1, <3>3, <4>2
    <3>4. QED
      BY <3>2, <3>3
  <2>4. QED
    BY <2>2, <2>3
<1>3. CASE Change(item)
  <2>1. PICK from \in Places, to \in Places : MoveReminder(from, to)
    BY <1>3 DEF Change, Places
  <2>2. QED
    BY <1>0, <2>1, MoveFacts
<1>4. QED
  BY <1>1, <1>2, <1>3 DEF CarryOutItem

LEMMA HandlerStepFacts ==
    ASSUME TypeOK, HandlerStep
    PROVE  Step
<1> USE DEF UnchangedInStep, reminderVars, keyboards
<1>0. screen \subseteq DOMAIN offer
  BY DEF TypeOK
<1>1. CASE AskMore
  <2>1. conv' = Is("follow_up") /\ bot' = Reply(bot.update)
    BY <1>1 DEF AskMore
  <2>2. bot' \in Handler /\ bot'.pc = "reply" /\ bot'.id = None /\ bot'.shows = None
    BY <2>1, BotFacts, ReplyType
  <2>3. conv' \in Row /\ ~Waiting(conv'.kind)
    BY <2>1, IsType
  <2>4. TypeOK'
    BY <1>0, <1>1, <2>2, <2>3, BotFacts, GoOnType DEF AskMore
  <2>5. Calm
    BY <1>1, <2>2, <2>3 DEF AskMore, Calm
  <2>6. QED
    BY <2>4, <2>5 DEF Step, Effect
<1>2. CASE AskConfirmation
  <2>1. PICK w \in Wishes : Save("confirm", <<w>>)
    BY <1>2 DEF AskConfirmation
  <2>2. <<w>> \in Seq(Wishes)
    OBVIOUS
  <2>3. QED
    BY <1>2, <2>1, <2>2, BotFacts, ProposeStep DEF AskConfirmation
<1>3. CASE Act
  <2>1. /\ bot' \in Handler /\ bot'.id = None /\ bot'.shows = None
    <3>1. CASE bot' = Reply(bot.update)
      <4>1. bot.update \in Update
        BY BotFacts
      <4>2. QED
        BY <3>1, <4>1, ReplyType, Zenon
    <3>2. CASE \E w \in Wishes : bot' = CarryOut(bot.update, None, <<w>>)
      <4>1. PICK w \in Wishes : bot' = CarryOut(bot.update, None, <<w>>)
        BY <3>2
      <4>2. <<w>> \in Seq(Wishes)
        OBVIOUS
      <4>3. bot.update \in Update /\ None \in {None} \cup Ids
        BY BotFacts
      <4>4. QED
        BY <4>1, <4>2, <4>3, CarryOutType, Zenon
    <3>3. QED
      BY <1>3, <3>1, <3>2 DEF Act
  <2>2. conv' \in Row /\ (conv' = conv \/ ~Waiting(conv'.kind))
    BY <1>3, BotFacts, ClearType DEF Act
  <2>3. TypeOK'
    BY <1>0, <1>3, <2>1, <2>2, BotFacts, GoOnType DEF Act
  <2>4. Calm
    BY <1>3, <2>1, <2>2 DEF Act, Calm
  <2>5. QED
    BY <2>3, <2>4 DEF Step, Effect
<1>4. CASE CarryOutItem
  <2>1. /\ bot.pc = "carry_out" /\ bot.todo # <<>>
        /\ UNCHANGED <<conv, offer, screen, choosable, last, refused>>
    BY <1>4 DEF CarryOutItem
  <2>2. bot' = ItemDone
    BY <1>4 DEF CarryOutItem
  <2>3. reminders' \in [Places -> Nat] /\ unsought' \subseteq Creates
    BY <1>4, ItemFacts
  <2>4. \/ made' = made
        \/ bot.id # None /\ made' = [made EXCEPT ![bot.id] = @ + 1]
    BY <1>4 DEF CarryOutItem
  <2>5. made' \in [Ids -> Nat]
    BY <2>4, BotFacts
  <2>6. /\ bot' \in Handler /\ bot'.id \in {None, bot.id}
        /\ bot'.shows \in {None, bot.shows}
        /\ bot'.pc = "carry_out" <=> InPlan
        /\ InPlan => bot'.id = bot.id /\ bot'.todo = Tail(bot.todo)
    BY <2>1, <2>2, ItemDoneType
  <2>7. TypeOK'
    BY <1>0, <2>1, <2>3, <2>5, <2>6, BotFacts, GoOnType
  <2>8. Works
    BY <2>1, <2>4, <2>6 DEF Works
  <2>9. QED
    BY <2>7, <2>8 DEF Step, Effect
<1>5. CASE SkipItem
  <2>1. /\ bot.pc = "carry_out" /\ bot.todo # <<>> /\ bot' = ItemDone
        /\ UNCHANGED <<conv, reminders, unsought, offer, made, screen,
                       choosable, last, refused>>
    BY <1>5 DEF SkipItem
  <2>2. /\ bot' \in Handler /\ bot'.id \in {None, bot.id}
        /\ bot'.shows \in {None, bot.shows}
        /\ bot'.pc = "carry_out" <=> InPlan
        /\ InPlan => bot'.id = bot.id /\ bot'.todo = Tail(bot.todo)
    BY <2>1, ItemDoneType
  <2>3. TypeOK'
    BY <1>0, <2>1, <2>2, BotFacts, GoOnType
  <2>4. Works
    BY <2>1, <2>2 DEF Works
  <2>5. QED
    BY <2>3, <2>4 DEF Step, Effect
<1>6. CASE EndOfPlan
  <2>1. /\ InPlan /\ bot.todo = <<>>
        /\ bot' = Reply(bot.update)
        /\ conv' = Clear({"plan"}, conv)
        /\ UNCHANGED <<reminders, unsought, offer, made, screen, choosable,
                       last, refused>>
    BY <1>6 DEF EndOfPlan
  <2>2. bot' \in Handler /\ bot'.pc = "reply" /\ bot'.id = None /\ bot'.shows = None
    BY <2>1, BotFacts, ReplyType DEF Handler
  <2>3. conv' \in Row /\ (conv' = conv \/ ~Waiting(conv'.kind))
    BY <2>1, BotFacts, ClearType
  <2>4. TypeOK'
    BY <1>0, <2>1, <2>2, <2>3, BotFacts, GoOnType
  <2>5. Calm
    BY <2>1, <2>2, <2>3 DEF Calm
  <2>6. QED
    BY <2>4, <2>5 DEF Step, Effect
<1>7. CASE SendReply \/ Apologise
  <2>1. /\ bot' = Idle
        /\ UNCHANGED <<conv, reminders, unsought, last, offer, made, refused>>
    BY <1>7 DEF SendReply, Apologise
  <2>2. screen' \subseteq DOMAIN offer /\ choosable' \subseteq Changes
    <3>1. \/ screen' = screen
          \/ bot.shows # None /\ screen' = screen \cup {bot.shows}
      BY <1>7 DEF SendReply, Apologise
    <3>2. choosable' = choosable \/ choosable' = choosable \cup bot.asks
      BY <1>7 DEF SendReply, Apologise
    <3>3. QED
      BY <1>0, <3>1, <3>2, BotFacts
  <2>3. TypeOK'
    BY <2>1, <2>2, IdleType, BotFacts, GoOnType
  <2>4. Calm
    BY <2>1, IdleType DEF Calm
  <2>5. QED
    BY <2>3, <2>4 DEF Step, Effect
<1>8. CASE HandlerFails
  <2>1. /\ bot' = [bot EXCEPT !.pc = "sorry", !.todo = <<>>, !.shows = None,
                              !.asks = {}]
        /\ UNCHANGED <<conv, reminders, unsought, screen, choosable, last,
                       offer, made, refused>>
    BY <1>8 DEF HandlerFails
  <2>2. bot' \in Handler /\ bot'.pc = "sorry" /\ bot'.id = bot.id /\ bot'.shows = None
    <3>1. <<>> \in Seq(Wishes)
      OBVIOUS
    <3>2. QED
      BY <2>1, <3>1, BotFacts DEF Handler
  <2>3. TypeOK'
    BY <1>0, <2>1, <2>2, BotFacts, GoOnType
  <2>4. Calm
    BY <2>1, <2>2 DEF Calm
  <2>5. QED
    BY <2>3, <2>4 DEF Step, Effect
<1>9. CASE OfferChoice
  <2>1. /\ bot.pc = "carry_out" /\ bot.todo # <<>> /\ ~InPlan
        /\ bot' = [Reply(bot.update) EXCEPT !.asks = {Head(bot.todo)}]
        /\ Head(bot.todo) \in Changes
        /\ UNCHANGED <<conv, reminders, unsought, offer, made, screen,
                       choosable, last, refused>>
    BY <1>9 DEF OfferChoice
  <2>2. Reply(bot.update) \in Handler /\ Reply(bot.update).pc = "reply"
        /\ Reply(bot.update).id = None /\ Reply(bot.update).shows = None
    BY BotFacts, ReplyType
  <2>3. bot' \in Handler /\ bot'.pc = "reply" /\ bot'.id = None /\ bot'.shows = None
    BY <2>1, <2>2 DEF Handler
  <2>4. TypeOK'
    BY <1>0, <2>1, <2>3, BotFacts, GoOnType
  <2>5. Works
    BY <2>1, <2>3 DEF Works
  <2>6. QED
    BY <2>4, <2>5 DEF Step, Effect
<1>10. QED
  BY <1>1, <1>2, <1>3, <1>4, <1>5, <1>6, <1>7, <1>8, <1>9 DEF HandlerStep

LEMMA EnvironmentFacts ==
    ASSUME TypeOK, ReminderMoves \/ Crash \/ UNCHANGED vars
    PROVE  Step
<1>0. screen \subseteq DOMAIN offer
  BY DEF TypeOK
<1>1. CASE ReminderMoves
  <2>1. PICK from \in Places, to \in Places : MoveReminder(from, to)
    BY <1>1 DEF ReminderMoves, Places
  <2>2. /\ reminders' \in [Places -> Nat] /\ unsought' \subseteq Creates
        /\ UNCHANGED <<conv, bot, offer, made, screen, choosable, last, refused>>
    BY <1>1, <2>1, MoveFacts DEF ReminderMoves, UnchangedInStep, keyboards
  <2>3. TypeOK'
    BY <1>0, <2>2, BotFacts, GoOnType
  <2>4. QED
    BY <2>2, <2>3 DEF Step, Effect, Rests
<1>2. CASE Crash
  <2>1. /\ bot' = Idle
        /\ UNCHANGED <<conv, reminders, unsought, screen, choosable, last,
                       offer, made, refused>>
    BY <1>2 DEF Crash, reminderVars, keyboards
  <2>2. TypeOK'
    BY <1>0, <2>1, IdleType, BotFacts, GoOnType
  <2>3. Calm
    BY <2>1, IdleType DEF Calm
  <2>4. QED
    BY <2>2, <2>3 DEF Step, Effect
<1>3. CASE UNCHANGED vars
  BY <1>3 DEF vars, reminderVars, keyboards, TypeOK, Step, Effect, Rests, Waiting
<1>4. QED
  BY <1>1, <1>2, <1>3

LEMMA NextFacts ==
    ASSUME TypeOK, [Next]_vars
    PROVE  Step
<1>1. CASE \E t \in Texts, route \in RouteNames : TextStep(t, route)
  BY <1>1, TextStepFacts
<1>2. CASE (\E p \in Ids : ButtonStep(p)) \/ ImportScreenshot
  <2>1. CASE \E p \in Ids : ButtonStep(p)
    BY <2>1, ButtonStepFacts
  <2>2. CASE ImportScreenshot
    <3>1. PICK items \in Plans : Save("plan", items)
      BY <2>2 DEF ImportScreenshot
    <3>2. Len(offer) + 1 \in Ids
      BY <3>1, PlanWishes, SaveFacts
    <3>3. QED
      BY <2>2, <3>2, ButtonStepFacts
  <2>3. QED
    BY <1>2, <2>1, <2>2
<1>3. CASE HandlerStep
  BY <1>3, HandlerStepFacts
<1>4. CASE ReminderMoves \/ Crash \/ UNCHANGED vars
  BY <1>4, EnvironmentFacts
<1>5. CASE \E c \in Changes : PressChoice(c)
  BY <1>5, ChoiceFacts
<1>6. QED
  BY <1>1, <1>2, <1>3, <1>4, <1>5 DEF Next, Done

-----------------------------------------------------------------------------
(* The theorems.                                                           *)

LEMMA InitInv == Init => IInv
<1> SUFFICES ASSUME Init PROVE IInv
  OBVIOUS
<1>1. /\ conv = Is("none") /\ bot = Idle /\ last = NoUpdate /\ offer = <<>>
      /\ made = [p \in Ids |-> 0] /\ reminders = [p \in Places |-> 0]
      /\ screen = {} /\ refused = {} /\ choosable = {} /\ unsought = {}
  BY DEF Init
<1>2. DOMAIN offer = {} /\ Len(offer) = 0 /\ offer \in Seq(Proposal)
  BY <1>1
<1>3. conv \in Row /\ ~Waiting(conv.kind)
  BY <1>1, IsType
<1>4. TypeOK
  BY <1>1, <1>2, <1>3, IdleType, UpdateTypes, ConversationAssumption DEF TypeOK
<1>5. ProposalInv /\ FreshIds /\ RefusedInv
  BY <1>1, <1>2 DEF ProposalInv, FreshIds, RefusedInv
<1>6. QED
  BY <1>4, <1>5 DEF IInv

LEMMA StepInv == IInv /\ [Next]_vars => IInv'
<1> SUFFICES ASSUME IInv, [Next]_vars PROVE IInv'
  OBVIOUS
<1>1. TypeOK' /\ Effect
  BY NextFacts DEF IInv, Step
<1>2. QED
  BY <1>1, EffectKeepsInv DEF IInv

LEMMA Invariance == Spec => []IInv
  BY InitInv, StepInv, PTL DEF Spec

\* Every reachable state has the declared shape, and the chat's row names a
\* saved proposal of its own kind.
THEOREM TypeCorrect == Spec => []TypeOK
<1>1. IInv => TypeOK
  BY DEF IInv
<1>2. QED
  BY <1>1, Invariance, PTL

\* A confirmed single action is carried out at most once, whatever number of
\* presses, redeliveries, exceptions and crashes comes in between: the row is
\* cleared before the work (_execute_confirmation_state).
THEOREM ConfirmedAtMostOnce == Spec => []AtMostOnce
<1>1. IInv => AtMostOnce
  BY DEF IInv, ProposalInv, SpentBeforeDone, AtMostOnce
<1>2. QED
  BY <1>1, Invariance, PTL

\* Until the loop of a plan has ended the row still holds the plan, so that no
\* exception or crash loses the items left (_execute_multi_plan_state).
THEOREM PlanKeptToItsEnd == Spec => []UnfinishedPlanIsKept
<1>1. IInv => UnfinishedPlanIsKept
  <2> SUFFICES ASSUME IInv, bot.pc = "carry_out", InPlan
               PROVE  conv = [kind |-> "plan", id |-> bot.id]
    BY DEF UnfinishedPlanIsKept
  <2>1. bot.id \in DOMAIN offer /\ IsPlan(bot.id) /\ Running(bot.id)
    BY BotFacts DEF IInv, InPlan, IsPlan, Running
  <2>2. Held(bot.id)
    BY <2>1 DEF IInv, ProposalInv
  <2>3. conv \in Row /\ conv.id = bot.id /\ conv.kind = "plan"
    BY <2>1, <2>2 DEF IInv, TypeOK, Held, IsPlan
  <2>4. QED
    BY <2>3 DEF Row
<1>2. QED
  BY <1>1, Invariance, PTL

\* Nothing of a proposal is carried out after the user was told that it is
\* cancelled (_clear_confirmation_state, _clear_multi_plan_state).
THEOREM RefusedForGood == Spec => RefusedStaysUndone
<1>1. IInv /\ [Next]_vars => [\A p \in refused : made'[p] = made[p]]_vars
  <2> SUFFICES ASSUME IInv, [Next]_vars, NEW p \in refused
               PROVE  made'[p] = made[p]
    OBVIOUS
  <2>1. /\ Effect /\ ~Running(p) /\ made \in [Ids -> Nat]
        /\ p \in Ids
    BY NextFacts, OfferFacts DEF IInv, Step, RefusedInv, TypeOK
  <2>2. CASE made' = made
    BY <2>2
  <2>3. CASE Works
    BY <2>1, <2>3 DEF Works, Running
  <2>4. QED
    BY <2>1, <2>2, <2>3 DEF Effect, Calm, Agrees, Refuses, Proposes, Rests
<1>2. QED
  BY <1>1, Invariance, PTL DEF Spec, RefusedStaysUndone
-----------------------------------------------------------------------------
(* One reminder of a task at one moment.                                   *)

\* Only an item that is carried out and the life of a reminder change what is
\* open.
LEMMA RemindersChange ==
    ASSUME TypeOK, [Next]_vars
    PROVE  UNCHANGED reminderVars \/ CarryOutItem \/ ReminderMoves
<1>1. ASSUME NEW u, Take(u) PROVE UNCHANGED reminderVars
  BY <1>1 DEF Take
<1>2. ASSUME NEW t \in Texts, NEW route, TextStep(t, route)
      PROVE  Take(TextUpdate(t))
  BY <1>2
  DEF TextStep, AgreeToPlan, RefusePlan, ChangeTimeOnly, ListFirst, AskWhich,
      SmallTalk, ProposePlan, AgreeToAction, RefuseAction, RepairAction,
      RepairLatest, Interpret, CorrectsAction, Answers, Considers, GoesOn,
      NoPlanAnswer, Hear
<1>3. ASSUME NEW p \in Ids, ButtonStep(p) PROVE \E u : Take(u)
  BY <1>3 DEF ButtonStep, PressConfirm, PressCancel, PressEdit
<1>4. CASE ImportScreenshot \/ \E c \in Changes : PressChoice(c)
  BY <1>1, <1>4 DEF ImportScreenshot, PressChoice
<1>5. CASE HandlerStep
  BY <1>5 DEF HandlerStep, AskMore, AskConfirmation, Act, SkipItem, OfferChoice,
              EndOfPlan, SendReply, Apologise, HandlerFails
<1>6. CASE Crash \/ UNCHANGED vars
  BY <1>6 DEF Crash, vars
<1> QED
  BY <1>1, <1>2, <1>3, <1>4, <1>5, <1>6 DEF Next, Done

LEMMA StepMoment ==
    ASSUME TypeOK, OneAtItsMoment, [Next]_vars
    PROVE  OneAtItsMoment'
<1>0. Exact \subseteq Creates /\ Creates \subseteq Places
  BY ConversationAssumption DEF Places, OpenPlaces
<1>1. CASE UNCHANGED reminderVars
  BY <1>1 DEF OneAtItsMoment, reminderVars
<1>2. CASE CarryOutItem
  <2>1. ASSUME NEW w \in Exact \ unsought' PROVE reminders'[w] <= 1
    <3>1. /\ w \in Exact \ unsought /\ reminders[w] \in Nat /\ reminders'[w] \in Nat
          /\ reminders'[w] <= reminders[w] \/ reminders'[w] = 1
      BY <1>0, <1>2, <2>1, ItemFacts, BotFacts
    <3>2. QED
      BY <3>1 DEF OneAtItsMoment
  <2>2. QED
    BY <2>1 DEF OneAtItsMoment
<1>3. CASE ReminderMoves
  <2>1. PICK from \in Places, to \in Places : MoveReminder(from, to)
    BY <1>3 DEF ReminderMoves, Places
  <2>2. ASSUME NEW w \in Exact \ unsought' PROVE reminders'[w] <= 1
    <3>1. /\ w \in Exact \ unsought /\ reminders[w] \in Nat /\ reminders'[w] \in Nat
          /\ reminders'[w] <= reminders[w]
      BY <1>0, <2>1, <2>2, MoveFacts, BotFacts
    <3>2. QED
      BY <3>1 DEF OneAtItsMoment
  <2>3. QED
    BY <2>2 DEF OneAtItsMoment
<1>4. QED
  BY <1>1, <1>2, <1>3, RemindersChange

\* However often it is asked for, confirmed, repeated or retried, a task is
\* open at most once at one moment that dateparser reads as the parser does,
\* as long as no plan, change, snooze or retry put a reminder there
\* (_execute_action's duplicate test before every single creation).
THEOREM OneReminderAtItsMoment == Spec => []OneAtItsMoment
<1>1. Init => OneAtItsMoment
  <2> SUFFICES ASSUME Init, NEW w \in Exact PROVE reminders[w] <= 1
    BY DEF OneAtItsMoment
  <2>1. w \in Places /\ reminders = [p \in Places |-> 0]
    BY ConversationAssumption DEF Init, Places, OpenPlaces
  <2>2. QED
    BY <2>1
<1>2. IInv /\ OneAtItsMoment /\ [Next]_vars => OneAtItsMoment'
  BY StepMoment DEF IInv
<1>3. QED
  BY <1>1, <1>2, Invariance, PTL DEF Spec
=============================================================================
