----------------------- MODULE ConversationImplements -----------------------
(***************************************************************************)
(* Conversation implements ProposalLife, for every value of its constants: *)
(* seen from the row and the handler, a proposal moves as ProposalLife     *)
(* says, and every other step of the dialogue leaves it where it is.       *)
(***************************************************************************)
EXTENDS ConversationProofs

\* The mapped variables of ProposalLife.
Phase == [p \in Ids |-> PhaseOf(p)]
PlanSet == {p \in DOMAIN offer : IsPlan(p)}
Left == IF bot.pc = "carry_out" /\ bot.id # None THEN Len(bot.todo) ELSE 0

\* The phase of a proposal in terms of Held and Running.
PhaseFacts ==
    /\ \A p \in Ids :
         /\ Running(p) => p \in DOMAIN offer
         /\ Held(p) => p \in DOMAIN offer
         /\ p \notin DOMAIN offer => Phase[p] = "new"
         /\ Running(p) => Phase[p] = "running"
         /\ Held(p) /\ ~Running(p) => Phase[p] = "offered"
         /\ p \in DOMAIN offer /\ ~Held(p) /\ ~Running(p) => Phase[p] = "closed"
    /\ DOMAIN offer \subseteq Ids
    /\ None \notin Ids

LEMMA PhaseBefore ==
    ASSUME TypeOK
    PROVE  PhaseFacts
<1>1. /\ DOMAIN offer \subseteq Ids /\ None \notin Ids
      /\ bot.id \in {None} \cup DOMAIN offer
      /\ Waiting(conv.kind) => conv.id \in DOMAIN offer
  BY OfferFacts DEF TypeOK, None, Ids
<1>2. \A p \in Ids : Phase[p] = PhaseOf(p)
  BY DEF Phase
<1>3. QED
  BY <1>1, <1>2 DEF PhaseFacts, PhaseOf, Held, Running

LEMMA PhaseAfter ==
    ASSUME TypeOK'
    PROVE  PhaseFacts'
<1>1. /\ (DOMAIN offer)' \subseteq Ids /\ None \notin Ids
      /\ bot'.id \in {None} \cup (DOMAIN offer)'
      /\ Waiting(conv'.kind) => conv'.id \in (DOMAIN offer)'
  BY ConversationAssumption DEF TypeOK, None, Ids
<1>2. \A p \in Ids : Phase'[p] = PhaseOf(p)'
  BY DEF Phase
<1>3. QED
  BY <1>1, <1>2 DEF PhaseFacts, PhaseOf, Held, Running

LEMMA PhaseIsFunction ==
    /\ Phase = [p \in Ids |-> Phase[p]]
    /\ Phase' = [p \in Ids |-> Phase'[p]]
  BY DEF Phase

LEMMA Moved ==
    ASSUME NEW R \in Ids, NEW to, Phase'[R] = to,
           \A p \in Ids \ {R} : Phase'[p] = Phase[p]
    PROVE  Phase' = [Phase EXCEPT ![R] = to]
  BY PhaseIsFunction
\* Nothing moves.
LEMMA Still ==
    ASSUME \A p \in Ids : Phase'[p] = Phase[p]
    PROVE  Phase' = Phase
  BY PhaseIsFunction

-----------------------------------------------------------------------------
(* One lemma per effect.                                                   *)

LEMMA CalmMapped ==
    ASSUME IInv, TypeOK', Calm
    PROVE  [Life!Next]_(Life!lifeVars)
<1>0. PhaseFacts /\ PhaseFacts' /\ TypeOK
  BY PhaseBefore, PhaseAfter DEF IInv
<1>1. /\ \A p \in Ids : ~Running(p)' /\ (Held(p)' => Held(p))
      /\ conv' = conv => \A p \in Ids : Held(p)' <=> Held(p)
      /\ PlanSet' = PlanSet /\ Left' = 0 /\ made' = made
      /\ offer' = offer
  BY <1>0 DEF Calm, Running, Held, PhaseFacts, PlanSet, IsPlan, Left, Waiting
<1>2. CASE \E p \in Ids : Running(p)
  <2>1. PICK R \in Ids : Running(R)
    BY <1>2
  <2>2. /\ R \in DOMAIN offer /\ Phase[R] = "running"
        /\ bot.id = R /\ bot.pc = "carry_out" /\ bot.id # None
        /\ \A p \in Ids \ {R} : ~Running(p)
        /\ InPlan <=> IsPlan(R)
    BY <1>0, <2>1 DEF PhaseFacts, Running, InPlan, IsPlan
  <2>3. CASE IsPlan(R) /\ conv' = conv
    <3>1. Held(R) /\ Held(R)'
      BY <1>1, <2>1, <2>2, <2>3 DEF IInv, ProposalInv
    <3>2. Phase' = [Phase EXCEPT ![R] = "offered"]
      <4>1. Phase'[R] = "offered"
        BY <1>0, <1>1, <3>1 DEF PhaseFacts
      <4>2. \A p \in Ids \ {R} : Phase'[p] = Phase[p]
        BY <1>0, <1>1, <2>2, <2>3 DEF PhaseFacts
      <4>3. QED
        BY <4>1, <4>2, Moved
    <3>3. Life!Interrupt(R)
      BY <1>1, <2>2, <2>3, <3>2
      DEF Life!Interrupt, Life!Move, Phase, PlanSet, Left
    <3>4. QED
      BY <3>3 DEF Life!Next
  <2>4. CASE IsPlan(R) /\ conv' # conv
    <3>1. bot.todo = <<>> /\ ~Waiting(conv'.kind)
      BY <2>2, <2>4 DEF Calm
    <3>2. Phase' = [Phase EXCEPT ![R] = "closed"]
      <4>1. \A p \in Ids : ~Held(p)'
        BY <3>1 DEF Held
      <4>2. Held(R)
        BY <2>1, <2>2, <2>4 DEF IInv, ProposalInv
      <4>3. \A p \in Ids \ {R} : ~Held(p)
        BY <4>2 DEF Held
      <4>4. Phase'[R] = "closed"
        BY <1>0, <1>1, <2>2, <4>1 DEF PhaseFacts
      <4>5. \A p \in Ids \ {R} : Phase'[p] = Phase[p]
        BY <1>0, <1>1, <2>2, <4>1, <4>3 DEF PhaseFacts
      <4>6. QED
        BY <4>4, <4>5, Moved
    <3>3. Left = 0
      BY <3>1 DEF Left
    <3>4. Life!FinishPlan(R)
      BY <1>1, <2>2, <2>4, <3>2, <3>3
      DEF Life!FinishPlan, Life!Move, Phase, PlanSet, Left
    <3>5. QED
      BY <3>4 DEF Life!Next
  <2>5. CASE ~IsPlan(R)
    <3>1. conv' = conv /\ ~Held(R)
      BY <2>1, <2>2, <2>5 DEF Calm, IInv, ProposalInv, SpentBeforeDone
    <3>2. Phase' = [Phase EXCEPT ![R] = "closed"]
      <4>1. Phase'[R] = "closed"
        BY <1>0, <1>1, <2>2, <3>1 DEF PhaseFacts
      <4>2. \A p \in Ids \ {R} : Phase'[p] = Phase[p]
        BY <1>0, <1>1, <2>2, <3>1 DEF PhaseFacts
      <4>3. QED
        BY <4>1, <4>2, Moved
    <3>3. Life!Conclude(R)
      BY <1>1, <2>2, <2>5, <3>2
      DEF Life!Conclude, Life!Move, Phase, PlanSet, Left
    <3>4. QED
      BY <3>3 DEF Life!Next
  <2>6. QED
    BY <2>3, <2>4, <2>5
<1>3. CASE \A p \in Ids : ~Running(p)
  <2>1. Left = 0
    BY <1>0, <1>3 DEF Left, Running, TypeOK, PhaseFacts
  <2>2. CASE \A p \in Ids : Held(p)' <=> Held(p)
    <3>1. Phase' = Phase
      BY <1>0, <1>1, <1>3, <2>2, Still DEF PhaseFacts
    <3>2. QED
      BY <1>1, <2>1, <3>1 DEF Life!lifeVars, Phase, PlanSet, Left
  <2>3. CASE \E p \in Ids : Held(p) /\ ~Held(p)'
    <3>1. PICK R \in Ids : Held(R) /\ ~Held(R)'
      BY <2>3
    <3>2. /\ \A p \in Ids \ {R} : ~Held(p) /\ ~Held(p)'
          /\ R \in DOMAIN offer
      BY <1>0, <1>1, <3>1 DEF Held, PhaseFacts
    <3>3. Phase' = [Phase EXCEPT ![R] = "closed"]
      <4>1. Phase'[R] = "closed"
        BY <1>0, <1>1, <3>1, <3>2 DEF PhaseFacts
      <4>2. \A p \in Ids \ {R} : Phase'[p] = Phase[p]
        BY <1>0, <1>1, <1>3, <3>2 DEF PhaseFacts
      <4>3. QED
        BY <4>1, <4>2, Moved
    <3>4. Phase[R] = "offered"
      BY <1>0, <1>3, <3>1 DEF PhaseFacts
    <3>5. Life!Withdraw(R)
      BY <1>1, <2>1, <3>3, <3>4
      DEF Life!Withdraw, Life!Move, Phase, PlanSet, Left
    <3>6. QED
      BY <3>5 DEF Life!Next
  <2>4. QED
    BY <1>1, <2>2, <2>3
<1>4. QED
  BY <1>2, <1>3

\* While no proposal is carried out, before or after, nothing is left of one.
LEMMA NothingLeft ==
    ASSUME bot.pc # "carry_out" \/ bot.id = None
    PROVE  Left = 0 /\ \A p \in Ids : ~Running(p)
  BY DEF Left, Running, None, Ids

LEMMA AgreesMapped ==
    ASSUME IInv, TypeOK', Agrees
    PROVE  \E p \in Ids : Life!Consent(p)
<1>0. PhaseFacts /\ PhaseFacts' /\ TypeOK
  BY PhaseBefore, PhaseAfter DEF IInv
<1> PICK R \in Ids : R = conv.id
  BY <1>0, OfferFacts DEF Agrees, TypeOK
<1>1. Held(R) /\ \A p \in Ids \ {R} : ~Held(p)
  BY DEF Agrees, Held
<1>2. Left = 0 /\ \A p \in Ids : ~Running(p)
  BY NothingLeft DEF Agrees
<1>3. conv' = conv \/ conv' = Is("none")
  BY DEF Agrees, AfterConsent, Clear
<1>4. \A p \in Ids \ {R} : ~Held(p)' /\ ~Running(p)'
  BY <1>1, <1>3, IsType DEF Agrees, Held, Running
<1>5. Running(R)' /\ Left' \in Nat
  <2>1. bot' \in Handler
    BY DEF TypeOK
  <2>2. Len(bot'.todo) \in Nat
    BY <2>1 DEF Handler
  <2>3. QED
    BY <2>2 DEF Agrees, Running, Left
<1>6. PlanSet' = PlanSet /\ made' = made /\ offer' = offer
  BY DEF Agrees, PlanSet, IsPlan
<1>7. Phase[R] = "offered" /\ Phase'[R] = "running"
  BY <1>0, <1>1, <1>2, <1>5 DEF PhaseFacts
<1>8. \A p \in Ids \ {R} : Phase'[p] = Phase[p]
  BY <1>0, <1>1, <1>2, <1>4, <1>6 DEF PhaseFacts
<1>9. Phase' = [Phase EXCEPT ![R] = "running"]
  BY <1>1, <1>7, <1>8, Moved
<1>10. QED
  BY <1>1, <1>5, <1>6, <1>7, <1>9
  DEF Life!Consent, Life!Move, Phase, PlanSet, Left

LEMMA RefusesMapped ==
    ASSUME IInv, TypeOK', Refuses
    PROVE  \E p \in Ids : Life!Withdraw(p)
<1>0. PhaseFacts /\ PhaseFacts' /\ TypeOK
  BY PhaseBefore, PhaseAfter DEF IInv
<1> PICK R \in Ids : R = conv.id
  BY <1>0, OfferFacts DEF Refuses, TypeOK
<1>1. Held(R) /\ \A p \in Ids \ {R} : ~Held(p)
  BY DEF Refuses, Held
<1>2. Left = 0 /\ \A p \in Ids : ~Running(p)
  BY NothingLeft DEF Refuses
<1>3. Left' = 0 /\ \A p \in Ids : ~Running(p)' /\ ~Held(p)'
  BY DEF Refuses, Running, Held, Left
<1>4. PlanSet' = PlanSet /\ made' = made /\ offer' = offer
  BY DEF Refuses, PlanSet, IsPlan
<1>5. Phase[R] = "offered" /\ Phase'[R] = "closed"
  BY <1>0, <1>1, <1>2, <1>3, <1>4 DEF PhaseFacts
<1>6. \A p \in Ids \ {R} : Phase'[p] = Phase[p]
  BY <1>0, <1>1, <1>2, <1>3, <1>4 DEF PhaseFacts
<1>7. Phase' = [Phase EXCEPT ![R] = "closed"]
  BY <1>1, <1>5, <1>6, Moved
<1>8. QED
  BY <1>1, <1>2, <1>3, <1>4, <1>5, <1>7
  DEF Life!Withdraw, Life!Move, Phase, PlanSet, Left

LEMMA ProposesMapped ==
    ASSUME IInv, TypeOK', Proposes
    PROVE  \E p \in Ids : Life!Offer(p)
<1>0. PhaseFacts /\ PhaseFacts' /\ TypeOK
  BY PhaseBefore, PhaseAfter DEF IInv
<1>1. PICK form \in {"confirm", "plan"}, wishes \in Seq(Wishes) :
        Save(form, wishes)
  BY DEF Proposes
<1> PICK new \in Ids : new = Len(offer) + 1
  BY <1>0, <1>1, SaveFacts
<1>2. /\ DOMAIN offer' = DOMAIN offer \cup {new}
      /\ new \notin DOMAIN offer
      /\ \A p \in DOMAIN offer : offer'[p] = offer[p]
      /\ Waiting(conv'.kind) /\ conv'.id = new
  BY <1>0, <1>1, SaveFacts
<1>3. /\ Left = 0 /\ \A p \in Ids : ~Running(p)
      /\ Left' = 0 /\ \A p \in Ids : ~Running(p)'
  BY DEF Proposes, Left, Running
<1>4. Held(new)' /\ \A p \in Ids \ {new} : ~Held(p)'
  BY <1>2 DEF Held
<1>5. Phase[new] = "new" /\ Phase'[new] = "offered"
  BY <1>0, <1>2, <1>3, <1>4 DEF PhaseFacts
<1>6. \A p \in Ids \ {new} :
        Phase'[p] = IF Phase[p] = "offered" THEN "closed" ELSE Phase[p]
  BY <1>0, <1>2, <1>3, <1>4 DEF PhaseFacts
<1>7. Phase' = [p \in Ids |-> IF p = new THEN "offered"
                              ELSE IF Phase[p] = "offered" THEN "closed"
                              ELSE Phase[p]]
  BY <1>5, <1>6, PhaseIsFunction
<1>8. PlanSet' \in {PlanSet, PlanSet \cup {new}}
  <2>1. \A p \in DOMAIN offer : IsPlan(p)' <=> IsPlan(p)
    BY <1>2 DEF IsPlan
  <2>2. QED
    BY <1>2, <2>1 DEF PlanSet
<1>9. Life!Offer(new)
  BY <1>3, <1>5, <1>7, <1>8 DEF Proposes, Life!Offer, Phase, PlanSet, Left
<1>10. QED
  BY <1>2, <1>9

LEMMA WorksMapped ==
    ASSUME IInv, TypeOK', Works
    PROVE  [Life!Next]_(Life!lifeVars)
<1>0. PhaseFacts /\ PhaseFacts' /\ TypeOK
  BY PhaseBefore, PhaseAfter DEF IInv
<1>1. /\ \A p \in Ids : Held(p)' <=> Held(p)
      /\ PlanSet' = PlanSet /\ offer' = offer
  BY DEF Works, Held, PlanSet, IsPlan
<1>2. CASE bot.id = None
  <2>1. ~InPlan /\ bot'.pc # "carry_out" /\ made' = made
    BY <1>2 DEF Works, InPlan
  <2>2. /\ Left = 0 /\ \A p \in Ids : ~Running(p)
        /\ Left' = 0 /\ \A p \in Ids : ~Running(p)'
    BY <1>2, <2>1, NothingLeft DEF Left, Running
  <2>3. Phase' = Phase
    BY <1>0, <1>1, <2>2, Still DEF PhaseFacts
  <2>4. QED
    BY <1>1, <2>1, <2>2, <2>3 DEF Life!lifeVars, Phase, PlanSet, Left
<1>3. CASE bot.id # None
  <2> PICK R \in Ids : R = bot.id
    BY <1>0, <1>3, OfferFacts DEF TypeOK
  <2>1. /\ Running(R) /\ R \in DOMAIN offer /\ Phase[R] = "running"
        /\ \A p \in Ids \ {R} : ~Running(p)
        /\ InPlan <=> IsPlan(R)
        /\ made' \in {made, [made EXCEPT ![R] = @ + 1]}
    BY <1>0, <1>3 DEF Works, Running, PhaseFacts, InPlan, IsPlan
  <2>2. CASE IsPlan(R)
    <3>1. /\ bot'.pc = "carry_out" /\ bot'.id = R
          /\ bot'.todo = Tail(bot.todo)
      BY <2>1, <2>2 DEF Works
    <3>2. Left \in Nat /\ Left > 0 /\ Left' = Left - 1
      <4>1. bot.todo \in Seq(Wishes) /\ bot.todo # <<>>
        BY <1>0, BotFacts DEF Works
      <4>2. Len(bot.todo) \in Nat \ {0}
            /\ Len(Tail(bot.todo)) = Len(bot.todo) - 1
        BY <4>1
      <4>3. Left = Len(bot.todo) /\ Left' = Len(Tail(bot.todo))
        BY <1>3, <3>1 DEF Left, Works
      <4>4. QED
        BY <4>2, <4>3
    <3>3. \A p \in Ids : Running(p)' <=> Running(p)
      BY <3>1 DEF Running, Works
    <3>4. Phase' = Phase
      BY <1>0, <1>1, <3>3, Still DEF PhaseFacts
    <3>5. Life!NextItem(R)
      BY <1>1, <2>1, <2>2, <3>2, <3>4 DEF Life!NextItem, Phase, PlanSet, Left
    <3>6. QED
      BY <3>5 DEF Life!Next
  <2>3. CASE ~IsPlan(R)
    <3>1. bot'.pc # "carry_out" /\ ~Held(R)
      BY <2>1, <2>3 DEF Works, IInv, ProposalInv, SpentBeforeDone
    <3>2. Left' = 0 /\ \A p \in Ids : ~Running(p)'
      BY <3>1 DEF Left, Running
    <3>3. Phase'[R] = "closed"
      BY <1>0, <1>1, <2>1, <3>1, <3>2 DEF PhaseFacts
    <3>4. \A p \in Ids \ {R} : Phase'[p] = Phase[p]
      BY <1>0, <1>1, <2>1, <3>2 DEF PhaseFacts
    <3>5. Phase' = [Phase EXCEPT ![R] = "closed"]
      BY <3>3, <3>4, Moved
    <3>6. Life!Conclude(R)
      BY <1>1, <2>1, <2>3, <3>2, <3>5
      DEF Life!Conclude, Life!Move, Phase, PlanSet, Left
    <3>7. QED
      BY <3>6 DEF Life!Next
  <2>4. QED
    BY <2>2, <2>3
<1>4. QED
  BY <1>2, <1>3

LEMMA RestsMapped ==
    ASSUME Rests
    PROVE  UNCHANGED Life!lifeVars
  BY DEF Rests, Life!lifeVars, PhaseOf, IsPlan, Waiting

-----------------------------------------------------------------------------
(* The refinement.                                                         *)

LEMMA InitMapped == Init => Life!Init
<1> SUFFICES ASSUME Init PROVE Life!Init
  OBVIOUS
<1>1. offer = <<>> /\ made = [p \in Ids |-> 0] /\ bot.pc # "carry_out"
  BY IdleType DEF Init
<1>2. DOMAIN offer = {}
  BY <1>1
<1>3. QED
  BY <1>1, <1>2 DEF Life!Init, PhaseOf

LEMMA StepMapped ==
    ASSUME IInv, [Next]_vars
    PROVE  [Life!Next]_(Life!lifeVars)
<1>1. TypeOK' /\ Effect
  BY NextFacts DEF IInv, Step
<1>2. CASE Calm
  BY <1>1, <1>2, CalmMapped
<1>3. CASE Agrees
  BY <1>1, <1>3, AgreesMapped DEF Life!Next
<1>4. CASE Refuses
  BY <1>1, <1>4, RefusesMapped DEF Life!Next
<1>5. CASE Proposes
  BY <1>1, <1>5, ProposesMapped DEF Life!Next
<1>6. CASE Works
  BY <1>1, <1>6, WorksMapped
<1>7. CASE Rests
  BY <1>7, RestsMapped
<1>8. QED
  BY <1>1, <1>2, <1>3, <1>4, <1>5, <1>6, <1>7 DEF Effect

\* The dialogue keeps the promise of ProposalLife about every proposal: a
\* single action at most once even across a crash, a plan until its end, a
\* closed proposal never again (handle_user_message,
\* handle_confirmation_choice).
THEOREM DialogueImplementsLife == Spec => ImplementsLife
<1>1. Init => Life!Init
  BY InitMapped
<1>2. IInv /\ [Next]_vars => [Life!Next]_(Life!lifeVars)
  BY StepMapped
<1>3. QED
  BY <1>1, <1>2, Invariance, PTL DEF Spec, ImplementsLife, Life!Spec
=============================================================================
