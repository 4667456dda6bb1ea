----------------------------- MODULE Judgement -----------------------------
(***************************************************************************)
(* What the bot does with one reading of a message: ask for more, propose  *)
(* it, or carry it out unasked.  The confidence of the reading goes        *)
(* through semantic judgment, memory, learning, checker and evaluator, in  *)
(* hundredths; tags decide before the confidence does.                     *)
(***************************************************************************)
EXTENDS Integers, FiniteSetsExt

CONSTANTS
    AutoExecute,     \* ai_min_auto_execute_confidence
    ConfirmMin,      \* ai_confirmation_min_confidence
    ConfirmWakeUps,  \* ai_confirm_wakeups
    Tasks,           \* tasks of reminders
    Phrases          \* wordings of a time that normalisation changes

ASSUME JudgementAssumption ==
    /\ AutoExecute \in 0..100 /\ ConfirmMin \in 0..100
    /\ ConfirmWakeUps \in BOOLEAN

Models == {"fastpath", "rules", "llm"}
Actions == {"create", "update", "delete", "chain", "other"}
Confirmable == {"create", "update", "delete", "chain"}
Scheduling == {"create", "update"}

NoTask == "no task"
NoPhrase == "no phrase"
NoHour == -1
Hours == 0..23
Periods == {"morning", "afternoon", "evening", "night"}
NoPeriod == "none"

\* A reading, with what the later stages will find in its text: an
\* approximate or unusual time, an indirect wish, a reminder in the way, a
\* missing field, a question of the reader's own, a target that is only
\* described while several reminders are open, and a time that says 2 AM.
Reading ==
    [model : Models, action : Actions, confidence : 0..100, wake : BOOLEAN,
     sounds : SUBSET {"approximate", "suspicious"}, indirect : BOOLEAN,
     conflict : {"none", "overlap", "duplicate"}, lacks : BOOLEAN,
     asks : BOOLEAN, vague : BOOLEAN, early : BOOLEAN,
     task : Tasks \cup {NoTask}, hour : Hours \cup {NoHour},
     period : Periods \cup {NoPeriod}, phrase : Phrases \cup {NoPhrase}]

\* What is known about the message: similar requests that succeeded, the risk
\* of its wording, the profile of a task it resembles, and if that is its own.
Profile == [uses : Nat, hour : Hours \cup {NoHour}]
NoProfile == [uses |-> 0, hour |-> NoHour]

-----------------------------------------------------------------------------
\* _classify_period.
PeriodOf(hour) ==
    CASE hour = NoHour    -> NoPeriod
      [] hour \in 5..11   -> "morning"
      [] hour \in 12..16  -> "afternoon"
      [] hour \in 17..21  -> "evening"
      [] OTHER            -> "night"

\* apply_semantic_judgment.
Semantic(r, c) ==
    LET Cap(sound, limit) ==
            IF r.action \in Scheduling /\ sound \in r.sounds THEN limit ELSE 100
    IN  Min({c, Cap("approximate", 64), Cap("suspicious", 58)})

\* MemoryReasoner.apply: a profile of three uses speaks against a time that
\* does not name its part of the day.
Remembered(r, known, c) ==
    LET usual == PeriodOf(known.profile.hour)
        own == IF known.own THEN Min({97, c + 8}) ELSE c
    IN  IF r.action # "create" \/ known.profile.uses = 0 THEN c
        ELSE IF usual = NoPeriod THEN own
        ELSE IF r.period = usual THEN Min({97, own + 5})
        ELSE IF known.profile.uses >= 3 THEN Max({25, own - 6})
        ELSE own

\* adapt_confidence: examples replace what was thought so far.
BaseConfidence == 55

Learned(known, c) ==
    IF known.examples = 0 THEN c
    ELSE Min({100, BaseConfidence + Min({12, 3 * known.examples})})

\* SemanticConflictDetector and EvaluatorAgent: force_confirmation.
InTheWay(r) == r.action \in Scheduling \cup {"chain"} /\ r.conflict # "none"

\* learned_risk, the checker's doubt about a described target, and the
\* evaluator's about a reminder in the way.
Doubted(r, known, c) ==
    LET risk == IF known.risky THEN Min({c, 62}) ELSE c
        described == IF r.vague THEN Max({0, risk - 10}) ELSE risk
    IN  IF InTheWay(r)
        THEN Min({described, IF r.conflict = "duplicate" THEN 56 ELSE 62})
        ELSE described

Confidence(r, known) ==
    Doubted(r, known, Learned(known, Remembered(r, known, Semantic(r, r.confidence))))

-----------------------------------------------------------------------------
\* should_confirm_for_semantics.
SoundsOdd(r) ==
    r.indirect \/ (r.action \in Scheduling /\ r.sounds # {})

\* _should_request_confirmation.  Below ConfirmMin nothing is asked.
ShouldConfirm(r, known) ==
    /\ r.action \in Confirmable
    /\ \/ SoundsOdd(r)
       \/ known.risky
       \/ /\ r.model = "rules" => r.wake
          /\ \/ r.wake /\ ConfirmWakeUps
             \/ Confidence(r, known) \in ConfirmMin..(AutoExecute - 1)

\* Lines 501-584 of handle_user_message.
Verdicts == {"ask", "propose", "execute"}
Verdict(r, known) ==
    IF r.lacks \/ r.asks THEN "ask"
    ELSE IF InTheWay(r) \/ ShouldConfirm(r, known) THEN "propose" ELSE "execute"
=============================================================================
