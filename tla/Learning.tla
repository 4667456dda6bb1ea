------------------------------ MODULE Learning ------------------------------
(***************************************************************************)
(* What the bot learns from one user's requests and how it uses it: the    *)
(* score of a wording (its signature: times and numbers blanked out), the  *)
(* examples of requests that succeeded, the wordings of a time it rewrites *)
(* and the usual hour of a task.  Each message gets a reading (Judgement), *)
(* is asked about, proposed or carried out, and what becomes of it is      *)
(* recorded.  Which readings a message may get is a constant: they come    *)
(* from a language model, or from rules.                                   *)
(***************************************************************************)
EXTENDS Judgement, FiniteSets

CONSTANTS
    Texts,          \* messages
    Answers,        \* those that do not look like new requests
    Repairs,        \* those that detect_repair_signal takes for a correction
    Signatures,     \* what build_signature makes of messages
    SignatureOf,    \* of each text
    PhraseOf,       \* the wording of a time in each text
    Normalised,     \* each text with that wording normalised
    SimilarTo,      \* the texts whose examples count for each text
    Resembles,      \* the tasks whose profile each text brings to mind
    ReadingsOf,     \* what each text may be read as
    Planned,        \* items of plans: text, task and hour
    MaxHeard        \* bound: messages, presses and choices

ASSUME LearningAssumption ==
    /\ IsFiniteSet(Texts) /\ Answers \subseteq Texts /\ Repairs \subseteq Texts
    /\ SignatureOf \in [Texts -> Signatures]
    /\ PhraseOf \in [Texts -> Phrases \cup {NoPhrase}]
    /\ Normalised \in [Texts -> Texts]
    /\ SimilarTo \in [Texts -> SUBSET Texts]
    /\ Resembles \in [Texts -> SUBSET Tasks]
    /\ \A x \in Texts : ReadingsOf[x] \subseteq Reading
    /\ Planned \subseteq [text : Texts, task : Tasks, hour : Hours \cup {NoHour}]
    /\ NoTask \notin Tasks /\ NoPhrase \notin Phrases
    /\ MaxHeard \in Nat

VARIABLES
    scores,      \* PhraseRiskScore, by signature
    examples,    \* CorrectionExample, by text, as many as count
    patterns,    \* LearnedTimePattern: wordings rewritten from now on
    profiles,    \* TaskMemoryProfile, by task
    row,         \* the follow-up or the proposal that waits
    offers,      \* keyboards that offer targets
    made,        \* original_text of the reminders created
    heard,       \* how much of the bound is used
    (* What an observer of the run would have noted; no action reads these. *)
    refused,     \* proposals refused, by signature of the request
    credit,      \* what the user did in favour of a wording, at most
    hours        \* hours of the reminders created, by task

tables == <<scores, examples, patterns, profiles>>
notes == <<refused, credit, hours>>
vars == <<tables, row, offers, made, heard, notes>>

-----------------------------------------------------------------------------
Score == [success : Nat, confirmed : Nat, corrected : Nat]
NoScore == [success |-> 0, confirmed |-> 0, corrected |-> 0]

\* The row of the chat: nothing; a follow-up and the request it completes; or
\* a proposal, the request it is for, the message that was read and how.
Empty == [kind |-> "none"]
FollowUp(source) == [kind |-> "follow-up", source |-> source]
Proposal(source, text, r) ==
    [kind |-> "proposal", source |-> source, text |-> text, reading |-> r]
Row ==
    {Empty} \cup {FollowUp(x) : x \in Texts}
    \cup [kind : {"proposal"}, source : Texts, text : Texts, reading : Reading]

Offer == [text : Texts, action : {"update", "delete"}, phrase : Phrases \cup {NoPhrase}]

\* _compute_risk reaches 0.35.
Total(score) == score.success + score.confirmed + score.corrected
IsRisky(score) == 30 * score.corrected >= 7 * Max({1, Total(score)})

\* _apply_learned_time_patterns.
Prepared(x) == IF PhraseOf[x] \in patterns THEN Normalised[x] ELSE x

\* positive_examples, of all similar texts.
Enough == 3
ExampleRows(x) == {e \in SimilarTo[x] \X (1..Enough) : e[2] <= examples[e[1]]}
Count(x) == Min({Enough, Cardinality(ExampleRows(x))})

\* find_matches: the profiles a text brings to mind, one of which is on top.
TopTasks(x) ==
    LET known == {task \in Resembles[x] : profiles[task].uses > 0}
    IN  IF known = {} THEN {NoTask} ELSE known

Known(x, r, top) ==
    [examples |-> Count(x),
     risky |-> IsRisky(scores[SignatureOf[x]]),
     profile |-> IF top = NoTask THEN NoProfile ELSE profiles[top],
     own |-> top # NoTask /\ top = r.task]

Init ==
    /\ scores = [s \in Signatures |-> NoScore]
    /\ examples = [x \in Texts |-> 0]
    /\ patterns = {}
    /\ profiles = [t \in Tasks |-> NoProfile]
    /\ row = Empty /\ offers = {} /\ made = {} /\ heard = 0
    /\ refused = [s \in Signatures |-> 0]
    /\ credit = [s \in Signatures |-> 0]
    /\ hours = [t \in Tasks |-> {}]

-----------------------------------------------------------------------------
(* Records.  Each is committed on its own.                                 *)

\* Mutant: a correction counts as a success.
PraiseInstead(x) ==
    scores' = [scores EXCEPT ![SignatureOf[x]].success = @ + 1]

\* record_correction.
RecordCorrection(x) ==
    scores' = [scores EXCEPT ![SignatureOf[x]].corrected = @ + 1]

\* Score of a wording that succeeded; that was confirmed, which counts twice.
Succeeded(score) == [score EXCEPT !.success = @ + 1]
Confirmed(score) == [Succeeded(score) EXCEPT !.confirmed = @ + 1]

Learn(phrase) == patterns \cup ({phrase} \ {NoPhrase})

\* _record_success_learning.
RecordSuccess(x, phrase, before) ==
    /\ scores' = [before EXCEPT ![SignatureOf[x]] = Succeeded(@)]
    /\ examples' = [examples EXCEPT ![x] = Min({Enough, @ + 1})]
    /\ patterns' = Learn(phrase)

\* round: to the nearest, a half to the even.
Rounded(n, d) ==
    LET q == n \div d
        twice == 2 * (n % d)
    IN  IF twice > d \/ (twice = d /\ q % 2 = 1) THEN q + 1 ELSE q

\* Mutant: the new use is not counted in the divisor.
MeanShort(profile, hour) ==
    IF profile.hour = NoHour THEN hour
    ELSE Rounded(profile.hour * profile.uses + hour, Max({1, profile.uses}))

\* The usual hour: a running mean over all uses, those without an hour too.
Mean(profile, hour) ==
    IF profile.hour = NoHour THEN hour
    ELSE Rounded(profile.hour * profile.uses + hour, profile.uses + 1)

\* remember_from_values.
Remember(task, hour) ==
    /\ profiles' = [profiles EXCEPT ![task] =
           [uses |-> @.uses + 1,
            hour |-> IF hour = NoHour THEN @.hour ELSE Mean(@, hour)]]
    /\ hours' = [hours EXCEPT ![task] = @ \cup ({hour} \ {NoHour})]

\* An observer's note: texts the user did something in favour of.
Credit(texts, points) ==
    [s \in Signatures |->
        IF s \in {SignatureOf[x] : x \in texts} THEN credit[s] + points
                                                ELSE credit[s]]

-----------------------------------------------------------------------------
(* Carrying out, _execute_action, of reading r.  source is the text that   *)
(* the reminder is made from; text is original_message_text; run is the    *)
(* message that was read.  before is the score table, earned the credit,   *)
(* up to here.                                                             *)

\* Creation learns under the source.
Created(r, source, before, earned) ==
    /\ r.action = "create" /\ r.task \in Tasks
    /\ RecordSuccess(source, r.phrase, before)
    /\ Remember(r.task, r.hour)
    /\ made' = made \cup {source}
    /\ credit' = earned
    /\ UNCHANGED offers

\* Update and delete learn under the message, not under the source.
TimePhrase(r) == IF r.action = "update" THEN r.phrase ELSE NoPhrase

Changed(r, source, text, before, earned) ==
    /\ r.action \in {"update", "delete"}
    /\ RecordSuccess(text, TimePhrase(r), before)
    /\ made' = IF r.action = "update" THEN made \cup {source} ELSE made
    /\ credit' = earned
    /\ UNCHANGED <<profiles, hours, offers>>

\* A chain is remembered in the profile of its task, and only there.
Chained(r, source, before, earned) ==
    /\ r.action = "chain" /\ r.task \in Tasks
    /\ Remember(r.task, NoHour)
    /\ scores' = before /\ credit' = earned
    /\ made' = made \cup {source}
    /\ UNCHANGED <<examples, patterns, offers>>

\* Several reminders fit: a keyboard offers them.
Offered(r, run, before, earned) ==
    /\ r.action \in {"update", "delete"}
    /\ offers' = offers \cup {[text |-> run, action |-> r.action, phrase |-> TimePhrase(r)]}
    /\ scores' = before /\ credit' = earned
    /\ UNCHANGED <<examples, patterns, profiles, hours, made>>

\* It fails, or an exception ends it; a failure at 2 AM is a correction.
Failed(r, text, before, earned) ==
    /\ r.action \in Confirmable
    /\ \/ scores' = before
       \/ /\ r.early /\ r.action \in Scheduling
          /\ scores' = [before EXCEPT ![SignatureOf[text]].corrected = @ + 1]
    /\ credit' = earned
    /\ UNCHANGED <<examples, patterns, profiles, hours, made, offers>>

\* A duplicate, or an action that nothing is learnt from.
Unlearned(r, before, earned) ==
    /\ r.action \in {"create", "other"}
    /\ scores' = before /\ credit' = earned
    /\ UNCHANGED <<examples, patterns, profiles, hours, made, offers>>

Execute(r, source, text, run, before, earned) ==
    \/ Created(r, source, before, earned)
    \/ Changed(r, source, text, before, earned)
    \/ Chained(r, source, before, earned)
    \/ Offered(r, run, before, earned)
    \/ Failed(r, text, before, earned)
    \/ Unlearned(r, before, earned)

-----------------------------------------------------------------------------
(* Messages.                                                               *)

Heard == heard < MaxHeard /\ heard' = heard + 1

\* The follow-up that text answers, if it does not look like a new request.
Answering(text) == row.kind = "follow-up" /\ text \in Answers

\* The request that text belongs to, as proposals name it and as an unasked
\* creation does: the follow-up's, or the message itself.
Source(text) == IF Answering(text) THEN row.source ELSE text
CreationSource(text) == IF Answering(text) THEN row.source ELSE Prepared(text)

\* text is read as r, with profile top on top.
Understood(text, r, top) ==
    /\ r \in ReadingsOf[Prepared(text)]
    /\ top \in TopTasks(Prepared(text))

Judged(text, r, top) == Verdict(r, Known(Prepared(text), r, top))

HearAsk(text, r, top) ==
    /\ Heard /\ Understood(text, r, top) /\ Judged(text, r, top) = "ask"
    /\ row' = FollowUp(Source(text))
    /\ UNCHANGED <<tables, offers, made, notes>>

HearPropose(text, r, top) ==
    /\ Heard /\ Understood(text, r, top) /\ Judged(text, r, top) = "propose"
    /\ row' = Proposal(Source(text), text, r)
    /\ UNCHANGED <<tables, offers, made, notes>>

HearExecute(text, r, top) ==
    /\ Heard /\ Understood(text, r, top) /\ Judged(text, r, top) = "execute"
    /\ row' = Empty
    /\ Execute(r, CreationSource(text), text, text, scores,
               Credit({Source(text), CreationSource(text), text}, 1))
    /\ UNCHANGED refused

\* _try_repair_conversation: a correction of the latest open reminder, and a
\* question or a proposal; with nothing open, the message is read as any other.
RepairReading ==
    {r \in UNION {ReadingsOf[x] : x \in Texts} : r.action = "update" /\ r.indirect}

HearRepair(text) ==
    /\ Heard /\ text \in Repairs
    /\ IF row.kind = "proposal" /\ text \in Answers
       THEN row' = FollowUp(row.source) /\ UNCHANGED scores
       ELSE /\ \E latest \in made : RecordCorrection(latest)
            /\ \/ row' = FollowUp(text)
               \/ \E r \in RepairReading : row' = Proposal(text, text, r)
    /\ UNCHANGED <<examples, patterns, profiles, offers, made, notes>>

-----------------------------------------------------------------------------
(* The proposal that waits.                                                *)

Waiting == row.kind = "proposal"

\* Yes, or the button: consent is recorded, then the reading carried out.
Confirm ==
    /\ Heard /\ Waiting /\ row' = Empty
    /\ Execute(row.reading, row.source, row.source, row.text,
               [scores EXCEPT ![SignatureOf[row.source]] = Confirmed(@)],
               Credit({row.source}, 3))
    /\ UNCHANGED refused

\* Cancel, or the buttons to cancel and to edit.
Refuse ==
    /\ Heard /\ Waiting /\ row' = Empty
    /\ RecordCorrection(row.source)
    /\ refused' = [refused EXCEPT ![SignatureOf[row.source]] = @ + 1]
    /\ UNCHANGED <<examples, patterns, profiles, offers, made, credit, hours>>

\* handle_resolution_choice: the update or deletion that was chosen succeeds;
\* the keyboard stays.
Choose(offer) ==
    /\ Heard /\ offer \in offers
    /\ RecordSuccess(offer.text, offer.phrase, scores)
    /\ made' = IF offer.action = "update" THEN made \cup {offer.text} ELSE made
    /\ credit' = Credit({offer.text}, 1)
    /\ UNCHANGED <<profiles, row, offers, refused, hours>>

\* A confirmed plan of several reminders only fills the profiles.
MakePlanned(item) ==
    /\ Heard /\ row = Empty
    /\ Remember(item.task, item.hour)
    /\ made' = made \cup {item.text}
    /\ UNCHANGED <<scores, examples, patterns, row, offers, refused, credit>>

\* The bound is used up.
Horizon == heard = MaxHeard /\ UNCHANGED vars

-----------------------------------------------------------------------------
Hear(text, r, top) ==
    HearAsk(text, r, top) \/ HearPropose(text, r, top) \/ HearExecute(text, r, top)

Next ==
    \/ \E text \in Texts : \E r \in ReadingsOf[Prepared(text)], top \in TopTasks(Prepared(text)) :
           Hear(text, r, top)
    \/ \E text \in Repairs : HearRepair(text)
    \/ Confirm \/ Refuse
    \/ \E offer \in offers : Choose(offer)
    \/ \E item \in Planned : MakePlanned(item)
    \/ Horizon

Spec == Init /\ [][Next]_vars

-----------------------------------------------------------------------------
(* Properties.                                                             *)

\* The shape of the state.
TypeOK ==
    /\ scores \in [Signatures -> Score]
    /\ examples \in [Texts -> 0..Enough]
    /\ patterns \subseteq Phrases
    /\ profiles \in [Tasks -> Profile]
    /\ row \in Row /\ offers \subseteq Offer /\ made \subseteq Texts
    /\ heard \in 0..MaxHeard
    /\ refused \in [Signatures -> Nat] /\ credit \in [Signatures -> Nat]
    /\ hours \in [Tasks -> SUBSET Hours]

\* A confirmable reading of text is carried out without asking.
Unasked(text, r) ==
    /\ r.action \in Confirmable
    /\ \E top \in TopTasks(Prepared(text)) : HearExecute(text, r, top)

\* A wording that the user has refused is not carried out unasked before the
\* user did enough in its favour (self_learning.py:122): a consent is worth
\* three points and a success one, and a refusal outweighs three.  Excepted
\* are texts that are being rewritten and answers to a follow-up, which are
\* looked up under another wording than refusals are recorded under.
TrustIsEarned ==
    [][\A text \in Texts : \A r \in ReadingsOf[text] :
          LET s == SignatureOf[text]
          IN  /\ refused[s] > 0 /\ 23 * refused[s] >= 7 * credit[s]
              /\ Prepared(text) = text /\ ~Answering(text)
              => ~Unasked(text, r)]_vars

\* A refusal never makes a risky wording trusted, and a consent never makes a
\* trusted one risky (self_learning.py:84, 98), unless it fails at 2 AM.
TrustMovesRight ==
    [][\A s \in Signatures :
          /\ IsRisky(scores[s]) /\ ~IsRisky(scores'[s]) => ~Refuse
          /\ ~IsRisky(scores[s]) /\ IsRisky(scores'[s]) => ~Confirm \/ row.reading.early]_vars

\* The usual hour of a task lies between the hours it was made for
\* (memory_profile.py:83), through any number of uses with and without one.
MeanInRange ==
    \A t \in Tasks :
        IF hours[t] = {} THEN profiles[t].hour = NoHour
        ELSE \E low, high \in hours[t] : low <= profiles[t].hour /\ profiles[t].hour <= high

\* The README's claim of line 7, "raises confidence for similar phrases that
\* were confirmed before": a reading of a wording that was confirmed, with
\* examples of its success, is not less confident than it would be without.
ExamplesRaiseConfidence ==
    \A text \in Texts : \A r \in ReadingsOf[Prepared(text)], top \in TopTasks(Prepared(text)) :
        LET known == Known(Prepared(text), r, top)
        IN  known.examples > 0 /\ scores[SignatureOf[Prepared(text)]].confirmed > 0 =>
                Confidence(r, known) >= Confidence(r, [known EXCEPT !.examples = 0])
=============================================================================
