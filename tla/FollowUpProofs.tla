--------------------------- MODULE FollowUpProofs ---------------------------
(***************************************************************************)
(* What FollowUp keeps for every set of messages: its types, that nothing  *)
(* incomplete is proposed or carried out, that a dialogue stays about what *)
(* the message that opened it said, and that answers are taken.            *)
(***************************************************************************)
EXTENDS FollowUp, WellFoundedInduction, TLAPS

\* A set of numbers up to n that is not empty has a greatest.
LEMMA GreatestNumber ==
    ASSUME NEW n \in Nat, NEW S \in SUBSET (1..n), S # {}
    PROVE  Max(S) \in S
<1> DEFINE T == {x \in Nat : n - x \in S}
<1>1. PICK s \in S : TRUE
  OBVIOUS
<1>2. n - s \in T
  BY <1>1
<1>3. PICK x \in T : \A y \in T : ~(<<y, x>> \in OpToRel(<, Nat))
  BY <1>2, NatLessThanWellFounded, WFMin
<1>4. ASSUME NEW y \in T PROVE x <= y
  <2>1. ~(y < x) /\ x \in Nat /\ y \in Nat
    BY <1>3 DEF OpToRel
  <2> QED BY <2>1
<1>5. ASSUME NEW y \in S PROVE n - x >= y
  <2>1. y \in 1..n /\ n - y \in Nat
    OBVIOUS
  <2>2. n - (n - y) = y
    BY <2>1
  <2>3. n - y \in T
    BY <2>1, <2>2
  <2>4. x <= n - y
    BY <1>4, <2>3
  <2> QED BY <2>1, <2>4
<1>6. n - x \in S /\ \A y \in S : n - x >= y
  BY <1>3, <1>5
<1> HIDE DEF T
<1>7. \E x0 \in S : \A y \in S : x0 >= y
  BY <1>6
<1> QED BY <1>7, Zenon DEF Max

\* The constants, as TypeOK speaks of them.
LEMMA Constants ==
    /\ MaxMade \in Nat /\ MaxHeard \in Nat /\ Nothing \notin Words
    /\ WakeUp \in Words /\ ByNumber \in Words
    /\ Blank \in Draft /\ Empty \in Row
    /\ \A d \in Draft, f \in Fields : Pending(d, f) \in Row
    /\ \A d \in Draft : Proposed(d) \in Row
  BY FollowUpAssumption
     DEF Blank, Draft, Actions, Slot, Empty, Row, Fields, Pending, Proposed

LEMMA MessageTyped == \A m \in Messages : m \in Message
  BY FollowUpAssumption

\* The latest open reminder is an open reminder.
LEMMA LatestOpen ==
    ASSUME TypeOK
    PROVE  /\ DOMAIN reminders \subseteq 1..MaxMade /\ DOMAIN reminders = 1..Len(reminders)
           /\ Len(reminders) \in Nat
           /\ \A r \in DOMAIN reminders : reminders[r] \in Reminder
           /\ Open # {} => Latest \in Open /\ Latest \in 1..MaxMade
<1>1. /\ reminders \in Seq(Reminder) /\ Len(reminders) <= MaxMade /\ MaxMade \in Nat
  BY Constants DEF TypeOK
<1>2. /\ Len(reminders) \in Nat /\ DOMAIN reminders = 1..Len(reminders)
      /\ \A r \in DOMAIN reminders : reminders[r] \in Reminder
  BY <1>1
<1>3. DOMAIN reminders \subseteq 1..MaxMade
  BY <1>1, <1>2
<1>4. Open \subseteq 1..MaxMade
  BY <1>3 DEF Open
<1>5. Open # {} => Latest \in Open
  BY <1>1, <1>4, GreatestNumber DEF Latest
<1> QED BY <1>2, <1>3, <1>4, <1>5

-----------------------------------------------------------------------------
(* Readings.                                                               *)

LEMMA FirstTyped == \A x \in Slot, y \in Slot : First(x, y) \in Slot
  BY DEF First

\* What the rules read in a message that stands alone.
LEMMA ReadFacts ==
    ASSUME NEW m \in Messages
    PROVE  /\ Read(m) \in Draft
           /\ m.sort \in {"create", "indirect"} =>
                  Read(m).action = "create" /\ Read(m).task = m.task /\ ~Read(m).ack
           /\ m.sort = "wake" =>
                  Read(m).action = "create" /\ Read(m).task = m.task /\ Read(m).ack
           /\ m.sort = "chain" => Read(m).action = "chain" /\ Read(m).task = m.task
           /\ Read(m).action = "chain" => m.sort = "chain"
           /\ Read(m).action = "update" => Read(m).id = m.id
<1>1. m \in Message /\ (m.sort = "wake" => m.task = WakeUp)
  BY FollowUpAssumption
<1>2. /\ m.task \in Slot /\ m.time \in Slot /\ m.hint \in Slot /\ m.id \in 0..MaxMade
      /\ m.value \in {"good", "bad"} /\ m.sort \in Sorts
  BY <1>1 DEF Message
<1>3. WakeUp \in Slot /\ Nothing \in Slot /\ 0 \in 0..MaxMade
  BY Constants DEF Slot
<1>4. CASE m.sort \in {"create", "indirect"}
  <2>1. Read(m) = [Blank EXCEPT !.action = "create", !.task = m.task, !.time = m.time]
    BY <1>4 DEF Read
  <2> QED BY <1>2, <1>3, <1>4, <2>1 DEF Blank, Draft, Actions
<1>5. CASE m.sort = "wake"
  <2>1. Read(m) = [Blank EXCEPT !.action = "create", !.task = WakeUp, !.time = m.time,
                                !.ack = TRUE]
    BY <1>5 DEF Read
  <2> QED BY <1>1, <1>2, <1>3, <1>5, <2>1 DEF Blank, Draft, Actions
<1>6. CASE m.sort = "update"
  <2>1. Read(m) = [Blank EXCEPT !.action = "update", !.id = m.id, !.hint = m.hint,
                                !.time = m.time]
    BY <1>6 DEF Read
  <2> QED BY <1>2, <1>3, <1>6, <2>1 DEF Blank, Draft, Actions
<1>7. CASE m.sort = "delete"
  <2>1. Read(m) = [Blank EXCEPT !.action = "delete", !.id = m.id, !.hint = m.hint]
    BY <1>7 DEF Read
  <2> QED BY <1>2, <1>3, <1>7, <2>1 DEF Blank, Draft, Actions
<1>8. CASE m.sort = "chain"
  <2>1. Read(m) = [Blank EXCEPT !.action = "chain", !.task = m.task, !.time = m.time]
    BY <1>8 DEF Read
  <2> QED BY <1>2, <1>3, <1>8, <2>1 DEF Blank, Draft, Actions
<1>9. CASE m.sort = "set"
  <2>1. Read(m) = [Blank EXCEPT !.action = "set", !.value = m.value]
    BY <1>9 DEF Read
  <2> QED BY <1>2, <1>3, <1>9, <2>1 DEF Blank, Draft, Actions
<1>10. CASE m.sort \in {"words", "keep", "yes", "stop"}
  <2>1. Read(m) = Blank
    BY <1>10 DEF Read
  <2> QED BY <1>2, <1>3, <1>10, <2>1 DEF Blank, Draft, Actions
<1> QED BY <1>2, <1>4, <1>5, <1>6, <1>7, <1>8, <1>9, <1>10 DEF Sorts

\* What an answer makes of a draft.
LEMMA ContinueFacts ==
    ASSUME NEW m \in Messages, NEW d \in Draft
    PROVE  /\ Continue(d, m) \in Draft /\ Continue(d, m).action = d.action
           /\ d.action = "create" =>
                  /\ Continue(d, m).task = First(d.task, m.task)
                  /\ Continue(d, m).ack = d.ack
           /\ d.action = "chain" => Continue(d, m).task = First(d.task, m.text)
           /\ d.action = "update" => Continue(d, m).id = d.id
<1>1. m \in Message
  BY MessageTyped
<1>2. /\ m.task \in Slot /\ m.time \in Slot /\ m.text \in Slot
      /\ d.task \in Slot /\ d.time \in Slot /\ d.hint \in Slot
      /\ d.id \in 0..MaxMade /\ d.ack \in BOOLEAN /\ d.action \in Actions
  BY <1>1 DEF Message, Draft, Slot
<1>3. /\ First(d.task, m.task) \in Slot /\ First(d.time, m.time) \in Slot
      /\ First(d.hint, m.text) \in Slot /\ First(d.task, m.text) \in Slot
      /\ First(d.time, m.text) \in Slot
  BY <1>2, FirstTyped
<1>4. CASE d.action = "create"
  <2>1. Continue(d, m) = [Blank EXCEPT !.action = "create", !.ack = d.ack,
                  !.task = First(d.task, m.task), !.time = First(d.time, m.time)]
    BY <1>4 DEF Continue, ContinueCreation
  <2> QED BY <1>2, <1>3, <1>4, <2>1, Constants DEF Blank, Draft, Actions
<1>5. CASE d.action = "delete"
  <2>1. Continue(d, m) = [Blank EXCEPT !.action = "delete", !.hint = m.text]
    BY <1>5 DEF Continue
  <2> QED BY <1>2, <1>3, <1>5, <2>1, Constants DEF Blank, Draft, Actions
<1>6. CASE d.action = "update"
  <2> DEFINE time == IF d.hint = Nothing THEN d.time ELSE First(d.time, m.text)
  <2>1. Continue(d, m) = [Blank EXCEPT !.action = "update", !.id = d.id,
                              !.hint = First(d.hint, m.text), !.time = time]
    BY <1>6 DEF Continue, ContinueChange
  <2>2. time \in Slot
    BY <1>2, <1>3
  <2> HIDE DEF time
  <2> QED BY <1>2, <1>3, <1>6, <2>1, <2>2, Constants DEF Blank, Draft, Actions
<1>7. CASE d.action = "chain"
  <2> DEFINE time == IF d.task = Nothing THEN d.time ELSE First(d.time, m.text)
  <2>1. Continue(d, m) = [Blank EXCEPT !.action = "chain", !.task = First(d.task, m.text),
                              !.time = time]
    BY <1>7 DEF Continue, ContinueChain
  <2>2. time \in Slot
    BY <1>2, <1>3
  <2> HIDE DEF time
  <2> QED BY <1>2, <1>3, <1>7, <2>1, <2>2, Constants DEF Blank, Draft, Actions
<1>8. CASE d.action \in {"none", "set"}
  <2>1. Continue(d, m) = d
    BY <1>8 DEF Continue
  <2> QED BY <1>8, <2>1
<1> QED BY <1>2, <1>4, <1>5, <1>6, <1>7, <1>8 DEF Actions

\* Where nothing is left to ask, the draft is complete.
LEMMA NothingToAsk ==
    ASSUME NEW d \in Draft, NEW offsets, d.action # "none", AskedBy(d, offsets) = "none"
    PROVE  Complete(d)
<1>1. d.action \in Actions /\ d.value \in {"good", "bad"}
  BY DEF Draft
<1>2. CASE d.action = "create"
  BY <1>2 DEF AskedBy, Complete
<1>3. CASE d.action = "chain"
  BY <1>3 DEF AskedBy, Complete
<1>4. CASE d.action = "update"
  BY <1>4 DEF AskedBy, Complete
<1>5. CASE d.action = "delete"
  BY <1>5 DEF AskedBy, Complete
<1>6. CASE d.action = "set"
  BY <1>1, <1>6 DEF AskedBy, Complete
<1> QED BY <1>1, <1>2, <1>3, <1>4, <1>5, <1>6 DEF Actions

-----------------------------------------------------------------------------
(* The invariant.                                                          *)

Creating == {"create", "wake", "indirect"}

\* A draft is about its wish, as WishIsKept and WakeUpStaysWakeUp need it: a
\* creation stays one, and keeps that it is to be acknowledged.
DraftAbout(d, w) ==
    /\ AboutTheWish(d, w)
    /\ w.sort \in Creating => d.action = "create"
    /\ w.sort = "wake" => d.ack
    /\ w.sort \in {"create", "indirect"} => ~d.ack

\* A reminder is about the wish it was made for.
ReminderAbout(r) ==
    /\ r.wish.sort \in Creating => First(r.wish.task, r.task) = r.task
    /\ r.wish.sort = "wake" => r.ack
    /\ r.wish.sort \in {"create", "indirect"} => ~r.ack

\* A wish for a chain says of what.
Sayable(w) == w \in Message /\ (w.sort = "chain" => w.task # Nothing)

Dialogue ==
    /\ TypeOK /\ CompleteOnly /\ Sayable(wish)
    /\ row.kind # "none" => DraftAbout(row.draft, wish)
    /\ \A r \in DOMAIN reminders : ReminderAbout(reminders[r])

\* Only the reminder that a wish names gets a new time.
Retimed == \A r \in DOMAIN reminders :
               reminders'[r].time # reminders[r].time /\ Names(wish)' => r = wish'.id

LEMMA MessagesSayable == \A m \in Messages : Sayable(m)
  BY FollowUpAssumption DEF Sayable

LEMMA InitDialogue == Init => Dialogue
<1> SUFFICES ASSUME Init PROVE Dialogue
  OBVIOUS
<1>1. TypeOK
  BY Constants, MessageTyped DEF Init, TypeOK, Slot
<1>2. CompleteOnly
  BY DEF Init, CompleteOnly, Empty, Blank
<1> QED BY <1>1, <1>2, MessagesSayable DEF Init, Dialogue, Empty

\* A draft made by the rules from a request of its own, or from an answer.
LEMMA ReadingFacts ==
    ASSUME Dialogue, NEW m \in Messages
    PROVE  /\ Reading(m) \in Draft /\ WishAfter(m) \in Message
           /\ Sayable(WishAfter(m))
           /\ DraftAbout(Reading(m), WishAfter(m))
<1>1. row \in Row /\ row.draft \in Draft /\ wish \in Message /\ Sayable(wish)
      /\ row.draft.task \in Slot /\ m \in Message /\ m.task \in Slot
  BY MessageTyped DEF Dialogue, TypeOK, Row, Draft, Message
<1>2. CASE Answers(m)
  <2>1. row.kind = "draft" /\ WishAfter(m) = wish /\ Reading(m) = Continue(row.draft, m)
    BY <1>2, Zenon DEF Answers, Kept, Empty, WishAfter, Reading
  <2> DEFINE d == row.draft
             e == Continue(row.draft, m)
  <2>2. DraftAbout(d, wish)
    BY <2>1 DEF Dialogue
  <2>3. /\ e \in Draft /\ e.action = d.action
        /\ d.action = "create" => e.task = First(d.task, m.task) /\ e.ack = d.ack
        /\ d.action = "chain" => e.task = First(d.task, m.text)
        /\ d.action = "update" => e.id = d.id
    BY <1>1, ContinueFacts
  <2> HIDE DEF e, d
  <2>4. AboutTheWish(e, wish)
    <3>1. CASE d.action = "create"
      BY <2>2, <2>3, <3>1 DEF DraftAbout, AboutTheWish, First
    <3>2. CASE d.action = "chain"
      BY <1>1, <2>2, <2>3, <3>2 DEF DraftAbout, AboutTheWish, First, Sayable
    <3>3. CASE d.action = "update"
      BY <2>2, <2>3, <3>3 DEF DraftAbout, AboutTheWish
    <3>4. CASE d.action \notin {"create", "chain", "update"}
      BY <2>3, <3>4 DEF AboutTheWish
    <3> QED BY <3>1, <3>2, <3>3, <3>4
  <2>5. DraftAbout(e, wish)
    BY <2>2, <2>3, <2>4 DEF DraftAbout, Creating
  <2> QED BY <1>1, <2>1, <2>3, <2>5 DEF e
<1>3. CASE ~Answers(m)
  <2>1. WishAfter(m) = m /\ Reading(m) = Read(m)
    BY <1>3, Zenon DEF Answers, WishAfter, Reading
  <2> DEFINE e == Read(m)
  <2>2. /\ e \in Draft
        /\ m.sort \in {"create", "indirect"} =>
               e.action = "create" /\ e.task = m.task /\ ~e.ack
        /\ m.sort = "wake" => e.action = "create" /\ e.task = m.task /\ e.ack
        /\ m.sort = "chain" => e.action = "chain" /\ e.task = m.task
        /\ e.action = "chain" => m.sort = "chain"
        /\ e.action = "update" => e.id = m.id
    BY ReadFacts
  <2> HIDE DEF e
  <2>3. AboutTheWish(e, m)
    BY <2>2 DEF AboutTheWish, First
  <2>4. DraftAbout(e, m)
    BY <2>2, <2>3 DEF DraftAbout, Creating
  <2> QED BY <1>1, <2>1, <2>2, <2>4, MessagesSayable DEF e
<1> QED BY <1>2, <1>3

-----------------------------------------------------------------------------
(* The steps.                                                              *)

\* A step that only changes what waits in the row.
LEMMA RowStep ==
    ASSUME Dialogue, reminders' = reminders, done' = Blank,
           row' \in Row, discussed' \in Slot, heard' \in 0..MaxHeard, Sayable(wish'),
           row'.kind = "proposal" => Complete(row'.draft),
           row'.kind # "none" => DraftAbout(row'.draft, wish')
    PROVE  Dialogue' /\ Retimed
<1>1. TypeOK'
  BY Constants DEF Dialogue, TypeOK, Sayable
<1>2. CompleteOnly'
  <2>1. done'.action = "none"
    BY Zenon DEF Blank
  <2> QED BY <2>1 DEF CompleteOnly, Complete
<1>3. \A r \in DOMAIN reminders' : ReminderAbout(reminders'[r])
  BY DEF Dialogue
<1>4. Dialogue'
  BY <1>1, <1>2, <1>3, Zenon DEF Dialogue, DraftAbout, AboutTheWish, First, Names, Sayable,
     ReminderAbout
<1> QED BY <1>4 DEF Retimed

\* One reminder changes.
LEMMA OneReminder ==
    ASSUME Dialogue, NEW r \in Open, NEW x \in Reminder, ReminderAbout(x),
           reminders' = [reminders EXCEPT ![r] = x]
    PROVE  /\ reminders' \in Seq(Reminder) /\ Len(reminders') <= MaxMade
           /\ \A q \in DOMAIN reminders' : ReminderAbout(reminders'[q])
           /\ \A q \in DOMAIN reminders : q # r => reminders'[q] = reminders[q]
           /\ reminders'[r] = x
<1>1. /\ reminders \in Seq(Reminder) /\ Len(reminders) <= MaxMade /\ r \in DOMAIN reminders
      /\ \A q \in DOMAIN reminders : ReminderAbout(reminders[q])
  BY DEF Dialogue, TypeOK, Open
<1> HIDE DEF ReminderAbout
<1>2. /\ reminders' \in Seq(Reminder) /\ Len(reminders') = Len(reminders)
      /\ DOMAIN reminders' = DOMAIN reminders
  BY <1>1
<1>3. \A q \in DOMAIN reminders : q # r => reminders'[q] = reminders[q]
  BY <1>1
<1>4. reminders'[r] = x
  BY <1>1
<1>5. ASSUME NEW q \in DOMAIN reminders' PROVE ReminderAbout(reminders'[q])
  <2>1. CASE q = r
    BY <1>4, <2>1
  <2>2. CASE q # r
    BY <1>1, <1>2, <1>3, <2>2
  <2> QED BY <2>1, <2>2
<1> QED BY <1>1, <1>2, <1>3, <1>4, <1>5

\* What is said on the side is a task.
LEMMA NotedTyped ==
    ASSUME TypeOK, NEW m \in Messages, Noted(m)
    PROVE  discussed' \in Slot
  BY MessageTyped DEF Noted, TypeOK, Message

\* A new reminder is about its wish.
LEMMA MakeKeeps ==
    ASSUME Dialogue, NEW d \in Draft, Make(d), Sayable(wish'), DraftAbout(d, wish')
    PROVE  /\ reminders' \in Seq(Reminder) /\ Len(reminders') <= MaxMade
           /\ \A q \in DOMAIN reminders' : ReminderAbout(reminders'[q])
           /\ discussed' \in Slot /\ Retimed
<1> DEFINE new == [open |-> TRUE, task |-> d.task, time |-> d.time, ack |-> d.ack,
                   wish |-> wish']
<1>1. /\ reminders \in Seq(Reminder) /\ Len(reminders) \in Nat /\ MaxMade \in Nat
      /\ DOMAIN reminders = 1..Len(reminders)
      /\ \A q \in DOMAIN reminders : ReminderAbout(reminders[q])
  BY LatestOpen, Constants DEF Dialogue, TypeOK
<1>2. /\ reminders' = Append(reminders, new) /\ Len(reminders) < MaxMade
      /\ discussed' = d.task /\ d.action = "create"
  BY Zenon DEF Make
<1>3. new \in Reminder
  BY DEF Reminder, Draft, Sayable
<1>4. ReminderAbout(new)
  <2>1. /\ new.task = d.task /\ new.ack = d.ack /\ new.wish = wish'
    BY Zenon
  <2> HIDE DEF new
  <2> QED BY <1>2, <2>1 DEF ReminderAbout, DraftAbout, AboutTheWish, Creating, First
<1> HIDE DEF new
<1>5. /\ reminders' \in Seq(Reminder) /\ Len(reminders') = Len(reminders) + 1
      /\ DOMAIN reminders' = 1..Len(reminders) + 1
      /\ reminders'[Len(reminders) + 1] = new
      /\ \A q \in 1..Len(reminders) : reminders'[q] = reminders[q]
  BY <1>1, <1>2, <1>3
<1>6. ASSUME NEW q \in DOMAIN reminders' PROVE ReminderAbout(reminders'[q])
  <2>1. CASE q \in 1..Len(reminders)
    BY <1>1, <1>5, <2>1
  <2>2. CASE q = Len(reminders) + 1
    BY <1>4, <1>5, <2>2
  <2> QED BY <1>1, <1>5, <2>1, <2>2
<1>7. Len(reminders') <= MaxMade
  BY <1>1, <1>2, <1>5
<1>8. Retimed
  BY <1>1, <1>5 DEF Retimed
<1> QED BY <1>2, <1>5, <1>6, <1>7, <1>8 DEF Draft

\* A change gives its time to the reminder its wish names.
LEMMA ChangeKeeps ==
    ASSUME Dialogue, NEW d \in Draft, NEW r \in Ids, Change(d, r),
           Sayable(wish'), DraftAbout(d, wish')
    PROVE  /\ reminders' \in Seq(Reminder) /\ Len(reminders') <= MaxMade
           /\ \A q \in DOMAIN reminders' : ReminderAbout(reminders'[q])
           /\ Retimed
<1> DEFINE x == [reminders[r] EXCEPT !.time = d.time]
<1>1. /\ r \in Open /\ r \in DOMAIN reminders /\ reminders[r] \in Reminder
      /\ ReminderAbout(reminders[r]) /\ d.time \in Slot
  BY LatestOpen DEF Dialogue, Change, Fits, Open, Draft
<1>2. x \in Reminder /\ ReminderAbout(x)
  <2>1. /\ x \in Reminder /\ x.task = reminders[r].task /\ x.ack = reminders[r].ack
        /\ x.wish = reminders[r].wish
    BY <1>1 DEF Reminder
  <2> HIDE DEF x
  <2> QED BY <1>1, <2>1 DEF ReminderAbout
<1>3. reminders' = [reminders EXCEPT ![r] = x]
  BY Zenon DEF Change
<1>4. Names(wish)' => r = wish'.id
  <2>1. d.action = "update"
    BY DEF Change
  <2>2. Names(wish') => d.id = wish'.id /\ wish'.id # 0
    BY <2>1 DEF DraftAbout, AboutTheWish, Names
  <2>3. d.id # 0 => r = d.id
    BY DEF Change, Fits
  <2> QED BY <2>2, <2>3
<1> HIDE DEF x
<1>5. /\ reminders' \in Seq(Reminder) /\ Len(reminders') <= MaxMade
      /\ \A q \in DOMAIN reminders' : ReminderAbout(reminders'[q])
      /\ \A q \in DOMAIN reminders : q # r => reminders'[q] = reminders[q]
  BY <1>1, <1>2, <1>3, OneReminder
<1>6. Retimed
  BY <1>4, <1>5 DEF Retimed
<1> QED BY <1>5, <1>6

\* A reminder is closed, by a cancellation or elsewhere.
LEMMA ClosingKeeps ==
    ASSUME Dialogue, NEW r \in Open,
           reminders' = [reminders EXCEPT ![r].open = FALSE]
    PROVE  /\ reminders' \in Seq(Reminder) /\ Len(reminders') <= MaxMade
           /\ \A q \in DOMAIN reminders' : ReminderAbout(reminders'[q])
           /\ Retimed
<1> DEFINE x == [reminders[r] EXCEPT !.open = FALSE]
<1>1. /\ r \in DOMAIN reminders /\ reminders[r] \in Reminder
      /\ ReminderAbout(reminders[r])
  BY LatestOpen DEF Dialogue, Open
<1>2. /\ x \in Reminder /\ x.task = reminders[r].task /\ x.ack = reminders[r].ack
      /\ x.wish = reminders[r].wish /\ x.time = reminders[r].time
  BY <1>1 DEF Reminder
<1>3. reminders' = [reminders EXCEPT ![r] = x]
  BY Zenon
<1> HIDE DEF x
<1>4. ReminderAbout(x)
  BY <1>1, <1>2 DEF ReminderAbout
<1>5. /\ reminders' \in Seq(Reminder) /\ Len(reminders') <= MaxMade
      /\ \A q \in DOMAIN reminders' : ReminderAbout(reminders'[q])
      /\ \A q \in DOMAIN reminders : q # r => reminders'[q] = reminders[q]
      /\ reminders'[r] = x
  BY <1>1, <1>2, <1>3, <1>4, OneReminder
<1>6. Retimed
  BY <1>2, <1>5 DEF Retimed
<1> QED BY <1>5, <1>6

\* A complete draft about its wish is carried out.
LEMMA CarryOutKeeps ==
    ASSUME Dialogue, NEW m \in Messages, NEW d \in Draft, CarryOut(d, m),
           Complete(d), Sayable(wish'), DraftAbout(d, wish'), heard' \in 0..MaxHeard
    PROVE  Dialogue' /\ Retimed
<1> DEFINE Kept1 == /\ reminders' \in Seq(Reminder) /\ Len(reminders') <= MaxMade
                    /\ \A q \in DOMAIN reminders' : ReminderAbout(reminders'[q])
                    /\ discussed' \in Slot /\ Retimed
<1>1. ASSUME Make(d) PROVE Kept1
  BY <1>1, MakeKeeps
<1>2. ASSUME NEW r \in Ids, Change(d, r), Noted(m) PROVE Kept1
  BY <1>2, ChangeKeeps, NotedTyped DEF Dialogue
<1>3. ASSUME NEW r \in Ids, Cancel(d, r) PROVE Kept1
  <2>1. r \in Open /\ reminders' = [reminders EXCEPT ![r].open = FALSE]
        /\ discussed' = reminders[r].task
    BY <1>3, Zenon DEF Cancel, Fits
  <2>2. reminders[r] \in Reminder
    BY <2>1, LatestOpen DEF Dialogue, Open
  <2>3. discussed' \in Slot
    BY <2>1, <2>2 DEF Reminder
  <2> QED BY <2>1, <2>3, ClosingKeeps
<1>4. ASSUME Fail(m) PROVE Kept1
  <2>1. discussed' \in Slot /\ reminders' = reminders
    BY <1>4, NotedTyped DEF Fail, Dialogue
  <2> QED BY <2>1 DEF Dialogue, TypeOK, Retimed
<1>5. Kept1
  BY <1>1, <1>2, <1>3, <1>4 DEF CarryOut
<1>6. row' = Empty /\ done' = d
  BY DEF CarryOut
<1> HIDE DEF Kept1
<1>7. TypeOK'
  BY <1>5, <1>6, Constants DEF TypeOK, Sayable, Kept1
<1>8. row'.kind = "none"
  BY <1>6, Zenon DEF Empty
<1>9. CompleteOnly'
  BY <1>6, <1>8 DEF CompleteOnly, Complete
<1>10. Dialogue'
  BY <1>5, <1>7, <1>8, <1>9, Zenon DEF Dialogue, DraftAbout, AboutTheWish, First, Names,
     Sayable, ReminderAbout, Kept1
<1> QED BY <1>5, <1>10 DEF Kept1

\* The draft of a correction is to change the latest reminder.
LEMMA LatestDraftFacts ==
    ASSUME Dialogue, Open # {}, NEW t \in Slot
    PROVE  /\ LatestDraft \in Draft /\ LatestDraft.action = "update"
           /\ LatestDraft.id = Latest /\ LatestDraft.hint = ByNumber
           /\ [LatestDraft EXCEPT !.time = t] \in Draft
           /\ [LatestDraft EXCEPT !.time = t].action = "update"
           /\ [LatestDraft EXCEPT !.time = t].id = Latest
           /\ [LatestDraft EXCEPT !.time = t].hint = ByNumber
           /\ [LatestDraft EXCEPT !.time = t].time = t
<1> DEFINE l == reminders[Latest]
<1>1. l \in Reminder /\ Latest \in 1..MaxMade /\ ByNumber \in Slot
  BY LatestOpen, Constants DEF Dialogue, Open, Slot
<1>2. l.task \in Slot /\ l.ack \in BOOLEAN
  BY <1>1 DEF Reminder
<1>3. LatestDraft = [Blank EXCEPT !.action = "update", !.task = l.task, !.id = Latest,
                                  !.hint = ByNumber, !.ack = l.ack]
  BY Zenon DEF LatestDraft
<1>4. Latest \in 0..MaxMade
  BY <1>1, Constants
<1> HIDE DEF l
<1>5. /\ LatestDraft \in Draft /\ LatestDraft.action = "update"
      /\ LatestDraft.id = Latest /\ LatestDraft.hint = ByNumber
  BY <1>1, <1>2, <1>3, <1>4, Constants DEF Blank, Draft, Actions
<1> HIDE DEF LatestDraft
<1> QED BY <1>5 DEF Draft

\* What every message shares.
LEMMA Heard ==
    ASSUME Dialogue, NEW m \in Messages, Say(m)
    PROVE  heard' \in 0..MaxHeard
  BY Constants DEF Dialogue, TypeOK, Say

\* A proposal that waits is complete and about its wish.
LEMMA WaitingProposal ==
    ASSUME Dialogue, NEW m \in Messages, ToProposal(m)
    PROVE  /\ row.kind = "proposal" /\ row.draft \in Draft /\ Complete(row.draft)
           /\ DraftAbout(row.draft, wish) /\ Sayable(wish) /\ Say(m)
<1>1. row.kind = "proposal"
  BY Zenon DEF ToProposal, Kept, Empty
<1> QED BY <1>1 DEF Dialogue, TypeOK, Row, CompleteOnly, ToProposal, Considered, GoesOn

\* "Keep the task, change the time" goes on with the wish, or opens a creation.
LEMMA KeepTaskStep ==
    ASSUME Dialogue, NEW m \in Messages, KeepTask(m)
    PROVE  Dialogue' /\ Retimed
<1>1. /\ Say(m) /\ m.sort = "keep" /\ done' = Blank
      /\ reminders' = reminders /\ discussed' = discussed
      /\ wish' = IF row.kind = "none" THEN m ELSE wish
  BY DEF KeepTask
<1>2. /\ row \in Row /\ row.draft \in Draft /\ row.kind \in {"none", "draft", "proposal"}
      /\ discussed \in Slot /\ heard' \in 0..MaxHeard /\ Sayable(wish')
  BY <1>1, Heard, MessagesSayable DEF Dialogue, TypeOK, Row
<1>3. CASE row.kind = "proposal"
  <2>1. row' = Pending(row.draft, "time") /\ wish' = wish
    BY <1>1, <1>3 DEF KeepTask
  <2>2. row' \in Row /\ row'.kind = "draft" /\ row'.draft = row.draft
    BY <1>2, <2>1, Constants DEF Pending, Fields
  <2> QED BY <1>1, <1>2, <1>3, <2>1, <2>2, RowStep DEF Dialogue
<1>4. CASE row.kind = "draft"
  <2> DEFINE d == row.draft
             e == [d EXCEPT !.action = "create"]
  <2>1. row' = Pending(e, "time") /\ wish' = wish
    BY <1>1, <1>4 DEF KeepTask
  <2>2. /\ e \in Draft /\ e.action = "create" /\ e.task = d.task /\ e.ack = d.ack
    BY <1>2 DEF Draft, Actions
  <2>3. DraftAbout(d, wish)
    BY <1>4 DEF Dialogue
  <2> HIDE DEF e, d
  <2>4. DraftAbout(e, wish)
    BY <2>2, <2>3 DEF DraftAbout, AboutTheWish, Creating
  <2>5. row' \in Row /\ row'.kind = "draft" /\ row'.draft = e
    BY <2>1, <2>2, Constants DEF Pending, Fields
  <2> QED BY <1>1, <1>2, <2>1, <2>4, <2>5, RowStep
<1>5. CASE row.kind = "none"
  <2> DEFINE t == CurrentTask
             e == [Blank EXCEPT !.action = "create", !.task = t]
  <2>1. row' = Pending(e, "time") /\ wish' = m
    BY <1>1, <1>5 DEF KeepTask
  <2>2. t \in Slot
    <3>1. Open # {} => reminders[Latest] \in Reminder
      BY LatestOpen DEF Dialogue, Open
    <3>2. Open # {} => reminders[Latest].task \in Slot
      BY <3>1 DEF Reminder
    <3> QED BY <1>2, <1>5, <3>2 DEF CurrentTask, Slot
  <2> HIDE DEF t
  <2>3. e \in Draft
    BY <2>2, Constants DEF Blank, Draft, Actions
  <2> HIDE DEF e
  <2>4. row' \in Row /\ row'.kind = "draft"  /\ row'.draft = e
    BY <2>1, <2>3, Constants DEF Pending, Fields
  <2>5. e.action = "create"
    BY Zenon DEF e, Blank
  <2>6. DraftAbout(e, m)
    BY <1>1, <2>5 DEF DraftAbout, AboutTheWish, Creating
  <2> QED BY <1>1, <1>2, <2>1, <2>4, <2>6, RowStep
<1> QED BY <1>2, <1>3, <1>4, <1>5

\* The question which reminder is meant opens a dialogue about "that one".
LEMMA AskWhichStep ==
    ASSUME Dialogue, NEW m \in Messages, AskWhich(m)
    PROVE  Dialogue' /\ Retimed
<1> DEFINE e == [Blank EXCEPT !.action = m.sort]
<1>1. /\ Say(m) /\ m.which /\ m.sort \in {"update", "delete"} /\ done' = Blank
      /\ reminders' = reminders /\ discussed' = discussed /\ wish' = m
      /\ row' = Pending(e, "target")
  BY Zenon DEF AskWhich, GoesOn
<1>2. e \in Draft /\ e.action = m.sort
  BY <1>1, Constants DEF Blank, Draft, Actions
<1> HIDE DEF e
<1>3. row' \in Row /\ row'.kind = "draft" /\ row'.draft = e
  BY <1>1, <1>2, Constants DEF Pending, Fields
<1>4. DraftAbout(e, m)
  BY <1>1, <1>2 DEF DraftAbout, AboutTheWish, Creating, Names
<1>5. heard' \in 0..MaxHeard /\ Sayable(m) /\ discussed' \in Slot
  BY <1>1, Heard, MessagesSayable DEF Dialogue, TypeOK
<1> QED BY <1>1, <1>3, <1>4, <1>5, RowStep

\* The row is kept or emptied, and what is said on the side is noted.
LEMMA PlainStep ==
    ASSUME Dialogue, NEW m \in Messages, Say(m), reminders' = reminders,
           done' = Blank, wish' = wish, row' \in {row, Empty},
           discussed' = discussed \/ Noted(m)
    PROVE  Dialogue' /\ Retimed
<1>1. /\ row \in Row /\ Empty \in Row /\ Empty.kind = "none"
      /\ heard' \in 0..MaxHeard /\ discussed' \in Slot /\ Sayable(wish)
  BY Heard, NotedTyped, Constants DEF Dialogue, TypeOK, Empty
<1>2. CASE row' = row
  BY <1>1, <1>2, RowStep DEF Dialogue, CompleteOnly
<1>3. CASE row' = Empty
  BY <1>1, <1>3, RowStep
<1> QED BY <1>2, <1>3

\* A corrected proposal becomes a draft about the same wish.
LEMMA CorrectStep ==
    ASSUME Dialogue, NEW m \in Messages, Correct(m)
    PROVE  Dialogue' /\ Retimed
<1>1. /\ ToProposal(m) /\ row' = Pending(row.draft, "time") /\ done' = Blank /\ Noted(m)
      /\ reminders' = reminders /\ wish' = wish
  BY DEF Correct, Corrects
<1>2. /\ row.draft \in Draft /\ DraftAbout(row.draft, wish) /\ Sayable(wish) /\ Say(m)
  BY <1>1, WaitingProposal
<1>3. row' \in Row /\ row'.kind = "draft" /\ row'.draft = row.draft
  BY <1>1, <1>2, Constants DEF Pending, Fields
<1>4. heard' \in 0..MaxHeard /\ discussed' \in Slot
  BY <1>1, <1>2, Heard, NotedTyped DEF Dialogue
<1> QED BY <1>1, <1>2, <1>3, <1>4, RowStep

\* A repair opens a dialogue about the latest reminder.
LEMMA RepairLatestStep ==
    ASSUME Dialogue, NEW m \in Messages, RepairLatest(m)
    PROVE  Dialogue' /\ Retimed
<1> DEFINE w == [m EXCEPT !.sort = "words", !.id = Latest, !.which = FALSE]
           d == LatestDraft
           e == [LatestDraft EXCEPT !.time = m.time]
<1>1. /\ Say(m) /\ SignalOf(m) # "none" /\ Open # {} /\ done' = Blank /\ Noted(m)
      /\ reminders' = reminders /\ wish' = w
      /\ row' = IF SignalOf(m) = "ask" THEN Pending(d, "time") ELSE Proposed(e)
  BY Zenon DEF RepairLatest, Considered, GoesOn
<1>2. m \in Message /\ m.time \in Slot
  BY MessageTyped DEF Message
<1>3. Latest \in 1..MaxMade
  BY <1>1, LatestOpen DEF Dialogue
<1>4. /\ d \in Draft /\ d.action = "update" /\ d.id = Latest
      /\ e \in Draft /\ e.action = "update" /\ e.id = Latest /\ e.hint = ByNumber
      /\ e.time = m.time
  BY <1>1, <1>2, LatestDraftFacts
<1>5. /\ w \in Message /\ w.sort = "words" /\ w.id = Latest
  <2>1. Latest \in 0..MaxMade
    BY <1>3, Constants
  <2> QED BY <1>2, <2>1 DEF Message, Sorts
<1>6. SignalOf(m) # "ask" => m.time # Nothing
  <2>1. SignalOf(m) # "ask" => SignalOf(m) = m.signal
    BY <1>1 DEF SignalOf
  <2>2. m.signal \in {"none", "ask", "time"} /\ (m.signal = "time" => m.time # Nothing)
    BY <1>2, FollowUpAssumption DEF Message
  <2> QED BY <1>1, <2>1, <2>2
<1> HIDE DEF w, d, e
<1>7. Sayable(w) /\ DraftAbout(d, w) /\ DraftAbout(e, w)
  BY <1>4, <1>5 DEF Sayable, DraftAbout, AboutTheWish, Creating, Names
<1>8. heard' \in 0..MaxHeard /\ discussed' \in Slot
  BY <1>1, Heard, NotedTyped DEF Dialogue
<1>9. CASE SignalOf(m) = "ask"
  <2>1. row' \in Row /\ row'.kind = "draft" /\ row'.draft = d
    BY <1>1, <1>4, <1>9, Constants DEF Pending, Fields
  <2> QED BY <1>1, <1>7, <1>8, <2>1, RowStep
<1>10. CASE SignalOf(m) # "ask"
  <2>1. row' \in Row /\ row'.kind = "proposal" /\ row'.draft = e
    BY <1>1, <1>4, <1>10, Constants DEF Proposed
  <2>2. Complete(e)
    BY <1>3, <1>4, <1>6, <1>10 DEF Complete
  <2> QED BY <1>1, <1>7, <1>8, <2>1, <2>2, RowStep
<1> QED BY <1>9, <1>10

\* Agreeing carries out what was proposed.
LEMMA AgreeStep ==
    ASSUME Dialogue, NEW m \in Messages, Agree(m)
    PROVE  Dialogue' /\ Retimed
<1>1. ToProposal(m) /\ wish' = wish /\ CarryOut(row.draft, m)
  BY DEF Agree
<1>2. /\ row.draft \in Draft /\ Complete(row.draft) /\ DraftAbout(row.draft, wish)
      /\ Sayable(wish) /\ Say(m)
  BY <1>1, WaitingProposal
<1>3. heard' \in 0..MaxHeard
  BY <1>2, Heard
<1> QED BY <1>1, <1>2, <1>3, CarryOutKeeps

\* A request, or an answer, is interpreted.
LEMMA InterpretedStep ==
    ASSUME Dialogue, NEW m \in Messages, Ask(m) \/ Propose(m) \/ Execute(m)
    PROVE  Dialogue' /\ Retimed
<1> DEFINE d == Reading(m)
           w == WishAfter(m)
<1>1. /\ d \in Draft /\ Sayable(w) /\ DraftAbout(d, w)
  BY ReadingFacts
<1>2. Say(m) /\ d.action # "none" /\ wish' = w
  BY DEF Ask, Propose, Execute, Understood, Interpreted, Considered, GoesOn
<1>3. heard' \in 0..MaxHeard
  BY <1>2, Heard
<1>4. CASE Ask(m)
  <2>1. /\ row' = Pending(d, Question(m)) /\ done' = Blank /\ Noted(m)
        /\ reminders' = reminders
    BY <1>4 DEF Ask
  <2>2. Question(m) \in Fields
    BY Zenon DEF Question, AskedBy, Fields
  <2> HIDE DEF d, w
  <2>3. row' \in Row /\ row'.kind = "draft" /\ row'.draft = d
    BY <1>1, <2>1, <2>2, Constants DEF Pending
  <2>4. discussed' \in Slot
    BY <2>1, NotedTyped DEF Dialogue
  <2> QED BY <1>1, <1>2, <1>3, <2>1, <2>3, <2>4, RowStep
<1>5. ASSUME Understood(m) PROVE Complete(d)
  <2>1. \E offsets : AskedBy(d, offsets) = "none"
    BY <1>5, Zenon DEF Understood, Question
  <2> HIDE DEF d
  <2> QED BY <1>1, <1>2, <2>1, NothingToAsk
<1>6. CASE Propose(m)
  <2>1. /\ row' = Proposed(d) /\ done' = Blank /\ Noted(m)
        /\ reminders' = reminders /\ Complete(d)
    BY <1>5, <1>6 DEF Propose
  <2> HIDE DEF d, w
  <2>2. row' \in Row /\ row'.kind = "proposal" /\ row'.draft = d
    BY <1>1, <2>1, Constants DEF Proposed
  <2>3. discussed' \in Slot
    BY <2>1, NotedTyped DEF Dialogue
  <2> QED BY <1>1, <1>2, <1>3, <2>1, <2>2, <2>3, RowStep
<1>7. CASE Execute(m)
  <2>1. CarryOut(d, m) /\ Complete(d)
    BY <1>5, <1>7 DEF Execute
  <2> HIDE DEF d, w
  <2> QED BY <1>1, <1>2, <1>3, <2>1, CarryOutKeeps
<1> QED BY <1>4, <1>6, <1>7

\* A reminder is closed elsewhere.
LEMMA CloseStep ==
    ASSUME Dialogue, NEW r \in Ids, Close(r)
    PROVE  Dialogue' /\ Retimed
<1>1. /\ r \in Open /\ reminders' = [reminders EXCEPT ![r].open = FALSE]
      /\ row' = row /\ discussed' = discussed /\ heard' = heard
      /\ wish' = wish /\ done' = done
  BY DEF Close
<1>2. /\ reminders' \in Seq(Reminder) /\ Len(reminders') <= MaxMade
      /\ \A q \in DOMAIN reminders' : ReminderAbout(reminders'[q])
      /\ Retimed
  BY <1>1, ClosingKeeps
<1>3. TypeOK' /\ CompleteOnly'
  BY <1>1, <1>2 DEF Dialogue, TypeOK, CompleteOnly
<1> QED BY <1>1, <1>2, <1>3 DEF Dialogue

\* Whatever is said, the dialogue keeps to its wish.
LEMMA NextDialogue ==
    ASSUME Dialogue, [Next]_vars
    PROVE  Dialogue' /\ Retimed
<1>1. ASSUME NEW m \in Messages, Hear(m) PROVE Dialogue' /\ Retimed
  <2>1. CASE KeepTask(m)
    BY <2>1, KeepTaskStep
  <2>2. CASE AskWhich(m)
    BY <2>2, AskWhichStep
  <2>3. CASE SmallTalk(m)
    BY <2>3, PlainStep DEF SmallTalk, Considered, GoesOn
  <2>4. CASE Agree(m)
    BY <2>4, AgreeStep
  <2>5. CASE Refuse(m)
    BY <2>5, PlainStep DEF Refuse, ToProposal, Considered, GoesOn
  <2>6. CASE Correct(m)
    BY <2>6, CorrectStep
  <2>7. CASE LoseCorrected(m)
    BY <2>7, PlainStep DEF LoseCorrected, Corrects, ToProposal, Considered, GoesOn
  <2>8. CASE RepairLatest(m)
    BY <2>8, RepairLatestStep
  <2>9. CASE RepairNone(m)
    BY <2>9, PlainStep DEF RepairNone, Kept, Considered, GoesOn
  <2>10. CASE Misunderstand(m)
    BY <2>10, PlainStep DEF Misunderstand, Interpreted, Considered, GoesOn
  <2>11. CASE Ask(m) \/ Propose(m) \/ Execute(m)
    BY <2>11, InterpretedStep
  <2> QED BY <1>1, <2>1, <2>2, <2>3, <2>4, <2>5, <2>6, <2>7, <2>8, <2>9, <2>10, <2>11
          DEF Hear
<1>2. ASSUME NEW r \in Ids, Close(r) PROVE Dialogue' /\ Retimed
  BY <1>2, CloseStep
<1>3. CASE UNCHANGED vars
  <2>1. row' = row /\ reminders' = reminders /\ discussed' = discussed
        /\ heard' = heard /\ wish' = wish /\ done' = done
    BY <1>3 DEF vars
  <2> QED BY <2>1 DEF Dialogue, TypeOK, CompleteOnly, Retimed
<1> QED BY <1>1, <1>2, <1>3 DEF Next, Horizon

LEMMA AlwaysDialogue == Spec => []Dialogue
<1>1. Dialogue /\ [Next]_vars => Dialogue'
  BY NextDialogue
<1> QED BY InitDialogue, <1>1, PTL DEF Spec

-----------------------------------------------------------------------------
(* What the specification keeps.                                           *)

\* The state has its shape: no dialogue leaves a draft, a proposal or a
\* reminder that the code could not read back (agent.py:127).
THEOREM TypeCorrect == Spec => []TypeOK
  BY AlwaysDialogue, PTL DEF Dialogue

\* Nothing is proposed or carried out while a slot it needs is empty, for
\* every set of messages (checker.py:29, interpretation_service.py:390).
THEOREM CompletedFirst == Spec => []CompleteOnly
  BY AlwaysDialogue, PTL DEF Dialogue

\* However long it is asked and corrected, a draft or a proposal stays about
\* what the message that opened its dialogue said (agent.py:127).
THEOREM WishesAreKept == Spec => []WishIsKept
<1>1. Dialogue => WishIsKept
  BY DEF Dialogue, WishIsKept, DraftAbout, ReminderAbout, Creating
<1> QED BY AlwaysDialogue, <1>1, PTL

\* A wake-up becomes a reminder to be acknowledged, another request does not
\* (agent.py:153).
THEOREM WakeUpsAreKept == Spec => []WakeUpStaysWakeUp
<1>1. Dialogue => WakeUpStaysWakeUp
  BY DEF Dialogue, WakeUpStaysWakeUp, ReminderAbout
<1> QED BY AlwaysDialogue, <1>1, PTL

\* A wish that names a reminder never gives another one a new time, be the
\* named one closed before the wish is confirmed (resolver.py:31).
THEOREM OthersAreLeftAlone == Spec => OnlyTheNamed
<1>1. Dialogue /\ [Next]_vars => Retimed
  BY NextDialogue
<1>2. Retimed => \A r \in DOMAIN reminders :
          reminders'[r].time # reminders[r].time /\ Names(wish)' => r = wish'.id
  BY DEF Retimed
<1> QED BY AlwaysDialogue, <1>1, <1>2, PTL DEF Spec, OnlyTheNamed
-----------------------------------------------------------------------------
(* Answers.                                                                *)

\* What a draft can have been asked for.
Asking ==
    row.kind = "draft" =>
        /\ row.asked = "target" => row.draft.action \in {"update", "delete"}
        /\ row.asked = "task" => row.draft.action \in {"create", "chain"}
        /\ row.asked = "time" /\ row.draft.action = "chain" => row.draft.task # Nothing

LEMMA QuestionFacts ==
    ASSUME NEW d, NEW offsets
    PROVE  LET q == AskedBy(d, offsets)
           IN  /\ q = "target" => d.action \in {"update", "delete"} /\ d.hint = Nothing
               /\ q = "task" => d.action \in {"create", "chain"} /\ d.task = Nothing
               /\ q = "time" => d.time = Nothing
               /\ q = "time" /\ d.action = "chain" => d.task # Nothing
  BY DEF AskedBy

LEMMA NextAsking == Dialogue /\ Asking /\ [Next]_vars => Asking'
<1> SUFFICES ASSUME Dialogue, Asking, [Next]_vars PROVE Asking'
  OBVIOUS
<1>1. ASSUME row'.kind # "draft" \/ row' = row PROVE Asking'
  BY <1>1 DEF Asking
<1>2. ASSUME NEW d, row' = Pending(d, "time"), d.action = "chain" => d.task # Nothing
      PROVE  Asking'
  BY <1>2 DEF Asking, Pending
<1>3. ASSUME NEW m \in Messages, Hear(m) PROVE Asking'
  <2>1. CASE KeepTask(m)
    <3>1. CASE row.kind = "proposal"
      <4>1. row.draft.action = "chain" => row.draft.task # Nothing
        BY <3>1 DEF Dialogue, CompleteOnly, Complete
      <4>2. row' = Pending(row.draft, "time")
        BY <2>1, <3>1 DEF KeepTask
      <4> QED BY <1>2, <4>1, <4>2
    <3>2. CASE row.kind = "draft"
      <4> DEFINE d == [row.draft EXCEPT !.action = "create"]
      <4>1. row' = Pending(d, "time")
        BY <2>1, <3>2 DEF KeepTask
      <4>2. d.action = "create"
        BY DEF Dialogue, TypeOK, Row, Draft
      <4> HIDE DEF d
      <4> QED BY <1>2, <4>1, <4>2
    <3>3. CASE row.kind \notin {"proposal", "draft"}
      <4> DEFINE d == [Blank EXCEPT !.action = "create", !.task = CurrentTask]
      <4>1. row' = Pending(d, "time")
        BY <2>1, <3>3 DEF KeepTask
      <4>2. d.action = "create"
        BY DEF Blank
      <4> HIDE DEF d
      <4> QED BY <1>2, <4>1, <4>2
    <3> QED BY <3>1, <3>2, <3>3
  <2>2. CASE AskWhich(m)
    <3> DEFINE d == [Blank EXCEPT !.action = m.sort]
    <3>1. row' = Pending(d, "target") /\ m.sort \in {"update", "delete"}
      BY <2>2 DEF AskWhich
    <3>2. d.action = m.sort
      BY DEF Blank
    <3> HIDE DEF d
    <3> QED BY <3>1, <3>2 DEF Asking, Pending
  <2>3. CASE SmallTalk(m) \/ Agree(m) \/ Refuse(m) \/ LoseCorrected(m) \/ RepairNone(m)
             \/ Misunderstand(m) \/ Propose(m) \/ Execute(m)
    <3>1. row' = row \/ row' = Empty \/ \E d : row' = Proposed(d)
      BY <2>3 DEF SmallTalk, Agree, Refuse, LoseCorrected, RepairNone, Kept,
                  Misunderstand, Propose, Execute, CarryOut
    <3>2. Empty.kind # "draft" /\ \A d : Proposed(d).kind # "draft"
      BY DEF Empty, Proposed
    <3> QED BY <1>1, <3>1, <3>2
  <2>4. CASE Correct(m)
    <3>1. row.kind = "proposal" /\ row' = Pending(row.draft, "time")
      BY <2>4, Zenon DEF Correct, Corrects, ToProposal, Kept, Empty
    <3>2. row.draft.action = "chain" => row.draft.task # Nothing
      BY <3>1 DEF Dialogue, CompleteOnly, Complete
    <3> QED BY <1>2, <3>1, <3>2
  <2>5. CASE RepairLatest(m)
    <3>1. CASE SignalOf(m) = "ask"
      <4>1. LatestDraft.action = "update"
        BY DEF LatestDraft, Blank
      <4>2. row' = Pending(LatestDraft, "time")
        BY <2>5, <3>1 DEF RepairLatest
      <4> QED BY <1>2, <4>1, <4>2
    <3>2. CASE SignalOf(m) # "ask"
      <4>1. row'.kind = "proposal"
        BY <2>5, <3>2 DEF RepairLatest, Proposed
      <4> QED BY <1>1, <4>1
    <3> QED BY <3>1, <3>2
  <2>6. CASE Ask(m)
    <3> DEFINE d == Reading(m)
               q == Question(m)
    <3>1. /\ row' = Pending(d, q)
      BY <2>6 DEF Ask
    <3>2. /\ q = "target" => d.action \in {"update", "delete"}
          /\ q = "task" => d.action \in {"create", "chain"}
          /\ q = "time" /\ d.action = "chain" => d.task # Nothing
      BY QuestionFacts DEF Question
    <3> HIDE DEF d, q
    <3> QED BY <3>1, <3>2 DEF Asking, Pending
  <2> QED BY <1>3, <2>1, <2>2, <2>3, <2>4, <2>5, <2>6 DEF Hear
<1>4. CASE \E r \in Ids : Close(r)
  BY <1>1, <1>4 DEF Close
<1>5. CASE UNCHANGED vars
  BY <1>1, <1>5 DEF vars
<1> QED BY <1>3, <1>4, <1>5 DEF Next, Horizon

LEMMA AlwaysAsking == Spec => [](Dialogue /\ Asking)
<1>1. Init => Asking
  BY DEF Init, Asking, Empty
<1>2. Dialogue /\ [Next]_vars => Dialogue'
  BY NextDialogue
<1> QED BY InitDialogue, NextAsking, <1>1, <1>2, PTL DEF Spec

\* What an answer puts into the slot it was asked for.
LEMMA AnswerFills ==
    ASSUME Dialogue, Asking, NEW m \in Messages, row.kind = "draft",
           row.asked \in {"task", "time", "target"}, Given(m) # Nothing,
           row.draft.action \in {"create", "update", "delete", "chain"},
           Held(row.draft, row.asked) = Nothing,
           row.asked = "time" =>
               /\ row.draft.action # "delete"
               /\ ~(row.draft.action = "update" /\ row.draft.hint = Nothing)
    PROVE  Held(Continue(row.draft, m), row.asked) = Given(m)
<1> DEFINE d == row.draft
<1>1. m.text # Nothing /\ d \in Draft
  BY MessageTyped, Constants DEF Message, Dialogue, TypeOK, Row
<1>2. CASE d.action = "create"
  <2>1. Continue(d, m) = [Blank EXCEPT !.action = "create", !.ack = d.ack,
                  !.task = First(d.task, m.task), !.time = First(d.time, m.time)]
    BY <1>2 DEF Continue, ContinueCreation
  <2>2. /\ Continue(d, m).task = First(d.task, m.task)
        /\ Continue(d, m).time = First(d.time, m.time)
    BY <2>1 DEF Blank
  <2>3. row.asked \in {"task", "time"}
    BY <1>2 DEF Asking
  <2> QED BY <1>2, <2>2, <2>3 DEF Held, Given, First
<1>3. CASE d.action = "update"
  <2> DEFINE time == IF d.hint = Nothing THEN d.time ELSE First(d.time, m.text)
  <2>1. Continue(d, m) = [Blank EXCEPT !.action = "update", !.id = d.id,
                              !.hint = First(d.hint, m.text), !.time = time]
    BY <1>3 DEF Continue, ContinueChange
  <2>2. Continue(d, m).hint = First(d.hint, m.text) /\ Continue(d, m).time = time
    BY <2>1 DEF Blank
  <2>3. row.asked \in {"time", "target"} /\ (row.asked = "time" => d.hint # Nothing)
    BY <1>3 DEF Asking
  <2> QED BY <1>3, <2>2, <2>3 DEF Held, Given, First
<1>4. CASE d.action = "delete"
  <2>1. Continue(d, m).hint = m.text
    BY <1>4 DEF Continue, Blank
  <2>2. row.asked = "target"
    BY <1>4 DEF Asking
  <2> QED BY <1>4, <2>1, <2>2 DEF Held, Given
<1>5. CASE d.action = "chain"
  <2> DEFINE time == IF d.task = Nothing THEN d.time ELSE First(d.time, m.text)
  <2>1. Continue(d, m) = [Blank EXCEPT !.action = "chain", !.task = First(d.task, m.text),
                              !.time = time]
    BY <1>5 DEF Continue, ContinueChain
  <2>2. Continue(d, m).task = First(d.task, m.text) /\ Continue(d, m).time = time
    BY <2>1 DEF Blank
  <2>3. row.asked \in {"task", "time"} /\ (row.asked = "time" => d.task # Nothing)
    BY <1>5 DEF Asking
  <2> QED BY <1>5, <2>2, <2>3 DEF Held, Given, First
<1> QED BY <1>2, <1>3, <1>4, <1>5

\* What is filled is not asked for again.
LEMMA NotAskedAgain ==
    ASSUME NEW d, NEW offsets, NEW field \in {"task", "time", "target"},
           Held(d, field) # Nothing
    PROVE  AskedBy(d, offsets) # field
  BY QuestionFacts DEF Held

\* An answer that gives what was asked for is taken, and the question is not
\* asked again, for every set of messages (agent.py:127-188, README.md:37).
THEOREM AnswersAreTaken == Spec => AnswerIsTaken
<1> DEFINE Taken(m) ==
        /\ Interpreted(m) /\ Answers(m)
        /\ row.asked \in {"task", "time", "target"} /\ Given(m) # Nothing
        /\ row.draft.action \in {"create", "update", "delete", "chain"}
        /\ Held(row.draft, row.asked) = Nothing
        /\ row.asked = "time" =>
               /\ row.draft.action # "delete"
               /\ ~(row.draft.action = "update" /\ row.draft.hint = Nothing)
        /\ Ask(m) \/ Propose(m) \/ Execute(m)
        => Held(Outcome, row.asked) = Given(m) /\ row'.asked # row.asked
<1>1. ASSUME Dialogue, Asking, NEW m \in Messages PROVE Taken(m)
  <2> SUFFICES
        ASSUME Answers(m), row.asked \in {"task", "time", "target"}, Given(m) # Nothing,
               row.draft.action \in {"create", "update", "delete", "chain"},
               Held(row.draft, row.asked) = Nothing,
               row.asked = "time" =>
                   /\ row.draft.action # "delete"
                   /\ ~(row.draft.action = "update" /\ row.draft.hint = Nothing),
               Ask(m) \/ Propose(m) \/ Execute(m)
        PROVE  Held(Outcome, row.asked) = Given(m) /\ row'.asked # row.asked
    OBVIOUS
  <2>1. row.kind = "draft" /\ Reading(m) = Continue(row.draft, m)
    BY Zenon DEF Answers, Kept, Empty, Reading
  <2>2. Held(Reading(m), row.asked) = Given(m)
    BY <1>1, <2>1, AnswerFills
  <2>3. CASE Ask(m)
    <3>1. row' = Pending(Reading(m), Question(m))
      BY <2>3 DEF Ask
    <3>2. row'.kind = "draft" /\ row'.draft = Reading(m) /\ row'.asked = Question(m)
      BY <3>1 DEF Pending
    <3>3. Question(m) # row.asked
      BY <2>2, NotAskedAgain DEF Question
    <3> QED BY <2>2, <3>2, <3>3 DEF Outcome
  <2>4. CASE Propose(m)
    <3>1. row' = Proposed(Reading(m))
      BY <2>4 DEF Propose
    <3>2. row'.kind = "proposal" /\ row'.draft = Reading(m) /\ row'.asked = "none"
      BY <3>1 DEF Proposed
    <3> QED BY <2>2, <3>2 DEF Outcome
  <2>5. CASE Execute(m)
    <3>1. row' = Empty /\ done' = Reading(m)
      BY <2>5 DEF Execute, CarryOut
    <3>2. row'.kind = "none" /\ row'.asked = "none"
      BY <3>1 DEF Empty
    <3> QED BY <2>2, <3>1, <3>2 DEF Outcome
  <2> QED BY <2>3, <2>4, <2>5
<1>2. Dialogue /\ Asking /\ [Next]_vars => [\A m \in Messages : Taken(m)]_vars
  BY <1>1
<1> QED BY AlwaysAsking, <1>2, PTL DEF Spec, AnswerIsTaken
=============================================================================
