--------------------------- MODULE LearningProofs ---------------------------
(***************************************************************************)
(* What Learning keeps for every set of texts, signatures, readings and    *)
(* tasks: its types, the range of the usual hours, and what refusals,      *)
(* consents and successes do to the trust in a wording.                    *)
(***************************************************************************)
EXTENDS Learning, FiniteSetTheorems, TLAPS

LEMMA MaxOfTwo ==
    ASSUME NEW a \in Int, NEW b \in Int
    PROVE  /\ Max({a, b}) \in {a, b} /\ a <= Max({a, b}) /\ b <= Max({a, b})
<1>1. \E x \in {a, b} : \A y \in {a, b} : x >= y
  <2>1. CASE a >= b BY <2>1
  <2>2. CASE ~(a >= b) BY <2>2
  <2> QED BY <2>1, <2>2
<1>2. /\ Max({a, b}) \in {a, b}
      /\ \A y \in {a, b} : Max({a, b}) >= y
  BY <1>1, Zenon DEF Max
<1> QED BY <1>2, SMT

LEMMA MinOfTwo ==
    ASSUME NEW a \in Int, NEW b \in Int
    PROVE  /\ Min({a, b}) \in {a, b} /\ Min({a, b}) <= a /\ Min({a, b}) <= b
<1>1. \E x \in {a, b} : \A y \in {a, b} : x <= y
  <2>1. CASE a <= b BY <2>1
  <2>2. CASE ~(a <= b) BY <2>2
  <2> QED BY <2>1, <2>2
<1>2. /\ Min({a, b}) \in {a, b}
      /\ \A y \in {a, b} : Min({a, b}) <= y
  BY <1>1, Zenon DEF Min
<1> QED BY <1>2, SMT

-----------------------------------------------------------------------------
(* The usual hour.                                                         *)

LEMMA ProductGrows ==
    ASSUME NEW d \in Nat, NEW a \in Nat, NEW b \in Nat, a <= b
    PROVE  d * a <= d * b /\ d * a \in Nat /\ d * b \in Nat
<1>1. d * (b - a) >= 0
  BY SMT
<1>2. d * (b - a) = d * b - d * a
  BY SMT
<1> QED BY <1>1, <1>2, SMT

\* A number between two multiples of d is rounded to something between.
LEMMA RoundedBetween ==
    ASSUME NEW n \in Nat, NEW d \in Nat \ {0}, NEW a \in Nat, NEW b \in Nat,
           d * a <= n, n <= d * b
    PROVE  Rounded(n, d) \in a..b
<1> DEFINE q == n \div d
           m == n % d
<1>1. q \in Nat /\ m \in Nat /\ m < d /\ n = d * q + m
  BY SMT
<1> HIDE DEF q, m
<1>2. a <= q
  <2>1. SUFFICES ASSUME q + 1 <= a PROVE FALSE
    BY <1>1
  <2>2. d * (q + 1) <= d * a
    BY <1>1, <2>1, ProductGrows
  <2>3. d * (q + 1) = d * q + d
    BY <1>1, SMT
  <2> QED BY <1>1, <2>2, <2>3
<1>3. q <= b
  <2>1. SUFFICES ASSUME b + 1 <= q PROVE FALSE
    BY <1>1
  <2>2. d * (b + 1) <= d * q
    BY <1>1, <2>1, ProductGrows
  <2>3. d * (b + 1) = d * b + d
    BY SMT
  <2> QED BY <1>1, <2>2, <2>3
<1>4. m > 0 => q + 1 <= b
  <2>1. SUFFICES ASSUME m > 0, b <= q PROVE FALSE
    BY <1>1, <1>3
  <2>2. d * b <= d * q
    BY <1>1, <2>1, ProductGrows
  <2> QED BY <1>1, <2>1, <2>2
<1>5. Rounded(n, d) \in {q, q + 1} /\ (Rounded(n, d) = q + 1 => 2 * m >= d)
  BY <1>1 DEF Rounded, q, m
<1> QED BY <1>1, <1>2, <1>3, <1>4, <1>5

\* The mean of a usual hour and a new one lies between the two.
LEMMA MeanBetween ==
    ASSUME NEW profile \in Profile, NEW hour \in Hours,
           profile.hour # NoHour
    PROVE  \/ Mean(profile, hour) \in hour..profile.hour
           \/ Mean(profile, hour) \in profile.hour..hour
<1> DEFINE a == profile.hour
           u == profile.uses
           n == a * u + hour
           d == u + 1
<1>1. a \in Nat /\ u \in Nat /\ hour \in Nat
  BY DEF Profile, Hours, NoHour
<1>2. Mean(profile, hour) = Rounded(n, d)
  BY DEF Mean
<1> HIDE DEF a, u
<1>3. n \in Nat /\ d \in Nat \ {0}
  <2>1. a * u \in Nat
    BY <1>1, SMT
  <2> QED BY <1>1, <2>1
<1>4. d * a = a * u + a /\ d * hour = u * hour + hour
  BY <1>1, SMT
<1>5. CASE a <= hour
  <2>1. u * a <= u * hour /\ u * a = a * u
    BY <1>1, <1>5, ProductGrows, SMT
  <2>2. u * a \in Nat /\ u * hour \in Nat
    BY <1>1, SMT
  <2>3. d * a <= n /\ n <= d * hour
    BY <1>1, <1>4, <1>5, <2>1, <2>2
  <2> HIDE DEF n, d
  <2>4. Rounded(n, d) \in a..hour
    BY <1>1, <1>3, <2>3, RoundedBetween
  <2> QED BY <1>2, <2>4 DEF a
<1>6. CASE hour <= a
  <2>1. u * hour <= u * a /\ u * a = a * u
    BY <1>1, <1>6, ProductGrows, SMT
  <2>2. u * a \in Nat /\ u * hour \in Nat
    BY <1>1, SMT
  <2>3. d * hour <= n /\ n <= d * a
    BY <1>1, <1>4, <1>6, <2>1, <2>2
  <2> HIDE DEF n, d
  <2>4. Rounded(n, d) \in hour..a
    BY <1>1, <1>3, <2>3, RoundedBetween
  <2> QED BY <1>2, <2>4 DEF a
<1> QED BY <1>1, <1>5, <1>6

\* The usual hour after one more use is an hour, or there is still none.
LEMMA RememberTyped ==
    ASSUME NEW task \in Tasks, NEW hour \in Hours \cup {NoHour},
           profiles \in [Tasks -> Profile], hours \in [Tasks -> SUBSET Hours],
           MeanInRange, Remember(task, hour)
    PROVE  /\ profiles' \in [Tasks -> Profile] /\ hours' \in [Tasks -> SUBSET Hours]
           /\ MeanInRange'
<1> DEFINE old == profiles[task]
           mean == IF hour = NoHour THEN old.hour ELSE Mean(old, hour)
           new == [uses |-> old.uses + 1, hour |-> mean]
<1>1. profiles' = [profiles EXCEPT ![task] = new]
  BY DEF Remember
<1>2. hours' = [hours EXCEPT ![task] = hours[task] \cup ({hour} \ {NoHour})]
  BY DEF Remember
<1>3. old \in Profile /\ NoHour \notin Hours
  BY DEF Hours, NoHour
<1>4. \/ hours[task] = {} /\ old.hour = NoHour
      \/ \E low, high \in hours[task] : low <= old.hour /\ old.hour <= high
  BY DEF MeanInRange
<1>5. \/ hour = NoHour /\ mean = old.hour
      \/ hour # NoHour /\ old.hour = NoHour /\ mean = hour
      \/ /\ hour # NoHour /\ old.hour # NoHour
         /\ mean \in hour..old.hour \/ mean \in old.hour..hour
  BY <1>3, MeanBetween DEF Mean
<1> HIDE DEF mean
<1>6. mean \in Hours \cup {NoHour} /\ old.hour \in Hours \cup {NoHour} /\ old.uses \in Nat
  BY <1>3, <1>5 DEF Profile, Hours, NoHour
<1>7. new \in Profile
  BY <1>6 DEF Profile
<1>8. \/ hours'[task] = {} /\ mean = NoHour
      \/ hours'[task] # {} /\ \E low, high \in hours'[task] : low <= mean /\ mean <= high
  <2> DEFINE H == hours[task]
             G == hours'[task]
  <2>1. H \subseteq Hours /\ G = H \cup ({hour} \ {NoHour})
    BY <1>2
  <2>2. \/ H = {} /\ old.hour = NoHour
        \/ \E low, high \in H : low <= old.hour /\ old.hour <= high
    BY <1>4
  <2> HIDE DEF H, G, old
  <2>3. CASE hour = NoHour
    <3>1. G = H /\ mean = old.hour
      BY <1>5, <2>1, <2>3
    <3> QED BY <2>2, <3>1 DEF G
  <2>4. CASE hour # NoHour
    <3>1. G = H \cup {hour} /\ hour \in Nat /\ H \subseteq Nat
      BY <2>1, <2>4 DEF Hours
    <3>2. CASE old.hour = NoHour
      BY <1>5, <2>4, <3>1, <3>2 DEF G
    <3>3. CASE old.hour # NoHour
      <4>1. old.hour \in Nat
        BY <1>6, <3>3 DEF Hours
      <4>2. PICK low \in H, high \in H : low <= old.hour /\ old.hour <= high
        BY <2>2, <3>3
      <4>3. mean \in hour..old.hour \/ mean \in old.hour..hour
        BY <1>5, <2>4, <3>3
      <4>4. CASE mean \in hour..old.hour
        <5>1. hour <= mean /\ mean <= high /\ hour \in G /\ high \in G
          BY <3>1, <4>1, <4>2, <4>4
        <5> QED BY <5>1 DEF G
      <4>5. CASE mean \in old.hour..hour
        <5>1. low <= mean /\ mean <= hour /\ hour \in G /\ low \in G
          BY <3>1, <4>1, <4>2, <4>5
        <5> QED BY <5>1 DEF G
      <4> QED BY <4>3, <4>4, <4>5
    <3> QED BY <3>2, <3>3
  <2> QED BY <2>3, <2>4
<1> HIDE DEF new
<1>9. profiles' \in [Tasks -> Profile] /\ hours' \in [Tasks -> SUBSET Hours]
  BY <1>1, <1>2, <1>7
<1>10. MeanInRange'
  <2> SUFFICES ASSUME NEW t \in Tasks
               PROVE  IF hours'[t] = {} THEN profiles'[t].hour = NoHour
                      ELSE \E low, high \in hours'[t] :
                               low <= profiles'[t].hour /\ profiles'[t].hour <= high
    BY DEF MeanInRange
  <2>1. CASE t = task
    <3>1. profiles'[t].hour = mean
      BY <1>1, <2>1 DEF new
    <3> QED BY <1>8, <2>1, <3>1
  <2>2. CASE t # task
    <3>1. profiles'[t] = profiles[t] /\ hours'[t] = hours[t]
      BY <1>1, <1>2, <2>2
    <3> QED BY <3>1 DEF MeanInRange
  <2> QED BY <2>1, <2>2
<1> QED BY <1>9, <1>10

-----------------------------------------------------------------------------
(* Types.                                                                  *)

\* What the profiles and hours hold goes with the range of the usual hour.
Sound == TypeOK /\ MeanInRange

LEMMA InitSound == Init => Sound
  BY LearningAssumption
     DEF Init, Sound, TypeOK, MeanInRange, Score, NoScore, Profile, NoProfile, NoHour, Row,
         Enough

LEMMA NormalisedIsText == \A x \in Texts : Prepared(x) \in Texts
  BY LearningAssumption DEF Prepared

\* What a row of each kind holds.
LEMMA RowHolds ==
    ASSUME TypeOK
    PROVE  /\ row.kind = "follow-up" => row.source \in Texts
           /\ row.kind = "proposal" =>
                  row.source \in Texts /\ row.text \in Texts /\ row.reading \in Reading
<1>1. CASE row = Empty
  BY <1>1 DEF Empty
<1>2. CASE \E x \in Texts : row = FollowUp(x)
  BY <1>2 DEF FollowUp
<1>3. CASE row \in [kind : {"proposal"}, source : Texts, text : Texts, reading : Reading]
  BY <1>3
<1> QED BY <1>1, <1>2, <1>3 DEF TypeOK, Row

LEMMA ScoresTyped ==
    ASSUME NEW table \in [Signatures -> Score], NEW x \in Texts
    PROVE  /\ SignatureOf[x] \in Signatures
           /\ [table EXCEPT ![SignatureOf[x]] = Succeeded(@)] \in [Signatures -> Score]
           /\ [table EXCEPT ![SignatureOf[x]] = Confirmed(@)] \in [Signatures -> Score]
           /\ [table EXCEPT ![SignatureOf[x]].corrected = @ + 1] \in [Signatures -> Score]
<1>1. SignatureOf[x] \in Signatures
  BY LearningAssumption
<1>2. ASSUME NEW score \in Score
      PROVE  /\ Succeeded(score) \in Score
             /\ Confirmed(score) \in Score
             /\ [score EXCEPT !.corrected = score.corrected + 1] \in Score
  <2>1. Succeeded(score) \in Score
    BY DEF Succeeded, Score
  <2>2. Confirmed(score) \in Score
    <3> DEFINE succeeded == Succeeded(score)
    <3>1. Confirmed(score) = [succeeded EXCEPT !.confirmed = succeeded.confirmed + 1]
      BY DEF Confirmed
    <3> HIDE DEF succeeded
    <3> QED BY <2>1, <3>1 DEF Score, succeeded
  <2>3. [score EXCEPT !.corrected = score.corrected + 1] \in Score
    BY DEF Score
  <2> QED BY <2>1, <2>2, <2>3
<1>3. [table EXCEPT ![SignatureOf[x]] =
          [table[SignatureOf[x]] EXCEPT !.corrected = table[SignatureOf[x]].corrected + 1]]
      \in [Signatures -> Score]
  BY <1>1, <1>2
<1>4. [table EXCEPT ![SignatureOf[x]].corrected = @ + 1] \in [Signatures -> Score]
  BY <1>1, <1>3
<1> QED BY <1>1, <1>2, <1>4

LEMMA CreditTyped ==
    ASSUME TypeOK, NEW texts \in SUBSET Texts, NEW points \in Nat
    PROVE  Credit(texts, points) \in [Signatures -> Nat]
  BY DEF TypeOK, Credit

\* A success is recorded in three tables.
LEMMA SuccessTyped ==
    ASSUME TypeOK, NEW x \in Texts, NEW phrase \in Phrases \cup {NoPhrase},
           NEW before \in [Signatures -> Score], RecordSuccess(x, phrase, before)
    PROVE  /\ scores' \in [Signatures -> Score]
           /\ examples' \in [Texts -> 0..Enough]
           /\ patterns' \subseteq Phrases
<1>1. scores' \in [Signatures -> Score]
  BY ScoresTyped DEF RecordSuccess
<1>2. examples[x] \in 0..Enough /\ examples \in [Texts -> 0..Enough] /\ Enough = 3
  BY DEF TypeOK, Enough
<1>3. Min({Enough, examples[x] + 1}) \in 0..Enough
  <2> DEFINE n == examples[x] + 1
  <2>1. n \in Nat /\ n \in Int /\ Enough \in Int
    BY <1>2
  <2> HIDE DEF n
  <2>2. /\ Min({Enough, n}) \in {Enough, n} /\ Min({Enough, n}) <= Enough
    BY <2>1, MinOfTwo, Zenon
  <2> QED BY <1>2, <2>1, <2>2 DEF n
<1>4. examples' \in [Texts -> 0..Enough]
  BY <1>2, <1>3, Zenon DEF RecordSuccess
<1> QED BY <1>1, <1>4 DEF RecordSuccess, Learn, TypeOK

\* The tables that carrying out writes.
LEMMA ExecuteSound ==
    ASSUME Sound, NEW r \in Reading, NEW source \in Texts, NEW text \in Texts,
           NEW run \in Texts, NEW before \in [Signatures -> Score],
           NEW earned \in [Signatures -> Nat],
           Execute(r, source, text, run, before, earned)
    PROVE  /\ scores' \in [Signatures -> Score]
           /\ examples' \in [Texts -> 0..Enough] /\ patterns' \subseteq Phrases
           /\ profiles' \in [Tasks -> Profile] /\ hours' \in [Tasks -> SUBSET Hours]
           /\ offers' \subseteq Offer /\ made' \subseteq Texts
           /\ credit' \in [Signatures -> Nat] /\ MeanInRange'
<1>1. /\ r.phrase \in Phrases \cup {NoPhrase} /\ r.hour \in Hours \cup {NoHour}
      /\ TimePhrase(r) \in Phrases \cup {NoPhrase}
  BY DEF Reading, TimePhrase
<1>2. /\ scores \in [Signatures -> Score] /\ examples \in [Texts -> 0..Enough]
      /\ patterns \subseteq Phrases /\ profiles \in [Tasks -> Profile]
      /\ hours \in [Tasks -> SUBSET Hours] /\ offers \subseteq Offer
      /\ made \subseteq Texts /\ MeanInRange /\ TypeOK
  BY DEF Sound, TypeOK
<1>3. CASE Created(r, source, before, earned)
  <2>1. r.task \in Tasks /\ RecordSuccess(source, r.phrase, before) /\ Remember(r.task, r.hour)
    BY <1>3 DEF Created
  <2>2. /\ profiles' \in [Tasks -> Profile] /\ hours' \in [Tasks -> SUBSET Hours]
        /\ MeanInRange'
    BY <1>1, <1>2, <2>1, RememberTyped
  <2>3. /\ scores' \in [Signatures -> Score] /\ examples' \in [Texts -> 0..Enough]
        /\ patterns' \subseteq Phrases
    BY <1>1, <1>2, <2>1, SuccessTyped
  <2> QED BY <1>2, <1>3, <2>2, <2>3 DEF Created
<1>4. CASE Changed(r, source, text, before, earned)
  <2>1. RecordSuccess(text, TimePhrase(r), before) /\ UNCHANGED <<profiles, hours>>
    BY <1>4 DEF Changed
  <2>2. /\ scores' \in [Signatures -> Score] /\ examples' \in [Texts -> 0..Enough]
        /\ patterns' \subseteq Phrases
    BY <1>1, <1>2, <2>1, SuccessTyped
  <2>3. MeanInRange'
    BY <1>2, <2>1 DEF MeanInRange
  <2> QED BY <1>2, <1>4, <2>1, <2>2, <2>3 DEF Changed
<1>5. CASE Chained(r, source, before, earned)
  <2>1. r.task \in Tasks /\ Remember(r.task, NoHour)
    BY <1>5 DEF Chained
  <2>2. /\ profiles' \in [Tasks -> Profile] /\ hours' \in [Tasks -> SUBSET Hours]
        /\ MeanInRange'
    BY <1>2, <2>1, RememberTyped
  <2> QED BY <1>2, <1>5, <2>2 DEF Chained
<1>6. CASE Offered(r, run, before, earned)
  <2>1. [text |-> run, action |-> r.action, phrase |-> TimePhrase(r)] \in Offer
    BY <1>1, <1>6 DEF Offered, Offer
  <2>2. MeanInRange'
    BY <1>2, <1>6 DEF Offered, MeanInRange
  <2> QED BY <1>2, <1>6, <2>1, <2>2 DEF Offered
<1>7. CASE Failed(r, text, before, earned) \/ Unlearned(r, before, earned)
  <2>1. scores' \in [Signatures -> Score]
    BY <1>7, ScoresTyped DEF Failed, Unlearned
  <2>2. /\ credit' = earned
        /\ UNCHANGED <<examples, patterns, profiles, hours, made, offers>>
    BY <1>7 DEF Failed, Unlearned
  <2>3. MeanInRange'
    BY <1>2, <2>2 DEF MeanInRange
  <2> QED BY <1>2, <2>1, <2>2, <2>3
<1> QED BY <1>3, <1>4, <1>5, <1>6, <1>7 DEF Execute

LEMMA HearSound ==
    ASSUME Sound, NEW text \in Texts, NEW r \in ReadingsOf[Prepared(text)],
           NEW top \in TopTasks(Prepared(text)), Hear(text, r, top)
    PROVE  Sound'
<1>1. /\ r \in Reading /\ Source(text) \in Texts /\ CreationSource(text) \in Texts
      /\ heard' \in 0..MaxHeard /\ UNCHANGED refused
  <2>1. r \in Reading
    BY NormalisedIsText, LearningAssumption
  <2>2. Source(text) \in Texts /\ CreationSource(text) \in Texts
    BY RowHolds, NormalisedIsText DEF Sound, Source, CreationSource, Answering
  <2>3. heard' \in 0..MaxHeard /\ UNCHANGED refused
    BY LearningAssumption
       DEF Hear, HearAsk, HearPropose, HearExecute, Heard, Sound, TypeOK, notes
  <2> QED BY <2>1, <2>2, <2>3
<1>2. CASE HearAsk(text, r, top) \/ HearPropose(text, r, top)
  <2>1. row' \in Row
    BY <1>1, <1>2 DEF HearAsk, HearPropose, Row, FollowUp, Proposal
  <2>2. UNCHANGED <<tables, offers, made, notes>>
    BY <1>2 DEF HearAsk, HearPropose
  <2> QED BY <1>1, <2>1, <2>2 DEF Sound, TypeOK, MeanInRange, tables, notes
<1>3. CASE HearExecute(text, r, top)
  <2> DEFINE earned == Credit({Source(text), CreationSource(text), text}, 1)
  <2>1. /\ row' = Empty
        /\ Execute(r, CreationSource(text), text, text, scores, earned)
    BY <1>3 DEF HearExecute
  <2>2. earned \in [Signatures -> Nat] /\ scores \in [Signatures -> Score]
    BY <1>1, CreditTyped DEF Sound, TypeOK
  <2> HIDE DEF earned
  <2>3. /\ scores' \in [Signatures -> Score]
        /\ examples' \in [Texts -> 0..Enough] /\ patterns' \subseteq Phrases
        /\ profiles' \in [Tasks -> Profile] /\ hours' \in [Tasks -> SUBSET Hours]
        /\ offers' \subseteq Offer /\ made' \subseteq Texts
        /\ credit' \in [Signatures -> Nat] /\ MeanInRange'
    BY <1>1, <2>1, <2>2, ExecuteSound
  <2> QED BY <1>1, <2>1, <2>3 DEF Sound, TypeOK, Row
<1> QED BY <1>2, <1>3 DEF Hear

LEMMA RepairSound ==
    ASSUME Sound, NEW text \in Repairs, HearRepair(text)
    PROVE  Sound'
<1>1. /\ text \in Texts /\ heard' \in 0..MaxHeard
      /\ UNCHANGED <<examples, patterns, profiles, offers, made, notes>>
  BY LearningAssumption DEF HearRepair, Heard, Sound, TypeOK
<1>2. scores' \in [Signatures -> Score]
  <2>1. ASSUME NEW latest \in made, RecordCorrection(latest)
        PROVE  scores' \in [Signatures -> Score]
    BY <2>1, ScoresTyped DEF RecordCorrection, Sound, TypeOK
  <2> QED BY <2>1 DEF HearRepair, Sound, TypeOK
<1>3. row' \in Row
  <2>1. \A r \in RepairReading : r \in Reading
    BY LearningAssumption DEF RepairReading
  <2>2. row.kind = "proposal" => FollowUp(row.source) \in Row
    BY RowHolds DEF Sound, Row
  <2>3. FollowUp(text) \in Row /\ \A r \in RepairReading : Proposal(text, text, r) \in Row
    BY <1>1, <2>1 DEF Row, Proposal
  <2> QED BY <2>2, <2>3 DEF HearRepair
<1> QED BY <1>1, <1>2, <1>3 DEF Sound, TypeOK, MeanInRange, notes

LEMMA ConfirmSound == Sound /\ Confirm => Sound'
<1> SUFFICES ASSUME Sound, Confirm PROVE Sound'
  OBVIOUS
<1> DEFINE source == row.source
           before == [scores EXCEPT ![SignatureOf[source]] = Confirmed(@)]
           earned == Credit({source}, 3)
<1>1. /\ source \in Texts /\ row.text \in Texts /\ row.reading \in Reading
  BY RowHolds DEF Confirm, Waiting, Sound
<1>2. before \in [Signatures -> Score]
  BY <1>1, ScoresTyped DEF Sound, TypeOK
<1>3. earned \in [Signatures -> Nat]
  BY <1>1, CreditTyped DEF Sound
<1>4. Execute(row.reading, source, source, row.text, before, earned)
  BY DEF Confirm
<1>5. row' = Empty /\ UNCHANGED refused /\ heard' \in 0..MaxHeard
  BY LearningAssumption DEF Confirm, Heard, Sound, TypeOK
<1> HIDE DEF source, before, earned
<1>6. /\ scores' \in [Signatures -> Score]
      /\ examples' \in [Texts -> 0..Enough] /\ patterns' \subseteq Phrases
      /\ profiles' \in [Tasks -> Profile] /\ hours' \in [Tasks -> SUBSET Hours]
      /\ offers' \subseteq Offer /\ made' \subseteq Texts
      /\ credit' \in [Signatures -> Nat] /\ MeanInRange'
  BY <1>1, <1>2, <1>3, <1>4, ExecuteSound
<1> QED BY <1>5, <1>6 DEF Sound, TypeOK, Row

LEMMA RefuseSound == Sound /\ Refuse => Sound'
<1> SUFFICES ASSUME Sound, Refuse PROVE Sound'
  OBVIOUS
<1>1. row.source \in Texts /\ SignatureOf[row.source] \in Signatures
  BY RowHolds, LearningAssumption DEF Refuse, Waiting, Sound
<1>2. scores' \in [Signatures -> Score] /\ refused' \in [Signatures -> Nat]
  BY <1>1, ScoresTyped DEF Refuse, RecordCorrection, Sound, TypeOK
<1>3. /\ heard' \in 0..MaxHeard /\ row' \in Row
      /\ UNCHANGED <<examples, patterns, profiles, offers, made, credit, hours>>
  BY LearningAssumption DEF Refuse, Heard, Sound, TypeOK, Row
<1> QED BY <1>2, <1>3 DEF Sound, TypeOK, MeanInRange

LEMMA ChooseSound == ASSUME Sound, NEW offer \in offers, Choose(offer) PROVE Sound'
<1>1. /\ offer.text \in Texts /\ offer.phrase \in Phrases \cup {NoPhrase}
      /\ RecordSuccess(offer.text, offer.phrase, scores)
      /\ TypeOK /\ scores \in [Signatures -> Score]
  BY DEF Choose, Sound, TypeOK, Offer
<1>2. /\ scores' \in [Signatures -> Score]
      /\ examples' \in [Texts -> 0..Enough] /\ patterns' \subseteq Phrases
  BY <1>1, SuccessTyped
<1>3. credit' \in [Signatures -> Nat]
  BY <1>1, CreditTyped DEF Choose
<1>4. /\ heard' \in 0..MaxHeard /\ made' \subseteq Texts
      /\ UNCHANGED <<profiles, row, offers, refused, hours>>
  BY <1>1, LearningAssumption DEF Choose, Heard, TypeOK
<1> QED BY <1>2, <1>3, <1>4 DEF Sound, TypeOK, MeanInRange

LEMMA PlannedSound == ASSUME Sound, NEW item \in Planned, MakePlanned(item) PROVE Sound'
<1>1. /\ item.text \in Texts /\ item.task \in Tasks /\ item.hour \in Hours \cup {NoHour}
      /\ Remember(item.task, item.hour)
  BY LearningAssumption DEF MakePlanned
<1>2. /\ profiles' \in [Tasks -> Profile] /\ hours' \in [Tasks -> SUBSET Hours]
      /\ MeanInRange'
  BY <1>1, RememberTyped DEF Sound, TypeOK
<1>3. /\ heard' \in 0..MaxHeard /\ made' \subseteq Texts
      /\ UNCHANGED <<scores, examples, patterns, row, offers, refused, credit>>
  BY <1>1, LearningAssumption DEF MakePlanned, Heard, Sound, TypeOK
<1> QED BY <1>2, <1>3 DEF Sound, TypeOK

LEMMA SoundStep == Sound /\ [Next]_vars => Sound'
<1> SUFFICES ASSUME Sound, [Next]_vars PROVE Sound'
  OBVIOUS
<1>1. CASE UNCHANGED vars
  BY <1>1 DEF Sound, TypeOK, MeanInRange, vars, tables, notes
<1>2. CASE \E text \in Texts : \E r \in ReadingsOf[Prepared(text)],
                                 top \in TopTasks(Prepared(text)) : Hear(text, r, top)
  BY <1>2, HearSound
<1>3. CASE \E text \in Repairs : HearRepair(text)
  BY <1>3, RepairSound
<1>4. CASE Confirm \/ Refuse
  BY <1>4, ConfirmSound, RefuseSound
<1>5. CASE \E offer \in offers : Choose(offer)
  BY <1>5, ChooseSound
<1>6. CASE \E item \in Planned : MakePlanned(item)
  BY <1>6, PlannedSound
<1> QED BY <1>1, <1>2, <1>3, <1>4, <1>5, <1>6 DEF Next, Horizon

LEMMA AlwaysSound == Spec => []Sound
  BY InitSound, SoundStep, PTL DEF Spec

\* The state keeps its shape.
THEOREM TypeCorrect == Spec => []TypeOK
<1>1. Sound => TypeOK
  BY DEF Sound
<1> QED BY <1>1, AlwaysSound, PTL

\* The usual hour of a task stays between the hours it was made for.
THEOREM UsualHourInRange == Spec => []MeanInRange
<1>1. Sound => MeanInRange
  BY DEF Sound
<1> QED BY <1>1, AlwaysSound, PTL

-----------------------------------------------------------------------------
(* Trust in a wording.                                                     *)

\* What speaks for a wording.
Points(score) == score.success + score.confirmed

\* Every refusal is in the score, and nothing speaks for a wording that the
\* user did not do.
TrustIn(table, earned) ==
    \A s \in Signatures :
        refused[s] <= table[s].corrected /\ Points(table[s]) <= earned[s]

Trust == TrustIn(scores, credit)

\* The three ways a score moves: next is table but for the score of s.
Elsewhere(next, table, s) == \A u \in Signatures : u # s => next[u] = table[u]

LEMMA SuccessMoves ==
    ASSUME NEW table \in [Signatures -> Score], NEW s \in Signatures, NEW next,
           next = [table EXCEPT ![s] = Succeeded(@)]
    PROVE  /\ Elsewhere(next, table, s)
           /\ next[s].corrected = table[s].corrected
           /\ Points(next[s]) = Points(table[s]) + 1
<1>1. next[s] = Succeeded(table[s]) /\ Elsewhere(next, table, s)
  BY DEF Elsewhere
<1>2. table[s] \in Score
  OBVIOUS
<1>3. /\ Succeeded(table[s]).corrected = table[s].corrected
      /\ Points(Succeeded(table[s])) = Points(table[s]) + 1
  BY <1>2 DEF Succeeded, Points, Score
<1> QED BY <1>1, <1>3

LEMMA ConfirmMoves ==
    ASSUME NEW table \in [Signatures -> Score], NEW s \in Signatures, NEW next,
           next = [table EXCEPT ![s] = Confirmed(@)]
    PROVE  /\ Elsewhere(next, table, s)
           /\ next[s].corrected = table[s].corrected
           /\ Points(next[s]) = Points(table[s]) + 2
<1> DEFINE old == table[s]
           succeeded == Succeeded(old)
<1>1. next[s] = Confirmed(old) /\ Elsewhere(next, table, s)
  BY DEF Elsewhere
<1>2. old \in Score
  OBVIOUS
<1>3. Confirmed(old) = [succeeded EXCEPT !.confirmed = succeeded.confirmed + 1]
  BY DEF Confirmed
<1>4. /\ succeeded \in Score /\ succeeded.corrected = old.corrected
      /\ Points(succeeded) = Points(old) + 1
  BY <1>2 DEF Succeeded, Points, Score
<1> HIDE DEF succeeded, old
<1>5. /\ Confirmed(old).corrected = succeeded.corrected
      /\ Points(Confirmed(old)) = Points(succeeded) + 1
  BY <1>3, <1>4 DEF Points, Score
<1>6. Points(old) \in Nat
  BY <1>2 DEF Points, Score
<1> QED BY <1>1, <1>4, <1>5, <1>6 DEF old

LEMMA CorrectionMoves ==
    ASSUME NEW table \in [Signatures -> Score], NEW s \in Signatures, NEW next,
           next = [table EXCEPT ![s].corrected = @ + 1]
    PROVE  /\ Elsewhere(next, table, s)
           /\ next[s].corrected = table[s].corrected + 1
           /\ Points(next[s]) = Points(table[s])
  BY DEF Points, Score, Elsewhere

\* A success is credited, and a correction costs nothing.
LEMMA SuccessTrusted ==
    ASSUME NEW before \in [Signatures -> Score], NEW earned \in [Signatures -> Nat],
           refused \in [Signatures -> Nat], NEW x \in Texts, NEW next,
           TrustIn(before, earned),
           Points(before[SignatureOf[x]]) + 1 <= earned[SignatureOf[x]],
           \/ next = before
           \/ next = [before EXCEPT ![SignatureOf[x]] = Succeeded(@)]
           \/ next = [before EXCEPT ![SignatureOf[x]].corrected = @ + 1]
    PROVE  TrustIn(next, earned)
<1> DEFINE s == SignatureOf[x]
<1>1. s \in Signatures /\ before[s] \in Score
  BY LearningAssumption
<1>2. /\ refused[s] <= before[s].corrected /\ Points(before[s]) + 1 <= earned[s]
      /\ before[s].corrected \in Nat /\ Points(before[s]) \in Nat
      /\ refused[s] \in Nat /\ earned[s] \in Nat
  BY <1>1 DEF TrustIn, Score, Points
<1>3. CASE next = before
  BY <1>3
<1>4. CASE next # before
  <2>1. /\ Elsewhere(next, before, s)
        /\ next[s].corrected \in {before[s].corrected, before[s].corrected + 1}
        /\ Points(next[s]) \in {Points(before[s]), Points(before[s]) + 1}
    BY <1>1, <1>4, SuccessMoves, CorrectionMoves
  <2>2. refused[s] <= next[s].corrected /\ Points(next[s]) <= earned[s]
    BY <1>2, <2>1
  <2> QED BY <2>1, <2>2 DEF TrustIn, Elsewhere
<1> QED BY <1>3, <1>4

LEMMA ExecuteTrusted ==
    ASSUME NEW before \in [Signatures -> Score], NEW earned \in [Signatures -> Nat],
           refused \in [Signatures -> Nat], NEW source \in Texts, NEW text \in Texts,
           NEW run, NEW r, TrustIn(before, earned),
           Points(before[SignatureOf[source]]) + 1 <= earned[SignatureOf[source]],
           Points(before[SignatureOf[text]]) + 1 <= earned[SignatureOf[text]],
           Execute(r, source, text, run, before, earned), UNCHANGED refused
    PROVE  Trust'
<1>1. credit' = earned
  BY DEF Execute, Created, Changed, Chained, Offered, Failed, Unlearned
<1>2. \/ scores' = before
      \/ scores' = [before EXCEPT ![SignatureOf[source]] = Succeeded(@)]
      \/ scores' = [before EXCEPT ![SignatureOf[text]] = Succeeded(@)]
      \/ scores' = [before EXCEPT ![SignatureOf[text]].corrected = @ + 1]
  <2>1. Created(r, source, before, earned) =>
            scores' = [before EXCEPT ![SignatureOf[source]] = Succeeded(@)]
    BY DEF Created, RecordSuccess
  <2>2. Changed(r, source, text, before, earned) =>
            scores' = [before EXCEPT ![SignatureOf[text]] = Succeeded(@)]
    BY DEF Changed, RecordSuccess
  <2>3. Chained(r, source, before, earned) \/ Offered(r, run, before, earned)
        \/ Unlearned(r, before, earned) => scores' = before
    BY DEF Chained, Offered, Unlearned
  <2>4. Failed(r, text, before, earned) =>
            \/ scores' = before
            \/ scores' = [before EXCEPT ![SignatureOf[text]].corrected = @ + 1]
    BY DEF Failed
  <2> QED BY <2>1, <2>2, <2>3, <2>4 DEF Execute
<1>3. TrustIn(scores', earned)
  BY <1>2, SuccessTrusted
<1> QED BY <1>1, <1>3 DEF Trust, TrustIn

LEMMA InitTrust == Init => Trust
  BY DEF Init, Trust, TrustIn, NoScore, Points

\* More credit for some signatures.
LEMMA CreditTrusted ==
    ASSUME Sound, Trust, NEW texts \in SUBSET Texts, NEW points \in Nat
    PROVE  /\ TrustIn(scores, Credit(texts, points))
           /\ \A x \in texts :
                  Points(scores[SignatureOf[x]]) + points
                  <= Credit(texts, points)[SignatureOf[x]]
<1>1. /\ scores \in [Signatures -> Score] /\ refused \in [Signatures -> Nat]
      /\ credit \in [Signatures -> Nat]
  BY DEF Sound, TypeOK
<1>2. ASSUME NEW s \in Signatures
      PROVE  /\ refused[s] <= scores[s].corrected /\ Points(scores[s]) <= credit[s]
             /\ Points(scores[s]) \in Nat /\ credit[s] \in Nat
  BY <1>1 DEF Trust, TrustIn, Points, Score
<1>3. \A x \in texts : SignatureOf[x] \in Signatures
  BY LearningAssumption
<1> QED BY <1>2, <1>3 DEF TrustIn, Credit

LEMMA HearTrusted ==
    ASSUME Sound, Trust, NEW text \in Texts, NEW r \in ReadingsOf[Prepared(text)],
           NEW top, HearExecute(text, r, top)
    PROVE  Trust'
<1> DEFINE source == CreationSource(text)
           texts == {Source(text), source, text}
           earned == Credit(texts, 1)
<1>1. source \in Texts /\ texts \subseteq Texts
  BY RowHolds, NormalisedIsText DEF Sound, Source, CreationSource, Answering
<1>2. /\ scores \in [Signatures -> Score] /\ refused \in [Signatures -> Nat]
      /\ earned \in [Signatures -> Nat]
  BY <1>1, CreditTyped DEF Sound, TypeOK
<1>3. Execute(r, source, text, text, scores, earned) /\ UNCHANGED refused
  BY DEF HearExecute
<1>4. /\ TrustIn(scores, earned)
      /\ \A x \in texts : Points(scores[SignatureOf[x]]) + 1 <= earned[SignatureOf[x]]
  BY <1>1, CreditTrusted
<1>5. source \in texts /\ text \in texts
  OBVIOUS
<1> HIDE DEF source, texts, earned
<1> QED BY <1>1, <1>2, <1>3, <1>4, <1>5, ExecuteTrusted

LEMMA ConfirmTrusted == Sound /\ Trust /\ Confirm => Trust'
<1> SUFFICES ASSUME Sound, Trust, Confirm PROVE Trust'
  OBVIOUS
<1> DEFINE source == row.source
           s == SignatureOf[source]
           before == [scores EXCEPT ![s] = Confirmed(@)]
           earned == Credit({source}, 3)
<1>1. source \in Texts /\ s \in Signatures
  BY RowHolds, LearningAssumption DEF Confirm, Waiting, Sound
<1>2. /\ scores \in [Signatures -> Score] /\ refused \in [Signatures -> Nat]
      /\ before \in [Signatures -> Score] /\ earned \in [Signatures -> Nat]
  BY <1>1, CreditTyped, ScoresTyped DEF Sound, TypeOK
<1>3. /\ Execute(row.reading, source, source, row.text, before, earned)
      /\ UNCHANGED refused
  BY DEF Confirm
<1>4. TrustIn(scores, earned) /\ Points(scores[s]) + 3 <= earned[s]
  BY <1>1, CreditTrusted
<1>5. /\ Elsewhere(before, scores, s)
      /\ before[s].corrected = scores[s].corrected
      /\ Points(before[s]) = Points(scores[s]) + 2
  <2> DEFINE next == before
  <2>1. next = [scores EXCEPT ![s] = Confirmed(@)]
    OBVIOUS
  <2>2. scores \in [Signatures -> Score] /\ s \in Signatures /\ next = before
    BY <1>1, <1>2
  <2> HIDE DEF next, before, s, earned, source
  <2>3. /\ Elsewhere(next, scores, s)
        /\ next[s].corrected = scores[s].corrected
        /\ Points(next[s]) = Points(scores[s]) + 2
    BY <2>1, <2>2, ConfirmMoves
  <2> QED BY <2>2, <2>3
<1>6. Points(scores[s]) \in Nat /\ earned[s] \in Nat
  <2> HIDE DEF before, earned, s
  <2> QED BY <1>1, <1>2 DEF Points, Score
<1>7. TrustIn(before, earned) /\ Points(before[s]) + 1 <= earned[s]
  <2> HIDE DEF before, earned, s
  <2>1. Points(before[s]) <= earned[s] /\ Points(before[s]) + 1 <= earned[s]
    BY <1>4, <1>5, <1>6
  <2> QED BY <1>4, <1>5, <2>1 DEF TrustIn, Elsewhere
<1> HIDE DEF before, earned, source
<1> QED BY <1>1, <1>2, <1>3, <1>7, ExecuteTrusted

LEMMA RefuseTrusted == Sound /\ Trust /\ Refuse => Trust'
<1> SUFFICES ASSUME Sound, Trust, Refuse PROVE Trust'
  OBVIOUS
<1> DEFINE s == SignatureOf[row.source]
<1>1. row.source \in Texts /\ s \in Signatures
  BY RowHolds, LearningAssumption DEF Refuse, Waiting, Sound
<1>2. /\ scores \in [Signatures -> Score] /\ refused \in [Signatures -> Nat]
      /\ scores' = [scores EXCEPT ![s].corrected = @ + 1]
      /\ refused' = [refused EXCEPT ![s] = @ + 1] /\ credit' = credit
  BY DEF Refuse, RecordCorrection, Sound, TypeOK
<1>3. /\ Elsewhere(scores', scores, s)
      /\ scores'[s].corrected = scores[s].corrected + 1
      /\ Points(scores'[s]) = Points(scores[s])
  BY <1>1, <1>2, CorrectionMoves
<1>4. /\ \A u \in Signatures : u # s => refused'[u] = refused[u]
      /\ refused'[s] = refused[s] + 1
      /\ scores[s].corrected \in Nat /\ refused[s] \in Nat
  BY <1>1, <1>2 DEF Score
<1>5. refused'[s] <= scores'[s].corrected /\ Points(scores'[s]) <= credit[s]
  BY <1>1, <1>3, <1>4 DEF Trust, TrustIn
<1> HIDE DEF s
<1> QED BY <1>2, <1>3, <1>4, <1>5 DEF Trust, TrustIn, Elsewhere

LEMMA RepairTrusted ==
    ASSUME Sound, Trust, NEW text \in Repairs, HearRepair(text)
    PROVE  Trust'
<1>1. /\ scores \in [Signatures -> Score] /\ refused \in [Signatures -> Nat]
      /\ UNCHANGED <<refused, credit>> /\ made \subseteq Texts
  BY DEF HearRepair, notes, Sound, TypeOK
<1>2. CASE scores' = scores
  BY <1>1, <1>2 DEF Trust, TrustIn
<1>3. CASE \E latest \in made : RecordCorrection(latest)
  <2>1. PICK x \in Texts : scores' = [scores EXCEPT ![SignatureOf[x]].corrected = @ + 1]
    BY <1>1, <1>3 DEF RecordCorrection
  <2> DEFINE s == SignatureOf[x]
  <2>2. s \in Signatures /\ scores[s].corrected \in Nat /\ refused[s] \in Nat
    BY <1>1, LearningAssumption DEF Score
  <2>3. /\ Elsewhere(scores', scores, s)
        /\ scores'[s].corrected = scores[s].corrected + 1
        /\ Points(scores'[s]) = Points(scores[s])
    BY <1>1, <2>1, <2>2, CorrectionMoves
  <2>4. refused[s] <= scores'[s].corrected /\ Points(scores'[s]) <= credit[s]
    BY <2>2, <2>3 DEF Trust, TrustIn
  <2> HIDE DEF s
  <2> QED BY <1>1, <2>3, <2>4 DEF Trust, TrustIn, Elsewhere
<1> QED BY <1>2, <1>3 DEF HearRepair

LEMMA ChooseTrusted == ASSUME Sound, Trust, NEW offer \in offers, Choose(offer) PROVE Trust'
<1> DEFINE x == offer.text
           earned == Credit({x}, 1)
<1>1. /\ x \in Texts /\ scores \in [Signatures -> Score] /\ refused \in [Signatures -> Nat]
      /\ earned \in [Signatures -> Nat]
  <2>1. x \in Texts /\ scores \in [Signatures -> Score] /\ refused \in [Signatures -> Nat]
    BY DEF Sound, TypeOK, Offer
  <2> QED BY <2>1, CreditTyped DEF Sound
<1>2. /\ scores' = [scores EXCEPT ![SignatureOf[x]] = Succeeded(@)]
      /\ credit' = earned /\ UNCHANGED refused
  BY DEF Choose, RecordSuccess
<1>3. TrustIn(scores, earned) /\ Points(scores[SignatureOf[x]]) + 1 <= earned[SignatureOf[x]]
  BY <1>1, CreditTrusted
<1> HIDE DEF earned, x
<1>4. TrustIn(scores', earned)
  <2> DEFINE next == scores'
  <2>1. \/ next = scores
        \/ next = [scores EXCEPT ![SignatureOf[x]] = Succeeded(@)]
        \/ next = [scores EXCEPT ![SignatureOf[x]].corrected = @ + 1]
    BY <1>2
  <2> HIDE DEF next
  <2>2. TrustIn(next, earned)
    BY <1>1, <1>3, <2>1, SuccessTrusted
  <2> QED BY <2>2 DEF next
<1> QED BY <1>2, <1>4 DEF Trust, TrustIn

LEMMA TrustStep == Sound /\ Trust /\ [Next]_vars => Trust'
<1> SUFFICES ASSUME Sound, Trust, [Next]_vars PROVE Trust'
  OBVIOUS
<1>1. CASE UNCHANGED <<scores, refused, credit>>
  BY <1>1 DEF Trust, TrustIn
<1>2. CASE \E text \in Texts : \E r \in ReadingsOf[Prepared(text)],
                                 top \in TopTasks(Prepared(text)) : Hear(text, r, top)
  <2>1. PICK text \in Texts : \E r \in ReadingsOf[Prepared(text)],
                                   top \in TopTasks(Prepared(text)) : Hear(text, r, top)
    BY <1>2
  <2>2. PICK r \in ReadingsOf[Prepared(text)], top \in TopTasks(Prepared(text)) :
                 Hear(text, r, top)
    BY <2>1
  <2>3. CASE HearExecute(text, r, top)
    BY <2>3, HearTrusted
  <2>4. CASE ~HearExecute(text, r, top)
    BY <1>1, <2>2, <2>4 DEF Hear, HearAsk, HearPropose, tables, notes
  <2> QED BY <2>3, <2>4
<1>3. CASE \E text \in Repairs : HearRepair(text)
  BY <1>3, RepairTrusted
<1>4. CASE Confirm \/ Refuse
  BY <1>4, ConfirmTrusted, RefuseTrusted
<1>5. CASE \E offer \in offers : Choose(offer)
  BY <1>5, ChooseTrusted
<1>6. CASE UNCHANGED vars \/ \E item \in Planned : MakePlanned(item)
  BY <1>1, <1>6 DEF vars, tables, notes, MakePlanned
<1> QED BY <1>1, <1>2, <1>3, <1>4, <1>5, <1>6 DEF Next, Horizon

\* Scores hold every refusal, and nothing in favour that no user did.
THEOREM ScoresAreHonest == Spec => []Trust
  BY InitTrust, TrustStep, AlwaysSound, PTL DEF Spec

\* A wording with as much against it as the code asks for is risky.
LEMMA RefusedIsRisky ==
    ASSUME Sound, Trust, NEW s \in Signatures,
           refused[s] > 0, 23 * refused[s] >= 7 * credit[s]
    PROVE  IsRisky(scores[s])
<1> DEFINE c == scores[s].corrected
           p == scores[s].success
           q == scores[s].confirmed
           f == refused[s]
           g == credit[s]
<1>1. c \in Nat /\ p \in Nat /\ q \in Nat /\ f \in Nat /\ g \in Nat
  BY DEF Sound, TypeOK, Score
<1>2. f <= c /\ p + q <= g /\ f > 0 /\ 23 * f >= 7 * g
  BY DEF Trust, TrustIn, Points
<1>3. Total(scores[s]) = p + q + c
  BY DEF Total
<1> HIDE DEF c, p, q, f, g
<1> DEFINE t == p + q + c
<1>4. t \in Nat /\ t >= 1 /\ 30 * c >= 7 * t
  BY <1>1, <1>2
<1>5. Max({1, t}) \in {1, t}
  <2> HIDE DEF t
  <2>1. 1 \in Int /\ t \in Int
    BY <1>4
  <2> QED BY <2>1, MaxOfTwo, Zenon
<1>6. 30 * c >= 7 * Max({1, t})
  <2> HIDE DEF t
  <2> QED BY <1>1, <1>4, <1>5
<1> QED BY <1>3, <1>6 DEF IsRisky, c

\* A reading that must be confirmed is not carried out unasked.
LEMMA ConfirmedFirst ==
    ASSUME NEW text, NEW r, NEW top,
           InTheWay(r) \/ ShouldConfirm(r, Known(Prepared(text), r, top))
    PROVE  ~HearExecute(text, r, top)
  BY DEF HearExecute, Judged, Verdict

\* A refused wording is asked about until enough was done in its favour.
THEOREM RefusalsAreHeeded == Spec => TrustIsEarned
<1>1. Sound /\ Trust =>
        \A text \in Texts : \A r \in ReadingsOf[text] :
          LET s == SignatureOf[text]
          IN  /\ refused[s] > 0 /\ 23 * refused[s] >= 7 * credit[s]
              /\ Prepared(text) = text /\ ~Answering(text)
              => ~Unasked(text, r)
  <2> SUFFICES ASSUME Sound, Trust, NEW text \in Texts, NEW r \in ReadingsOf[text],
                      refused[SignatureOf[text]] > 0,
                      23 * refused[SignatureOf[text]] >= 7 * credit[SignatureOf[text]],
                      Prepared(text) = text, r.action \in Confirmable, NEW top
               PROVE  ~HearExecute(text, r, top)
    BY DEF Unasked
  <2>1. SignatureOf[text] \in Signatures
    BY LearningAssumption
  <2>2. IsRisky(scores[SignatureOf[text]])
    BY <2>1, RefusedIsRisky
  <2>3. Known(Prepared(text), r, top).risky
    BY <2>2 DEF Known
  <2> QED BY <2>3, ConfirmedFirst DEF ShouldConfirm
<1> QED BY <1>1, AlwaysSound, ScoresAreHonest, PTL DEF TrustIsEarned, Spec

\* When a score is risky, in numbers.
LEMMA RiskInNumbers ==
    ASSUME NEW score \in Score
    PROVE  /\ score.corrected \in Nat /\ Points(score) \in Nat
           /\ IsRisky(score) <=>
                 /\ 30 * score.corrected >= 7
                 /\ 30 * score.corrected >= 7 * (Points(score) + score.corrected)
<1> DEFINE c == score.corrected
           t == Total(score)
           p == Points(score)
<1>1. c \in Nat /\ p \in Nat /\ t = p + c
  BY DEF Score, Total, Points
<1>2. IsRisky(score) <=> 30 * c >= 7 * Max({1, t})
  BY DEF IsRisky
<1> HIDE DEF c, t, p
<1>3. t \in Nat
  BY <1>1
<1>4. Max({1, t}) \in {1, t} /\ 1 <= Max({1, t}) /\ t <= Max({1, t})
  <2>1. 1 \in Int /\ t \in Int
    BY <1>3
  <2> QED BY <2>1, MaxOfTwo, Zenon
<1> DEFINE m == Max({1, t})
<1>5. m \in {1, t} /\ 1 <= m /\ t <= m
  BY <1>4
<1> HIDE DEF m
<1>6. 30 * c >= 7 * m <=> 30 * c >= 7 /\ 30 * c >= 7 * t
  BY <1>1, <1>3, <1>5
<1> QED BY <1>1, <1>2, <1>6 DEF c, p, m

\* What a consent carries out adds to its score, but for a failure at 2 AM.
LEMMA ConsentAdds ==
    ASSUME Sound, Confirm, ~row.reading.early, NEW s \in Signatures
    PROVE  /\ scores'[s] \in Score /\ scores'[s].corrected = scores[s].corrected
           /\ Points(scores'[s]) >= Points(scores[s])
<1> DEFINE source == row.source
           u == SignatureOf[source]
           before == [scores EXCEPT ![u] = Confirmed(@)]
           earned == Credit({source}, 3)
           r == row.reading
<1>1. source \in Texts /\ u \in Signatures
  BY RowHolds, LearningAssumption DEF Confirm, Waiting, Sound
<1>2. scores \in [Signatures -> Score] /\ before \in [Signatures -> Score]
  BY <1>1, ScoresTyped DEF Sound, TypeOK
<1>3. /\ Elsewhere(before, scores, u)
      /\ before[u].corrected = scores[u].corrected
      /\ Points(before[u]) = Points(scores[u]) + 2
  <2> DEFINE next == before
  <2>1. next = [scores EXCEPT ![u] = Confirmed(@)]
    OBVIOUS
  <2>2. scores \in [Signatures -> Score] /\ u \in Signatures /\ next = before
    BY <1>1, <1>2
  <2> HIDE DEF next, before, u, earned, source
  <2>3. /\ Elsewhere(next, scores, u)
        /\ next[u].corrected = scores[u].corrected
        /\ Points(next[u]) = Points(scores[u]) + 2
    BY <2>1, <2>2, ConfirmMoves
  <2> QED BY <2>2, <2>3
<1>4. Execute(r, source, source, row.text, before, earned) /\ ~r.early
  BY DEF Confirm
<1>5. scores' = before \/ scores' = [before EXCEPT ![u] = Succeeded(@)]
  <2> HIDE DEF before, earned, r
  <2> QED
    BY <1>4 DEF Execute, Created, Changed, Chained, Offered, Failed, Unlearned, RecordSuccess
<1> HIDE DEF before, earned, r, u, source
<1>6. /\ before[s] \in Score /\ before[s].corrected = scores[s].corrected
      /\ Points(before[s]) >= Points(scores[s])
      /\ Points(before[s]) \in Nat /\ Points(scores[s]) \in Nat
  <2>1. before[s] \in Score /\ scores[s] \in Score
    BY <1>2
  <2>2. Points(before[s]) \in Nat /\ Points(scores[s]) \in Nat
    BY <2>1, RiskInNumbers
  <2>3. CASE s = u
    BY <1>3, <2>1, <2>2, <2>3
  <2>4. CASE s # u
    BY <1>3, <2>1, <2>2, <2>4 DEF Elsewhere
  <2> QED BY <2>3, <2>4
<1>7. CASE scores' = before
  BY <1>6, <1>7
<1>8. CASE scores' = [before EXCEPT ![u] = Succeeded(@)]
  <2> DEFINE next == scores'
  <2>1. next = [before EXCEPT ![u] = Succeeded(@)]
    BY <1>8
  <2> HIDE DEF next
  <2>2. /\ Elsewhere(next, before, u)
        /\ next[u].corrected = before[u].corrected
        /\ Points(next[u]) = Points(before[u]) + 1
    BY <1>1, <1>2, <2>1, SuccessMoves
  <2>3. next \in [Signatures -> Score]
    <3>1. before[u] \in Score
      BY <1>1, <1>2
    <3>2. Succeeded(before[u]) \in Score
      BY <3>1 DEF Succeeded, Score
    <3> QED BY <1>2, <2>1, <3>2
  <2>4. /\ next[s].corrected = before[s].corrected
        /\ Points(next[s]) >= Points(before[s])
        /\ Points(next[s]) \in Nat
    <3>1. Points(next[s]) \in Nat
      <4>1. next[s] \in Score
        BY <2>3
      <4> QED BY <4>1, RiskInNumbers
    <3>2. CASE s = u
      BY <1>6, <2>2, <3>1, <3>2
    <3>3. CASE s # u
      BY <1>6, <2>2, <3>1, <3>3 DEF Elsewhere
    <3> QED BY <3>2, <3>3
  <2>5. next[s] \in Score
    BY <2>3
  <2>6. Points(next[s]) >= Points(scores[s])
    BY <1>6, <2>4
  <2> QED BY <1>6, <2>4, <2>5, <2>6 DEF next
<1> QED BY <1>5, <1>7, <1>8

\* Refusals never earn trust, and consents never cost it.
THEOREM TrustMoves == Spec => TrustMovesRight
<1>1. ASSUME Sound, NEW s \in Signatures, Refuse, IsRisky(scores[s])
      PROVE  IsRisky(scores'[s])
  <2> DEFINE u == SignatureOf[row.source]
             next == scores'
  <2>1. /\ u \in Signatures /\ scores \in [Signatures -> Score]
        /\ next = [scores EXCEPT ![u].corrected = @ + 1]
    BY <1>1, RowHolds, LearningAssumption DEF Refuse, Waiting, RecordCorrection, Sound, TypeOK
  <2> HIDE DEF u, next
  <2>2. /\ Elsewhere(next, scores, u)
        /\ next[u].corrected = scores[u].corrected + 1
        /\ Points(next[u]) = Points(scores[u])
    BY <2>1, CorrectionMoves
  <2>3. scores[u] \in Score
    BY <2>1
  <2>4. next[u] \in Score
    BY <2>1, <2>3 DEF Score
  <2>5. CASE s = u
    <3>1. /\ 30 * scores[u].corrected >= 7
          /\ 30 * scores[u].corrected >= 7 * (Points(scores[u]) + scores[u].corrected)
          /\ scores[u].corrected \in Nat /\ Points(scores[u]) \in Nat
      BY <1>1, <2>3, <2>5, RiskInNumbers
    <3>2. /\ 30 * next[u].corrected >= 7
          /\ 30 * next[u].corrected >= 7 * (Points(next[u]) + next[u].corrected)
      BY <2>2, <3>1
    <3> QED BY <2>4, <2>5, <3>2, RiskInNumbers DEF next
  <2>6. CASE s # u
    BY <1>1, <2>2, <2>6 DEF Elsewhere, next
  <2> QED BY <2>5, <2>6
<1>2. ASSUME Sound, NEW s \in Signatures, Confirm, ~row.reading.early, IsRisky(scores'[s])
      PROVE  IsRisky(scores[s])
  <2> DEFINE next == scores'[s]
             old == scores[s]
  <2>1. /\ next \in Score /\ old \in Score /\ next.corrected = old.corrected
        /\ Points(next) >= Points(old) /\ IsRisky(next)
    BY <1>2, ConsentAdds DEF Sound, TypeOK
  <2> HIDE DEF next, old
  <2>2. /\ Points(next) \in Nat /\ Points(old) \in Nat /\ old.corrected \in Nat
        /\ 30 * next.corrected >= 7
        /\ 30 * next.corrected >= 7 * (Points(next) + next.corrected)
    BY <2>1, RiskInNumbers
  <2>3. /\ 30 * old.corrected >= 7
        /\ 30 * old.corrected >= 7 * (Points(old) + old.corrected)
    BY <2>1, <2>2
  <2>4. IsRisky(old)
    BY <2>1, <2>3, RiskInNumbers
  <2> QED BY <2>4 DEF old
<1>3. Sound =>
        \A s \in Signatures :
          /\ IsRisky(scores[s]) /\ ~IsRisky(scores'[s]) => ~Refuse
          /\ ~IsRisky(scores[s]) /\ IsRisky(scores'[s]) => ~Confirm \/ row.reading.early
  BY <1>1, <1>2
<1> QED BY <1>3, AlwaysSound, PTL DEF TrustMovesRight, Spec

=============================================================================
