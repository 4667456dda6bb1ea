----------------------------- MODULE MCLearning -----------------------------
(***************************************************************************)
(* An instance of Learning for TLC.  One task.  Two wordings of it, one of *)
(* them with a time that is rewritten into the other once it is learnt; a  *)
(* change; a wake-up; an incomplete request and its answer.                *)
(***************************************************************************)
EXTENDS Learning

MCTexts == {"gym morning 7", "gym 7 am", "move gym", "wake me", "not 8, 7 am"}
MCSignatureOf ==
    [x \in MCTexts |->
        CASE x = "gym morning 7" -> "gym morning <n>"
          [] x = "gym 7 am" -> "gym <time>"
          [] OTHER -> x]
MCPhraseOf == [x \in MCTexts |-> IF x = "gym morning 7" THEN "morning 7" ELSE NoPhrase]
MCNormalised == [x \in MCTexts |-> IF x = "gym morning 7" THEN "gym 7 am" ELSE x]
MCSimilarTo ==
    [x \in MCTexts |-> IF x \in {"gym morning 7", "gym 7 am"}
                       THEN {"gym morning 7", "gym 7 am"} ELSE {x}]
MCResembles == [x \in MCTexts |-> IF x \in {"wake me", "not 8, 7 am"} THEN {} ELSE {"gym"}]

Plain ==
    [model |-> "llm", action |-> "create", confidence |-> 90, wake |-> FALSE,
     sounds |-> {}, indirect |-> FALSE, conflict |-> "none", lacks |-> FALSE,
     asks |-> FALSE, vague |-> FALSE, early |-> FALSE, task |-> "gym",
     hour |-> 7, period |-> NoPeriod, phrase |-> NoPhrase]

MCReadingsOf ==
    [x \in MCTexts |->
        CASE x = "gym morning 7" ->
               {[Plain EXCEPT !.phrase = "morning 7"]}
          [] x = "gym 7 am" ->
               {Plain,
                [Plain EXCEPT !.confidence = 78, !.period = "morning", !.conflict = "overlap"],
                [Plain EXCEPT !.model = "rules", !.confidence = 82, !.hour = 18]}
          [] x = "move gym" ->
               {[Plain EXCEPT !.action = "update", !.model = "rules", !.early = TRUE],
                [Plain EXCEPT !.action = "update", !.indirect = TRUE, !.vague = TRUE]}
          [] x = "wake me" ->
               {[Plain EXCEPT !.model = "fastpath", !.wake = TRUE, !.lacks = TRUE]}
          [] x = "not 8, 7 am" ->
               {[Plain EXCEPT !.model = "rules", !.wake = TRUE],
                [Plain EXCEPT !.model = "rules", !.action = "chain", !.hour = NoHour]}]
MCPlanned == {[text |-> "gym 7 am", task |-> "gym", hour |-> 23]}
=============================================================================
