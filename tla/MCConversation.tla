--------------------------- MODULE MCConversation ---------------------------
(***************************************************************************)
(* Instances of Conversation for TLC, and what the bot tells its users     *)
(* that its handlers do not keep.                                          *)
(***************************************************************************)
EXTENDS Conversation

CONSTANT wish    \* for a reminder

\* A screenshot may list one reminder twice.
TwoReminders == {<<wish, wish>>}

\* A "no" or "stop" to a proposal gets the reply that it was cancelled: such a
\* text never carries a proposal out.
NoMeansNo ==
    bot.pc = "carry_out" /\ bot.update.sort = "text"
        /\ bot.update.says \in Refusals
    => bot.id = None
=============================================================================
