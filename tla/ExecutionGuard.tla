--------------------------- MODULE ExecutionGuard ---------------------------
(***************************************************************************)
(* The in-memory guard against repeats: a table of the button presses and  *)
(* one of the texts seen lately.  Every look at a table starts with        *)
(* _cleanup, so an entry is as good as gone at the moment it expires.      *)
(***************************************************************************)
EXTENDS Integers

CONSTANTS
    CallbackTtl,    \* how long a press is remembered, after mark or answer
    MessageTtl      \* how long a text is remembered, after it was let through

ASSUME GuardAssumption ==
    CallbackTtl \in Nat \ {0} /\ MessageTtl \in Nat \ {0}

NoAnswer == "none"
Answers == {NoAnswer, "result", "sorry"}

\* _SeenRecord: when it expires and, for a press, the cached answer.
SeenRecord == [until : Nat, answer : Answers]
Forgotten == [until |-> 0, answer |-> NoAnswer]

\* _cleanup at time t.
Cleanup(table, t) ==
    [key \in DOMAIN table |-> IF table[key].until > t THEN table[key] ELSE Forgotten]

\* The key is in the table at time t.
Seen(table, key, t) == table[key].until > t

\* Mutant: a press is only remembered together with its answer.
MarkNothing(table, key, t) == table

\* mark_callback_started, for a press that was not seen.
MarkCallback(table, key, t) ==
    [table EXCEPT ![key] = [until |-> t + CallbackTtl, answer |-> NoAnswer]]

\* remember_callback_result: the answer, and a new term.
Remember(table, key, t, answer) ==
    [table EXCEPT ![key] = [until |-> t + CallbackTtl, answer |-> answer]]

\* Mutant: a text is remembered for as long as a press.
MarkMessageAsPress(table, key, t) == MarkCallback(table, key, t)

\* should_skip_repeated_message, for a text that was not seen.
MarkMessage(table, key, t) ==
    [table EXCEPT ![key] = [until |-> t + MessageTtl, answer |-> NoAnswer]]
=============================================================================
