---------------------------- MODULE MCRecurrence ----------------------------
(***************************************************************************)
(* Recurrence for TLC: days of eight ticks, a clock that is set forward or *)
(* back by two or three of them, forward by a whole day, or not at all, at *)
(* every tick of two days around a weekend: the time that is repeated or   *)
(* skipped may span midnight.                                              *)
(***************************************************************************)
EXTENDS Recurrence

MCDay == 8
MCStarts == 4 * MCDay..7 * MCDay - 1
\* before and after: two or three ticks forward or back, a whole day, no change.
MCOffsets == {<<4, 6>>, <<6, 4>>, <<4, 7>>, <<7, 4>>, <<2, 2 + MCDay>>, <<4, 4>>}
MCZones ==
    {[before |-> o[1], after |-> o[2], at |-> t] :
        o \in MCOffsets, t \in 5 * MCDay..7 * MCDay}
MCRules ==
    [kind : {"daily", "weekday"}, time : 0..MCDay - 1, weekday : {0}]
    \cup [kind : {"weekly"}, time : 0..MCDay - 1, weekday : {0, 5, 6}]
=============================================================================
