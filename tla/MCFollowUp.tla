----------------------------- MODULE MCFollowUp -----------------------------
(***************************************************************************)
(* An instance of FollowUp for TLC: requests that leave slots open,        *)
(* answers that fill them, and the ways to correct what was said.          *)
(***************************************************************************)
EXTENDS FollowUp

CONSTANTS gym, up, t1, t2, two, mixed, number

MCWords == {gym, up, t1, t2, two, mixed, number}
Plain ==
    [sort |-> "words", fresh |-> FALSE, signal |-> "none", rewrites |-> "none",
     which |-> FALSE, task |-> Nothing, time |-> Nothing, hint |-> Nothing,
     id |-> 0, offsets |-> FALSE, value |-> "good", text |-> mixed]
Request(sort) == [Plain EXCEPT !.sort = sort, !.fresh = TRUE]

Requests ==
    {Request("create"),
     [Request("create") EXCEPT !.task = gym],
     [Request("create") EXCEPT !.time = t1],
     [Request("create") EXCEPT !.task = gym, !.time = t1, !.signal = "ask"],
     [Request("wake") EXCEPT !.task = up],
     [Request("wake") EXCEPT !.task = up, !.time = t1],
     Request("update"),
     [Request("update") EXCEPT !.id = 1],
     [Request("update") EXCEPT !.id = 2, !.hint = gym, !.time = two],
     [Request("update") EXCEPT !.id = 2, !.hint = gym, !.time = t2, !.which = TRUE],
     [Request("delete") EXCEPT !.hint = gym],
     [Request("delete") EXCEPT !.which = TRUE, !.hint = mixed],
     [Request("chain") EXCEPT !.task = gym, !.time = t1],
     [Request("set") EXCEPT !.value = "bad"]}
Others ==
    {[Plain EXCEPT !.task = gym, !.text = gym],
     [Plain EXCEPT !.time = t2, !.text = t2],
     [Plain EXCEPT !.task = gym, !.time = t2],
     [Plain EXCEPT !.task = number, !.text = number],
     [Plain EXCEPT !.task = two, !.text = two, !.offsets = TRUE],
     [Plain EXCEPT !.sort = "set", !.task = mixed],
     [Plain EXCEPT !.sort = "delete", !.task = mixed, !.hint = gym],
     [Plain EXCEPT !.sort = "indirect", !.task = gym, !.time = t1],
     [Plain EXCEPT !.sort = "keep", !.task = mixed],
     [Plain EXCEPT !.task = mixed, !.signal = "ask"],
     [Plain EXCEPT !.task = mixed, !.time = t2, !.rewrites = "time"],
     [Plain EXCEPT !.task = mixed, !.time = t2, !.rewrites = "not", !.signal = "time"],
     [Plain EXCEPT !.sort = "yes", !.task = mixed],
     [Plain EXCEPT !.sort = "stop", !.task = mixed]}
MCMessages == Requests \cup Others

\* Enough for the claim: a proposal, "keep the task", a time.
FewMessages ==
    {[Request("wake") EXCEPT !.task = up, !.time = t1],
     [Plain EXCEPT !.time = t2, !.text = t2],
     [Plain EXCEPT !.sort = "keep", !.task = mixed]}

MCNumberIn == [w \in MCWords |-> IF w = number THEN 2 ELSE 0]
MCLabels == [w \in MCWords |-> {w}]
=============================================================================
