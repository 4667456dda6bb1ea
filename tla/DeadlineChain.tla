---------------------------- MODULE DeadlineChain ----------------------------
(***************************************************************************)
(* Deadline chains: several one-time reminders before one deadline.  The   *)
(* rows are committed together, then scheduled one by one, earliest in the *)
(* text first.  Each job rings once and completes its row.                 *)
(***************************************************************************)
EXTENDS Integers, Sequences, FiniteSets

CONSTANTS
    Offsets,    \* the offsets of a request, in the order of its text
    Deadline,   \* the instant the offsets count back from
    Grace       \* misfire_grace_time of a job

ASSUME ChainAssumption ==
    /\ Offsets \in Seq(Nat \ {0})
    /\ Deadline \in Nat /\ Grace \in Nat

VARIABLES
    chains,    \* the rows of each chain, by offset
    jobs,      \* the jobs in the store: <<chain, offset>>
    (* What an observer would have noted. *)
    asked,     \* when each chain was made
    stray      \* rows that have no job after a failure or a late run

chainVars == <<chains, jobs, asked, stray>>

-----------------------------------------------------------------------------
Places == DOMAIN Offsets
\* A row is active or completed; "none" where the chain has none.
Statuses == {"none", "active", "completed"}
Chain == [Places -> Statuses]

\* compute_deadline_trigger_utc.
Trigger(i) == Deadline - Offsets[i]

\* The offsets that are not over yet.
Ahead(t) == {i \in Places : Trigger(i) > t}

\* Rows that wait to ring.
Active(c) == {i \in Places : chains[c][i] = "active"}
ActiveRows == {row \in (DOMAIN chains) \X Places : chains[row[1]][row[2]] = "active"}

ChainInit ==
    /\ chains = <<>> /\ jobs = {}
    /\ asked = <<>> /\ stray = {}

\* Mutant: every row is committed on its own, and the loop may fail midway.
CreateChainRowByRow(t) ==
    /\ \E n \in Places :
         chains' = Append(chains,
             [i \in Places |-> IF i \in Ahead(t) /\ i <= n THEN "active"
                                                           ELSE "none"])
    /\ asked' = Append(asked, t)
    /\ UNCHANGED <<jobs, stray>>

\* create_deadline_chain: past offsets are left out, one commit for the rest.
CreateChain(t) ==
    /\ chains' = Append(chains,
           [i \in Places |-> IF i \in Ahead(t) THEN "active" ELSE "none"])
    /\ asked' = Append(asked, t)
    /\ UNCHANGED <<jobs, stray>>

\* One turn of the loop that schedules the chain.
ScheduleRow(c, i) ==
    /\ jobs' = jobs \cup {<<c, i>>}
    /\ UNCHANGED <<chains, asked, stray>>

\* The handler of chain c fails with the rows from i on still to schedule.
LeaveRows(c, i) ==
    /\ stray' = stray \cup {<<c, j>> : j \in {k \in Active(c) : k >= i}}
    /\ UNCHANGED <<chains, jobs, asked>>

\* A due job rings and completes its row, whatever became of other rows.
RunRow(c, i, t) ==
    /\ <<c, i>> \in jobs /\ Trigger(i) <= t /\ t <= Trigger(i) + Grace
    /\ jobs' = jobs \ {<<c, i>>}
    /\ chains' = [chains EXCEPT ![c][i] = "completed"]
    /\ UNCHANGED <<asked, stray>>

\* The send or the commit fails; the job is gone.
RunRowFails(c, i, t) ==
    /\ <<c, i>> \in jobs /\ Trigger(i) <= t /\ t <= Trigger(i) + Grace
    /\ jobs' = jobs \ {<<c, i>>}
    /\ stray' = stray \cup {<<c, i>>}
    /\ UNCHANGED <<chains, asked>>

\* Later than the grace time: the scheduler drops the job.
DropRow(c, i, t) ==
    /\ <<c, i>> \in jobs /\ t > Trigger(i) + Grace
    /\ jobs' = jobs \ {<<c, i>>}
    /\ stray' = stray \cup {<<c, i>>}
    /\ UNCHANGED <<chains, asked>>

\* The process ends: the job store was in its memory.
JobsGone ==
    /\ jobs' = {}
    /\ UNCHANGED <<chains, asked, stray>>

\* Mutant: the rows of a chain are not restored.
RestoreNoRows ==
    /\ jobs' = {} /\ stray' = {}
    /\ UNCHANGED <<chains, asked>>

\* restore_pending_jobs: every active row gets its job back, due or not.
RestoreRows ==
    /\ jobs' = ActiveRows
    /\ stray' = {}
    /\ UNCHANGED <<chains, asked>>
=============================================================================
