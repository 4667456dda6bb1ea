-------------------------- MODULE MCReminderEngine --------------------------
(***************************************************************************)
(* Instances of ReminderEngine for TLC, and what the repository's texts    *)
(* claim of it that its interleavings and failures do not keep.            *)
(***************************************************************************)
EXTENDS ReminderEngine

\* README: reminders survive restarts, pending reminders are restored.  Read
\* as: a process that is up holds a job for every reminder it should send.
RestoredAfterRestart ==
    \A r \in Reminders : Quiet(r) /\ Schedulable(row[r]) => job[r] # None
=============================================================================
