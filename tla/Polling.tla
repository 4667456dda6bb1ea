------------------------------ MODULE Polling -------------------------------
(***************************************************************************)
(* The loop of main around run_polling.  run_polling first calls Telegram  *)
(* to get started, without a retry; once it polls, errors of getUpdates    *)
(* are repeated inside it.  An error of the start makes main wait and call *)
(* run_polling again, but the first call has closed the event loop: the    *)
(* second raises RuntimeError, which main does not catch, and the process  *)
(* ends like after any other exception.                                    *)
(***************************************************************************)
EXTENDS Integers, FiniteSetsExt

CONSTANTS
    ConflictStep, ConflictCap,          \* waits after conflicts
    RetryStep, RetryFloor, RetryCap     \* waits after network errors

ASSUME PollingAssumption ==
    /\ ConflictStep \in Nat \ {0} /\ ConflictCap \in Nat
    /\ RetryStep \in Nat /\ RetryFloor \in Nat \ {0} /\ RetryCap \in Nat

VARIABLES
    now,        \* the clock
    loop,       \* starting, polling, waiting, or down: no process is running
    attempts,   \* conflict_attempt and recoverable_attempt
    wake        \* when the wait is over

pollVars == <<loop, attempts, wake>>

-----------------------------------------------------------------------------
Kinds == {"conflict", "recoverable"}
NoAttempts == [k \in Kinds |-> 0]

\* wait_seconds after the n-th error of its kind.
Wait(kind, n) ==
    IF kind = "conflict" THEN Min({ConflictCap, ConflictStep * n})
                         ELSE Min({RetryCap, Max({RetryFloor, RetryStep * n})})

PollInit ==
    /\ loop = "starting"
    /\ attempts = NoAttempts
    /\ wake = 0

\* run_polling has started and polls.
PollBegins ==
    /\ loop = "starting" /\ loop' = "polling"
    /\ UNCHANGED <<attempts, wake>>

\* run_polling raises an error the loop knows.
PollFails(kind) ==
    /\ loop = "starting" /\ loop' = "waiting"
    /\ attempts' = [attempts EXCEPT ![kind] = @ + 1]
    /\ wake' = now + Wait(kind, attempts'[kind])

\* The process ends: the counters go with it.
PollEnds ==
    /\ loop # "down" /\ loop' = "down"
    /\ attempts' = NoAttempts /\ wake' = 0

\* time.sleep is over; run_polling, called again, finds its event loop closed.
PollAgain == loop = "waiting" /\ now >= wake /\ PollEnds

\* main from the start.
PollStarts ==
    /\ loop = "down" /\ loop' = "starting"
    /\ UNCHANGED <<attempts, wake>>
=============================================================================
