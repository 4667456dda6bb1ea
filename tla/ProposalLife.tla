---------------------------- MODULE ProposalLife ----------------------------
(***************************************************************************)
(* What the confirmation dialogue promises about the proposals it makes.   *)
(* A proposal is offered at most once, at most one is on offer at a time,  *)
(* and a closed one is never taken up again.  A single action is carried   *)
(* out at most once: consent is used up before the work is done, so a      *)
(* crash may cost the action but cannot repeat it.  A plan of several      *)
(* reminders goes the other way: until it has been gone through to its     *)
(* end it goes back on offer, so a crash may repeat items but cannot cost  *)
(* the rest of them.                                                       *)
(***************************************************************************)
EXTENDS Integers

CONSTANTS
    Ids     \* proposals that may be made

VARIABLES
    phase,  \* where each proposal is
    plans,  \* the proposals that are plans
    left,   \* items still to do of the one that is running
    made    \* items of each proposal carried out

lifeVars == <<phase, plans, left, made>>

Phases == {"new", "offered", "running", "closed"}

Init ==
    /\ phase = [p \in Ids |-> "new"]
    /\ plans = {}
    /\ left = 0
    /\ made = [p \in Ids |-> 0]

\* A new proposal replaces the one on offer.
Offer(p) ==
    /\ phase[p] = "new"
    /\ phase' = [q \in Ids |-> IF q = p THEN "offered"
                               ELSE IF phase[q] = "offered" THEN "closed"
                               ELSE phase[q]]
    /\ plans' \in {plans, plans \cup {p}}
    /\ UNCHANGED <<left, made>>

Move(p, from, to) == phase[p] = from /\ phase' = [phase EXCEPT ![p] = to]

Withdraw(p) ==
    Move(p, "offered", "closed") /\ UNCHANGED <<plans, left, made>>

Consent(p) ==
    /\ Move(p, "offered", "running")
    /\ left' \in Nat
    /\ UNCHANGED <<plans, made>>

\* A single action ends with its work, done or found impossible, or with the
\* handler that was to do it.
Conclude(p) ==
    /\ p \notin plans
    /\ Move(p, "running", "closed") /\ left' = 0
    /\ made' \in {made, [made EXCEPT ![p] = @ + 1]}
    /\ UNCHANGED plans

\* A plan works through its items; each is made or skipped.
NextItem(p) ==
    /\ p \in plans /\ phase[p] = "running"
    /\ left > 0 /\ left' = left - 1
    /\ made' \in {made, [made EXCEPT ![p] = @ + 1]}
    /\ UNCHANGED <<phase, plans>>

\* A plan that was interrupted is on offer again; it closes only at its end.
Interrupt(p) ==
    /\ p \in plans
    /\ Move(p, "running", "offered") /\ left' = 0
    /\ UNCHANGED <<plans, made>>

FinishPlan(p) ==
    /\ p \in plans /\ left = 0
    /\ Move(p, "running", "closed")
    /\ UNCHANGED <<plans, left, made>>

Next ==
    \E p \in Ids :
        \/ Offer(p) \/ Withdraw(p) \/ Consent(p) \/ Conclude(p)
        \/ NextItem(p) \/ Interrupt(p) \/ FinishPlan(p)

Spec == Init /\ [][Next]_lifeVars
=============================================================================
