------------------------------- MODULE PinGate -------------------------------
(***************************************************************************)
(* What PIN entry promises, without timers or prompts: a gate that is      *)
(* closed, open, or wiped.  After the limit-th consecutive failure an      *)
(* attempt is possible only when the delay owed for that failure has been  *)
(* served, and each further failure owes a longer one.  Under a wiping     *)
(* policy the failure that reaches the threshold wipes.  The promise holds *)
(* from one power-on to the next: the device keeps none of it in flash.    *)
(***************************************************************************)
EXTENDS Integers

CONSTANTS PinLimits, LockoutBase, LockoutStep, WipeThreshold

VARIABLES
    phase,   \* "closed", "open" or "wiped"
    failed,  \* consecutive failures
    waited,  \* ticks of the owed delay served since the last failure
    policy   \* the attempt limit and whether the threshold wipes

vars == <<phase, failed, waited, policy>>

Policies == [limit : PinLimits, wipe : BOOLEAN]

Owed(n) == IF n < policy.limit THEN 0 ELSE LockoutBase + LockoutStep * (n - policy.limit)

MayAttempt == phase # "wiped" /\ waited >= Owed(failed)

Init ==
    /\ phase = "closed" /\ failed = 0 /\ waited = 0
    /\ policy \in Policies

PowerCycle ==
    /\ phase' = "closed" /\ failed' = 0 /\ waited' = 0
    /\ policy' \in Policies

Succeed ==
    /\ MayAttempt
    /\ phase' = "open" /\ failed' = 0 /\ waited' = 0
    /\ UNCHANGED policy

Fail ==
    /\ MayAttempt
    /\ failed' = failed + 1 /\ waited' = 0
    /\ phase' = IF policy.wipe /\ failed + 1 >= WipeThreshold THEN "wiped" ELSE "closed"
    /\ UNCHANGED policy

Serve ==
    /\ phase = "closed" /\ waited < Owed(failed)
    /\ waited' = waited + 1
    /\ UNCHANGED <<phase, failed, policy>>

Close ==
    /\ phase = "open" /\ phase' = "closed"
    /\ UNCHANGED <<failed, waited, policy>>

ChangePolicy ==
    /\ phase = "open"
    /\ policy' \in Policies
    /\ UNCHANGED <<phase, failed, waited>>

Next == PowerCycle \/ Succeed \/ Fail \/ Serve \/ Close \/ ChangePolicy

Spec == Init /\ [][Next]_vars

FairSpec == Spec /\ WF_vars(Serve)

=============================================================================
