-------------------------- MODULE StateMachineGate --------------------------
(***************************************************************************)
(* The state machine implements PinGate.  A history variable counts the    *)
(* ticks served since the last failure; it only observes the steps of      *)
(* StateMachine and constrains none.                                       *)
(***************************************************************************)
EXTENDS StateMachine

VARIABLE waited  \* ticks counted down since the last PIN failure

gvars == <<ctx, settings, verifier, halted, waited>>

WaitedAfterStep ==
    IF ctx'.failed_pin_attempts # ctx.failed_pin_attempts THEN 0
    ELSE IF ctx'.lockout_ticks_remaining < ctx.lockout_ticks_remaining THEN waited + 1
    ELSE waited

GateInit == Init /\ waited = 0

GateNext == Next /\ waited' = WaitedAfterStep

GateSpec == GateInit /\ [][GateNext]_gvars

FairGateSpec == GateSpec /\ WF_gvars(Tick /\ waited' = WaitedAfterStep)

Phase == IF ctx.wiped THEN "wiped" ELSE IF ctx.unlocked THEN "open" ELSE "closed"

Policy == [limit |-> settings.pin_attempt_limit, wipe |-> settings.wipe_on_lockout]

Gate == INSTANCE PinGate WITH phase <- Phase,
                              failed <- ctx.failed_pin_attempts,
                              policy <- Policy

\* The countdown is the whole debt: from the limit-th failure on, the ticks left
\* and the ticks served make up the delay owed for the failures so far; below
\* the limit nothing is owed.
DelayAccounted ==
    ~ctx.wiped =>
        IF ctx.failed_pin_attempts < settings.pin_attempt_limit
        THEN waited = 0 /\ ctx.lockout_ticks_remaining = 0
        ELSE waited + ctx.lockout_ticks_remaining =
                 LockoutDelay(ctx.failed_pin_attempts, settings)

\* The device never examines a PIN before the delay owed for the failures so
\* far has been served, wipes when its policy says so, and changes its policy
\* only with the gate open: every step is a step of PinGate.
ImplementsGate == Gate!Spec

\* The owed delay is served in full once the main loop keeps ticking.
ServesDelay == Gate!FairSpec

=============================================================================
