---------------------------- MODULE StateMachine ----------------------------
(***************************************************************************)
(* The device state machine of firmware/src/state_machine.c: PIN entry     *)
(* with progressive lockout and optional wipe, inactivity autolock, and    *)
(* the touch transitions of a pending fill or save.                        *)
(*                                                                         *)
(* The C module keeps a device_context_t owned by its caller (ctx) and     *)
(* three file-level statics: the runtime settings, the PIN verifier and    *)
(* the flag saying that it is set (one variable here, NoVerifier when it   *)
(* is not).  All of it is RAM: a power cycle loses it.  The transformations *)
(* of the context are operators on context records, because the action     *)
(* engine applies the same ones as part of its own handlers.               *)
(***************************************************************************)
EXTENDS Integers

CONSTANTS
    Pins,             \* well-formed PINs: exactly PIN_DIGITS decimal digits
    MalformedPins,    \* any other string: too short, too long, not all digits
    NoVerifier,       \* g_pin_verifier_set = false
    Origins,          \* web origins
    Records,          \* what callers pass to request_fill and request_save
    SettingsInputs,   \* settings loaded from flash or sent by the owner
    PinLimits,        \* PIN_ATTEMPT_LIMIT_3, _5 and _10
    DefaultPinLimit,  \* PIN_ATTEMPT_LIMIT_5
    AutolockDefault,  \* AUTO_LOCK_TIMEOUT_SECONDS_DEFAULT
    LockoutBase,      \* LOCKOUT_TICKS_BASE
    LockoutStep,      \* LOCKOUT_TICKS_STEP
    WipeThreshold,    \* MAX_PIN_FAILURES_BEFORE_WIPE
    Production,       \* FIRMWARE_PRODUCTION
    MaxFailures       \* bound: PIN failures counted between two successes

ASSUME PinsAssumption ==
    /\ Pins \cap MalformedPins = {}
    /\ NoVerifier \notin Pins \cup MalformedPins

ASSUME LimitsAssumption ==
    /\ PinLimits \subseteq Nat \ {0}
    /\ DefaultPinLimit \in PinLimits
    /\ AutolockDefault \in Nat \ {0}
    /\ LockoutBase \in Nat \ {0}
    /\ LockoutStep \in Nat
    /\ WipeThreshold \in Nat \ {0}
    /\ Production \in BOOLEAN
    /\ MaxFailures \in Nat

\* runtime_settings_t, the fields that steer the state machine and the engine;
\* hold_required_for_selection is stored but read nowhere.
RawSettings ==
    [auto_popup_enabled : BOOLEAN, manual_popup_requires_touch : BOOLEAN,
     require_touch_for_fill : BOOLEAN, autolock_seconds : Nat,
     pin_attempt_limit : Nat, wipe_on_lockout : BOOLEAN]

Settings == {s \in RawSettings : s.autolock_seconds > 0 /\ s.pin_attempt_limit \in PinLimits}

\* A record handed over by a caller: origin is the site it belongs to, safe is
\* the verdict of browser_validate_command, savable that of
\* security_should_allow_save without the hold override.
RecordType ==
    [origin : Origins, safe : BOOLEAN, savable : BOOLEAN, requires_touch : BOOLEAN]

ASSUME InputsAssumption ==
    /\ SettingsInputs \subseteq RawSettings
    /\ Records \subseteq RecordType

DeviceStates ==
    {"LOCKED", "UNLOCKED", "PROMPT_FILL", "PROMPT_SAVE", "SELECT_CREDENTIAL",
     "EDIT_CREDENTIAL", "CONFIRM_TYPE", "LOCKED_OUT"}

ContextType ==
    [state : DeviceStates, unlocked : BOOLEAN, wiped : BOOLEAN,
     failed_pin_attempts : Nat, inactivity_seconds : Nat,
     lockout_ticks_remaining : Nat, selected_credential_idx : Nat]

-----------------------------------------------------------------------------
(***************************************************************************)
(* Transformations of the device context.                                  *)
(***************************************************************************)

\* Mutants: a lock that also ends a lockout, one that forgets its countdown.
ResetEndsLockout(c) ==
    [c EXCEPT !.unlocked = FALSE, !.inactivity_seconds = 0, !.state = "LOCKED"]

ResetForgetsCountdown(c) ==
    [c EXCEPT !.unlocked = FALSE, !.inactivity_seconds = 0, !.lockout_ticks_remaining = 0,
              !.state = IF @ = "LOCKED_OUT" THEN @ ELSE "LOCKED"]

ResetUnlockSession(c) ==
    [c EXCEPT !.unlocked = FALSE,
              !.inactivity_seconds = 0,
              !.state = IF @ = "LOCKED_OUT" THEN @ ELSE "LOCKED"]

InitialContext ==
    [state |-> "LOCKED", unlocked |-> FALSE, wiped |-> FALSE,
     failed_pin_attempts |-> 0, inactivity_seconds |-> 0,
     lockout_ticks_remaining |-> 0, selected_credential_idx |-> 0]

\* Mutants: the countdown is decremented at zero; its end reopens nothing.
LockoutTickUnderflow(c) ==
    [c EXCEPT !.lockout_ticks_remaining = @ - 1,
              !.state = IF c.lockout_ticks_remaining = 1 /\ ~c.wiped THEN "LOCKED" ELSE @]

LockoutTickNoReopen(c) ==
    [c EXCEPT !.lockout_ticks_remaining = IF @ > 0 THEN @ - 1 ELSE 0]

\* One second of a lockout.  A wiped device never leaves LOCKED_OUT.
LockoutTick(c) ==
    LET left == IF c.lockout_ticks_remaining > 0 THEN c.lockout_ticks_remaining - 1 ELSE 0
    IN  [c EXCEPT !.lockout_ticks_remaining = left,
                  !.state = IF left = 0 /\ ~c.wiped THEN "LOCKED" ELSE @]

\* Mutant: an open prompt suspends the autolock.
SessionTickOutsidePrompts(c, s) ==
    IF c.state # "UNLOCKED" THEN c
    ELSE IF c.inactivity_seconds + 1 >= s.autolock_seconds
    THEN ResetUnlockSession(c)
    ELSE [c EXCEPT !.inactivity_seconds = @ + 1]

\* One second of an unlocked session.
SessionTick(c, s) ==
    IF c.inactivity_seconds + 1 >= s.autolock_seconds
    THEN ResetUnlockSession(c)
    ELSE [c EXCEPT !.inactivity_seconds = @ + 1]

\* Mutant: time stands still for a device without a session.
TickSessionOnly(c, s) == IF c.unlocked THEN SessionTick(c, s) ELSE c

AfterTick(c, s) ==
    IF c.state = "LOCKED_OUT" THEN LockoutTick(c)
    ELSE IF c.unlocked THEN SessionTick(c, s) ELSE c

TapTransition ==
    [PROMPT_FILL |-> "CONFIRM_TYPE", CONFIRM_TYPE |-> "UNLOCKED",
     PROMPT_SAVE |-> "EDIT_CREDENTIAL"]

HoldTransition ==
    [UNLOCKED |-> "SELECT_CREDENTIAL", PROMPT_FILL |-> "CONFIRM_TYPE",
     EDIT_CREDENTIAL |-> "UNLOCKED"]

\* Both gestures restart the inactivity count, whether unlocked or not.
AfterGesture(c, transition) ==
    [c EXCEPT !.inactivity_seconds = 0,
              !.state = IF c.unlocked /\ @ \in DOMAIN transition
                        THEN transition[@] ELSE @]

AfterTouchTap(c) == AfterGesture(c, TapTransition)

AfterTouchHold(c) == AfterGesture(c, HoldTransition)

\* Mutant: the failures are not forgiven.
CorrectPinKeepsCount(c) ==
    [c EXCEPT !.lockout_ticks_remaining = 0, !.unlocked = TRUE, !.state = "UNLOCKED",
              !.inactivity_seconds = 0]

AfterCorrectPin(c) ==
    [c EXCEPT !.failed_pin_attempts = 0, !.lockout_ticks_remaining = 0,
              !.unlocked = TRUE, !.state = "UNLOCKED", !.inactivity_seconds = 0]

\* The delay imposed by the failed-th consecutive failure.
LockoutDelay(failed, s) == LockoutBase + LockoutStep * (failed - s.pin_attempt_limit)

\* Mutant: the lockout is decided before the wipe.
WrongPinLockoutFirst(c, s) ==
    LET failed == c.failed_pin_attempts + 1
        closed == [ResetUnlockSession(c) EXCEPT !.failed_pin_attempts = failed]
    IN  IF failed >= s.pin_attempt_limit
        THEN [closed EXCEPT !.state = "LOCKED_OUT",
                            !.lockout_ticks_remaining = LockoutDelay(failed, s)]
        ELSE IF s.wipe_on_lockout /\ failed >= WipeThreshold
        THEN [closed EXCEPT !.wiped = TRUE, !.state = "LOCKED_OUT"]
        ELSE closed

AfterWrongPin(c, s) ==
    LET failed == c.failed_pin_attempts + 1
        closed == [ResetUnlockSession(c) EXCEPT !.failed_pin_attempts = failed]
    IN  IF s.wipe_on_lockout /\ failed >= WipeThreshold
        THEN [closed EXCEPT !.wiped = TRUE, !.state = "LOCKED_OUT",
                            !.lockout_ticks_remaining = 0]
        ELSE IF failed >= s.pin_attempt_limit
        THEN [closed EXCEPT !.state = "LOCKED_OUT",
                            !.lockout_ticks_remaining = LockoutDelay(failed, s)]
        ELSE closed

\* Mutant: the countdown does not keep PINs from being tried.
EvaluatesWhileLockedOut(c, v) == ~c.wiped /\ v # NoVerifier

\* The early returns of try_unlock that leave the PIN unexamined.
EvaluatesPin(c, v) ==
    /\ ~c.wiped
    /\ v # NoVerifier
    /\ ~(c.state = "LOCKED_OUT" /\ c.lockout_ticks_remaining > 0)

\* The hash comparison is exact: distinct PINs have distinct verifiers.
AfterTryUnlock(c, s, v, pin) ==
    IF ~EvaluatesPin(c, v) THEN c
    ELSE IF pin = v THEN AfterCorrectPin(c) ELSE AfterWrongPin(c, s)

SetPinAllowed(c, v, old, new) ==
    /\ c.unlocked /\ ~c.wiped
    /\ old \in Pins /\ new \in Pins
    /\ v # NoVerifier /\ old = v

MayRequest(c) == c.unlocked /\ ~c.wiped /\ c.state # "LOCKED_OUT"

FillAllowed(c, rec, origin) == MayRequest(c) /\ rec.safe /\ rec.origin = origin

AfterRequestFill(c, s, rec) ==
    [c EXCEPT !.inactivity_seconds = 0,
              !.state = IF s.require_touch_for_fill \/ rec.requires_touch
                        THEN "PROMPT_FILL" ELSE "CONFIRM_TYPE"]

SaveAllowed(c, rec) == MayRequest(c) /\ rec.savable /\ rec.safe

AfterRequestSave(c) ==
    [c EXCEPT !.inactivity_seconds = 0, !.state = "PROMPT_SAVE"]

\* Mutant: only the PIN limit is checked.
NormaliseLimitOnly(s) ==
    [s EXCEPT !.pin_attempt_limit = IF @ \in PinLimits THEN @ ELSE DefaultPinLimit]

\* What apply_settings stores: zero and unknown values fall back to defaults.
Normalise(s) ==
    [s EXCEPT !.autolock_seconds = IF @ = 0 THEN AutolockDefault ELSE @,
              !.pin_attempt_limit = IF @ \in PinLimits THEN @ ELSE DefaultPinLimit]

\* The interaction model action_engine forces on every settings change: one
\* press fills, one hold opens the settings, no further gate.
OpenGates(s) ==
    [s EXCEPT !.auto_popup_enabled = TRUE,
              !.manual_popup_requires_touch = FALSE,
              !.require_touch_for_fill = FALSE]

SameLimits(s, t) ==
    /\ s.autolock_seconds = t.autolock_seconds
    /\ s.pin_attempt_limit = t.pin_attempt_limit
    /\ s.wipe_on_lockout = t.wipe_on_lockout

DefaultSettings ==
    [auto_popup_enabled |-> TRUE, manual_popup_requires_touch |-> TRUE,
     require_touch_for_fill |-> TRUE, autolock_seconds |-> AutolockDefault,
     pin_attempt_limit |-> DefaultPinLimit, wipe_on_lockout |-> FALSE]

-----------------------------------------------------------------------------
(***************************************************************************)
(* The module as a component: one action per entry point.                  *)
(***************************************************************************)
VARIABLES
    ctx,       \* the caller's device_context_t
    settings,  \* g_settings
    verifier,  \* g_pin_verifier and g_pin_verifier_set
    halted     \* Error_Handler has been entered: it loops for ever

vars == <<ctx, settings, verifier, halted>>

\* main() applies what the settings store loaded, then initialises the context.
BootSettings == {Normalise(s) : s \in SettingsInputs \cup {DefaultSettings}}

Init ==
    /\ ctx = InitialContext
    /\ settings \in BootSettings
    /\ verifier = NoVerifier
    /\ halted = FALSE

\* Power loss and reboot: nothing of this module is persistent.
PowerCycle ==
    /\ ctx' = InitialContext
    /\ settings' \in BootSettings
    /\ verifier' = NoVerifier
    /\ halted' = FALSE

Tick ==
    /\ ~halted
    /\ ctx' = AfterTick(ctx, settings)
    /\ UNCHANGED <<settings, verifier, halted>>

TouchTap ==
    /\ ~halted
    /\ ctx' = AfterTouchTap(ctx)
    /\ UNCHANGED <<settings, verifier, halted>>

TouchHold ==
    /\ ~halted
    /\ ctx' = AfterTouchHold(ctx)
    /\ UNCHANGED <<settings, verifier, halted>>

\* Mutant: every attempt that is turned away halts a production device.
TryUnlockHaltsWhenRefused(pin) ==
    /\ ~halted
    /\ ctx.failed_pin_attempts < MaxFailures
    /\ ctx' = AfterTryUnlock(ctx, settings, verifier, pin)
    /\ halted' = (Production /\ ~EvaluatesPin(ctx, verifier))
    /\ UNCHANGED <<settings, verifier>>

TryUnlock(pin) ==
    /\ ~halted
    /\ ctx.failed_pin_attempts < MaxFailures
    /\ ctx' = AfterTryUnlock(ctx, settings, verifier, pin)
    /\ halted' = (Production /\ verifier = NoVerifier /\ ~ctx.wiped)
    /\ UNCHANGED <<settings, verifier>>

\* Error_Handler in set_pin cannot be reached: an unlocked device has a verifier.
SetPin(old, new) ==
    /\ ~halted
    /\ SetPinAllowed(ctx, verifier, old, new)
    /\ verifier' = new
    /\ UNCHANGED <<ctx, settings, halted>>

RequestFill(rec, origin) ==
    /\ ~halted
    /\ FillAllowed(ctx, rec, origin)
    /\ ctx' = AfterRequestFill(ctx, settings, rec)
    /\ UNCHANGED <<settings, verifier, halted>>

RequestSave(rec) ==
    /\ ~halted
    /\ SaveAllowed(ctx, rec)
    /\ ctx' = AfterRequestSave(ctx)
    /\ UNCHANGED <<settings, verifier, halted>>

\* After boot there are two callers: action_engine_device_apply_settings, which
\* requires an unlocked device, and action_engine_popup_open, which does not
\* but passes the limits it has just read.
ApplySettings(s) ==
    /\ ~halted
    /\ MayRequest(ctx) \/ SameLimits(s, settings)
    /\ settings' = Normalise(s)
    /\ UNCHANGED <<ctx, verifier, halted>>

\* Called by action_engine_init, once per boot.
SetPinVerifier(v) ==
    /\ ~halted
    /\ verifier = NoVerifier
    /\ verifier' = v
    /\ UNCHANGED <<ctx, settings, halted>>

Lock ==
    /\ ~halted
    /\ ctx' = ResetUnlockSession(ctx)
    /\ UNCHANGED <<settings, verifier, halted>>

Next ==
    \/ PowerCycle
    \/ Tick
    \/ TouchTap
    \/ TouchHold
    \/ \E pin \in Pins \cup MalformedPins : TryUnlock(pin)
    \/ \E old, new \in Pins \cup MalformedPins : SetPin(old, new)
    \/ \E rec \in Records, origin \in Origins : RequestFill(rec, origin)
    \/ \E rec \in Records : RequestSave(rec)
    \/ \E s \in SettingsInputs \cup {OpenGates(settings)} : ApplySettings(s)
    \/ \E v \in Pins : SetPinVerifier(v)
    \/ Lock

Spec == Init /\ [][Next]_vars

\* The main loop calls state_machine_tick on every iteration; nothing obliges
\* the owner to touch the device or to enter a PIN.
FairSpec == Spec /\ WF_vars(Tick)

-----------------------------------------------------------------------------
(***************************************************************************)
(* Properties.                                                             *)
(***************************************************************************)

\* Every variable has its type; in particular the settings in force are always
\* normalised, whatever was loaded or sent.
TypeOK ==
    /\ ctx \in ContextType
    /\ settings \in Settings
    /\ verifier \in Pins \cup {NoVerifier}
    /\ halted \in BOOLEAN

\* The two flags and the state that the C code updates separately never
\* disagree: a session is open exactly in the states a session may be in, a
\* countdown runs exactly while a device that is not wiped is locked out, and
\* a wiped device stays locked out.  request_fill, request_save and the touch
\* handlers rely on it, testing sometimes one and sometimes the other.
ConsistentContext(c) ==
    /\ c.unlocked <=> c.state \notin {"LOCKED", "LOCKED_OUT"}
    /\ c.lockout_ticks_remaining > 0 <=> (c.state = "LOCKED_OUT" /\ ~c.wiped)
    /\ c.wiped => c.state = "LOCKED_OUT"

SessionConsistent == ConsistentContext(ctx)

\* Opening a session settles every debt: no failure, no countdown is carried
\* into it, and it was opened against a verifier.
SessionClean ==
    ctx.unlocked =>
        /\ ctx.failed_pin_attempts = 0
        /\ ctx.lockout_ticks_remaining = 0
        /\ verifier # NoVerifier

\* No order of failures, unlocks, settings changes and reboots lets the count
\* reach the wipe threshold under a wiping policy on a device that is not wiped.
WipeNotMissed ==
    settings.wipe_on_lockout /\ ~ctx.wiped => ctx.failed_pin_attempts < WipeThreshold

\* Error_Handler is reached from here only on a device that was never
\* provisioned, and it leaves that device locked.
HaltsOnlyUnprovisioned ==
    halted => verifier = NoVerifier /\ ctx.state = "LOCKED"

\* A lockout ends by itself: tick counts it down and reopens PIN entry.
LockoutEnds ==
    (ctx.state = "LOCKED_OUT" /\ ~ctx.wiped) ~> (ctx.state # "LOCKED_OUT")

\* If from some point on time merely passes, the device ends up locked, in
\* whatever prompt it was left.
IdleDeviceLocks == <>[][Tick]_vars => <>[](~ctx.unlocked)

=============================================================================
