------------------------- MODULE StateMachineProofs -------------------------
(***************************************************************************)
(* Proofs about the state machine for every set of PINs, records and       *)
(* settings, every attempt limit, delay and threshold: the invariants of   *)
(* StateMachine, and that it implements PinGate.                           *)
(***************************************************************************)
EXTENDS StateMachineGate, TLAPS

-----------------------------------------------------------------------------
(***************************************************************************)
(* Facts about the operators.                                              *)
(***************************************************************************)

\* apply_settings leaves settings of the right shape whatever it is given.
LEMMA NormaliseType ==
  ASSUME NEW s \in RawSettings
  PROVE  Normalise(s) \in Settings
<1>1. DefaultPinLimit \in Nat /\ AutolockDefault \in Nat
  BY LimitsAssumption
<1>2. Normalise(s) \in RawSettings
  BY <1>1 DEF Normalise, RawSettings
<1>3. Normalise(s).autolock_seconds > 0
  BY LimitsAssumption DEF Normalise, RawSettings
<1>4. Normalise(s).pin_attempt_limit \in PinLimits
  BY LimitsAssumption DEF Normalise, RawSettings
<1>5. QED
  BY <1>2, <1>3, <1>4 DEF Settings

LEMMA OpenGatesType ==
  ASSUME NEW s \in Settings
  PROVE  /\ OpenGates(s) \in Settings
         /\ OpenGates(s) \in RawSettings
         /\ SameLimits(OpenGates(s), s)
BY DEF OpenGates, Settings, RawSettings, SameLimits

LEMMA BootSettingsType == BootSettings \subseteq Settings
<1>1. DefaultSettings \in RawSettings
  BY LimitsAssumption DEF DefaultSettings, RawSettings
<1>2. QED
  BY <1>1, NormaliseType, InputsAssumption DEF BootSettings

\* A lockout that is imposed lasts at least one tick.
LEMMA LockoutDelayPositive ==
  ASSUME NEW n \in Nat, NEW s \in Settings, n >= s.pin_attempt_limit
  PROVE  LockoutDelay(n, s) \in Nat \ {0}
<1>1. s.pin_attempt_limit \in Nat
  BY LimitsAssumption DEF Settings
<1>2. n - s.pin_attempt_limit \in Nat
  BY <1>1
<1>3. \A a, b \in Nat : a * b \in Nat
  OBVIOUS
<1>4. LockoutStep * (n - s.pin_attempt_limit) \in Nat
  BY <1>2, <1>3, LimitsAssumption
<1>5. QED
  BY <1>4, LimitsAssumption DEF LockoutDelay

-----------------------------------------------------------------------------
(***************************************************************************)
(* Each transformation of the context keeps it well typed and consistent,  *)
(* and what it does to the failure count and to the countdown.             *)
(***************************************************************************)

GoodContexts == {c \in ContextType : ConsistentContext(c)}

LEMMA ResetGood ==
  ASSUME NEW c \in GoodContexts
  PROVE  /\ ResetUnlockSession(c) \in GoodContexts
         /\ ~ResetUnlockSession(c).unlocked
         /\ ResetUnlockSession(c).failed_pin_attempts = c.failed_pin_attempts
         /\ ResetUnlockSession(c).lockout_ticks_remaining = c.lockout_ticks_remaining
         /\ ResetUnlockSession(c).wiped = c.wiped
BY DEF GoodContexts, ContextType, DeviceStates, ConsistentContext, ResetUnlockSession

LEMMA LockoutTickGood ==
  ASSUME NEW c \in GoodContexts, c.state = "LOCKED_OUT"
  PROVE  /\ LockoutTick(c) \in GoodContexts
         /\ ~LockoutTick(c).unlocked
         /\ LockoutTick(c).failed_pin_attempts = c.failed_pin_attempts
         /\ LockoutTick(c).lockout_ticks_remaining =
               IF c.wiped THEN 0 ELSE c.lockout_ticks_remaining - 1
         /\ LockoutTick(c).wiped = c.wiped
<1> DEFINE left == IF c.lockout_ticks_remaining > 0
                   THEN c.lockout_ticks_remaining - 1 ELSE 0
           d == LockoutTick(c)
<1>1. left \in Nat /\ (c.wiped => left = 0)
  BY DEF GoodContexts, ContextType, ConsistentContext
<1>2. d \in ContextType
  BY <1>1 DEF GoodContexts, ContextType, DeviceStates, LockoutTick
<1>3. /\ d.state = IF left = 0 /\ ~c.wiped THEN "LOCKED" ELSE "LOCKED_OUT"
      /\ d.lockout_ticks_remaining = left
      /\ d.unlocked = c.unlocked /\ d.wiped = c.wiped
      /\ d.failed_pin_attempts = c.failed_pin_attempts
  BY DEF GoodContexts, ContextType, LockoutTick
<1>4. ConsistentContext(d) /\ ~d.unlocked
  BY <1>1, <1>3 DEF GoodContexts, ContextType, ConsistentContext
<1>5. left = IF c.wiped THEN 0 ELSE c.lockout_ticks_remaining - 1
  BY <1>1 DEF GoodContexts, ContextType, ConsistentContext
<1>6. QED
  BY <1>2, <1>3, <1>4, <1>5 DEF GoodContexts

LEMMA SessionTickGood ==
  ASSUME NEW c \in GoodContexts, NEW s \in Settings, c.unlocked
  PROVE  /\ SessionTick(c, s) \in GoodContexts
         /\ SessionTick(c, s).failed_pin_attempts = c.failed_pin_attempts
         /\ SessionTick(c, s).lockout_ticks_remaining = c.lockout_ticks_remaining
         /\ SessionTick(c, s).wiped = c.wiped
BY ResetGood DEF GoodContexts, ContextType, DeviceStates, ConsistentContext, SessionTick

LEMMA GestureGood ==
  ASSUME NEW c \in GoodContexts,
         NEW transition, DOMAIN transition \subseteq DeviceStates,
         \A st \in DOMAIN transition :
            transition[st] \in DeviceStates \ {"LOCKED", "LOCKED_OUT"}
  PROVE  /\ AfterGesture(c, transition) \in GoodContexts
         /\ AfterGesture(c, transition).unlocked = c.unlocked
         /\ AfterGesture(c, transition).failed_pin_attempts = c.failed_pin_attempts
         /\ AfterGesture(c, transition).lockout_ticks_remaining = c.lockout_ticks_remaining
         /\ AfterGesture(c, transition).wiped = c.wiped
BY DEF GoodContexts, ContextType, DeviceStates, ConsistentContext, AfterGesture

LEMMA CorrectPinGood ==
  ASSUME NEW c \in GoodContexts, c.wiped = FALSE
  PROVE  /\ AfterCorrectPin(c) \in GoodContexts
         /\ AfterCorrectPin(c).unlocked = TRUE
         /\ AfterCorrectPin(c).failed_pin_attempts = 0
         /\ AfterCorrectPin(c).lockout_ticks_remaining = 0
         /\ AfterCorrectPin(c).wiped = FALSE
<1> DEFINE d == AfterCorrectPin(c)
<1>1. d \in ContextType
  BY DEF GoodContexts, ContextType, DeviceStates, AfterCorrectPin
<1>2. /\ d.state = "UNLOCKED" /\ d.unlocked = TRUE /\ d.wiped = c.wiped
      /\ d.failed_pin_attempts = 0 /\ d.lockout_ticks_remaining = 0
  BY DEF GoodContexts, ContextType, AfterCorrectPin
<1>3. ConsistentContext(d)
  BY <1>2 DEF ConsistentContext
<1>4. QED
  BY <1>1, <1>2, <1>3 DEF GoodContexts

\* Both requests leave a prompt on an open session and touch no counter.
LEMMA RequestGood ==
  ASSUME NEW c \in GoodContexts, MayRequest(c),
         NEW st \in DeviceStates \ {"LOCKED", "LOCKED_OUT"}
  PROVE  /\ [c EXCEPT !.inactivity_seconds = 0, !.state = st] \in GoodContexts
         /\ [c EXCEPT !.inactivity_seconds = 0, !.state = st].unlocked = c.unlocked
         /\ [c EXCEPT !.inactivity_seconds = 0, !.state = st].failed_pin_attempts
               = c.failed_pin_attempts
         /\ [c EXCEPT !.inactivity_seconds = 0, !.state = st].lockout_ticks_remaining
               = c.lockout_ticks_remaining
         /\ [c EXCEPT !.inactivity_seconds = 0, !.state = st].wiped = c.wiped
BY DEF GoodContexts, ContextType, DeviceStates, ConsistentContext, MayRequest

\* The failure count goes up by one; the debt of the new count is imposed, or
\* the device is wiped.
LEMMA WrongPinGood ==
  ASSUME NEW c \in GoodContexts, NEW s \in Settings, c.wiped = FALSE,
         c.lockout_ticks_remaining = 0,
         NEW failed \in Nat, failed = c.failed_pin_attempts + 1
  PROVE  /\ AfterWrongPin(c, s) \in GoodContexts
         /\ AfterWrongPin(c, s).unlocked = FALSE
         /\ AfterWrongPin(c, s).failed_pin_attempts = failed
         /\ AfterWrongPin(c, s).wiped <=> (s.wipe_on_lockout /\ failed >= WipeThreshold)
         /\ ~AfterWrongPin(c, s).wiped =>
              AfterWrongPin(c, s).lockout_ticks_remaining =
                IF failed < s.pin_attempt_limit THEN 0 ELSE LockoutDelay(failed, s)
<1> DEFINE closed == [ResetUnlockSession(c) EXCEPT !.failed_pin_attempts = failed]
           d == AfterWrongPin(c, s)
<1>1. /\ failed \in Nat
      /\ s.pin_attempt_limit \in Nat /\ WipeThreshold \in Nat
      /\ s.wipe_on_lockout \in BOOLEAN
  BY LimitsAssumption DEF GoodContexts, ContextType, Settings, RawSettings
<1>2. /\ closed \in ContextType
      /\ closed.state = "LOCKED" /\ closed.unlocked = FALSE /\ closed.wiped = FALSE
      /\ closed.failed_pin_attempts = failed
      /\ closed.lockout_ticks_remaining = 0
  <2>1. c \in ContextType /\ c.state # "LOCKED_OUT"
    BY DEF GoodContexts, ConsistentContext
  <2>2. closed = [c EXCEPT !.unlocked = FALSE, !.inactivity_seconds = 0,
                           !.state = "LOCKED", !.failed_pin_attempts = failed]
    BY <2>1 DEF ContextType, ResetUnlockSession
  <2>3. QED
    BY <1>1, <2>1, <2>2 DEF ContextType, DeviceStates
<1>3. CASE s.wipe_on_lockout /\ failed >= WipeThreshold
  <2>1. d = [closed EXCEPT !.wiped = TRUE, !.state = "LOCKED_OUT",
                           !.lockout_ticks_remaining = 0]
    BY <1>3 DEF AfterWrongPin
  <2>2. /\ d \in ContextType
        /\ d.state = "LOCKED_OUT" /\ d.unlocked = FALSE /\ d.wiped = TRUE
        /\ d.failed_pin_attempts = failed
        /\ d.lockout_ticks_remaining = 0
    BY <1>2, <2>1 DEF ContextType, DeviceStates
  <2>3. QED
    BY <1>3, <2>2 DEF GoodContexts, ConsistentContext
<1>4. CASE ~(s.wipe_on_lockout /\ failed >= WipeThreshold) /\ failed >= s.pin_attempt_limit
  <2>1. d = [closed EXCEPT !.state = "LOCKED_OUT",
                           !.lockout_ticks_remaining = LockoutDelay(failed, s)]
    BY <1>4 DEF AfterWrongPin
  <2>2. LockoutDelay(failed, s) \in Nat \ {0}
    BY <1>1, <1>4, LockoutDelayPositive
  <2>3. /\ d \in ContextType
        /\ d.state = "LOCKED_OUT" /\ d.unlocked = FALSE /\ d.wiped = FALSE
        /\ d.failed_pin_attempts = failed
        /\ d.lockout_ticks_remaining = LockoutDelay(failed, s)
    BY <1>2, <2>1, <2>2 DEF ContextType, DeviceStates
  <2>4. QED
    BY <1>1, <1>4, <2>2, <2>3 DEF GoodContexts, ConsistentContext
<1>5. CASE ~(s.wipe_on_lockout /\ failed >= WipeThreshold) /\ failed < s.pin_attempt_limit
  <2>1. d = closed
    BY <1>1, <1>5 DEF AfterWrongPin
  <2>2. /\ d \in ContextType
        /\ d.state = "LOCKED" /\ d.unlocked = FALSE /\ d.wiped = FALSE
        /\ d.failed_pin_attempts = failed
        /\ d.lockout_ticks_remaining = 0
    BY <1>2, <2>1
  <2>3. ConsistentContext(d)
    BY <2>2 DEF ConsistentContext
  <2>4. QED
    BY <1>1, <1>5, <2>2, <2>3 DEF GoodContexts
<1>6. failed >= s.pin_attempt_limit \/ failed < s.pin_attempt_limit
  BY <1>1
<1>7. QED
  BY <1>3, <1>4, <1>5, <1>6, Zenon

-----------------------------------------------------------------------------
(***************************************************************************)
(* The inductive invariant.  SessionConsistent alone is not inductive: a   *)
(* wrong PIN must find the countdown at zero, which needs the case split   *)
(* of EvaluatesPin; DelayAccounted needs SessionClean, because the attempt *)
(* limit may change in a session, where the failure count must be zero.    *)
(***************************************************************************)

\* Only counted failures wipe.
WipedByFailures == ctx.wiped => ctx.failed_pin_attempts > 0

\* A device without a verifier has never examined a PIN.
Unprovisioned == verifier = NoVerifier => ctx.failed_pin_attempts = 0 /\ ~ctx.wiped

GateInv ==
    /\ TypeOK
    /\ waited \in Nat
    /\ SessionConsistent
    /\ SessionClean
    /\ WipeNotMissed
    /\ DelayAccounted
    /\ WipedByFailures
    /\ Unprovisioned
    /\ HaltsOnlyUnprovisioned

LEMMA SettingsFacts ==
  ASSUME NEW s \in Settings
  PROVE  /\ s.pin_attempt_limit \in Nat \ {0}
         /\ s.pin_attempt_limit \in PinLimits
         /\ s.wipe_on_lockout \in BOOLEAN
         /\ s.autolock_seconds \in Nat \ {0}
BY LimitsAssumption DEF Settings, RawSettings

LEMMA InitialGood ==
  /\ InitialContext \in GoodContexts
  /\ InitialContext.failed_pin_attempts = 0
  /\ InitialContext.lockout_ticks_remaining = 0
  /\ InitialContext.unlocked = FALSE
  /\ InitialContext.wiped = FALSE
BY DEF InitialContext, GoodContexts, ContextType, DeviceStates, ConsistentContext

\* A boot establishes the invariant, whatever settings it loads.
LEMMA BootEstablishes ==
  ASSUME NEW c, c = InitialContext, NEW s \in BootSettings
  PROVE  /\ c \in GoodContexts /\ s \in Settings
         /\ c.failed_pin_attempts = 0 /\ c.lockout_ticks_remaining = 0
         /\ c.unlocked = FALSE /\ c.wiped = FALSE
         /\ 0 < s.pin_attempt_limit /\ 0 < WipeThreshold
BY InitialGood, BootSettingsType, SettingsFacts, LimitsAssumption

LEMMA GateInvInit == GateInit => GateInv
<1>1. SUFFICES ASSUME GateInit PROVE GateInv
  OBVIOUS
<1>2. /\ ctx = InitialContext /\ settings \in BootSettings /\ waited = 0
      /\ verifier = NoVerifier /\ halted = FALSE
  BY <1>1 DEF GateInit, Init
<1>3. /\ ctx \in GoodContexts /\ settings \in Settings
      /\ ctx.failed_pin_attempts = 0 /\ ctx.lockout_ticks_remaining = 0
      /\ ctx.unlocked = FALSE /\ ctx.wiped = FALSE
      /\ 0 < settings.pin_attempt_limit /\ 0 < WipeThreshold
  BY <1>2, BootEstablishes
<1>4. QED
  BY <1>2, <1>3 DEF GateInv, TypeOK, GoodContexts, SessionConsistent, SessionClean,
     WipeNotMissed, DelayAccounted, WipedByFailures, Unprovisioned, HaltsOnlyUnprovisioned

\* A step that keeps every counter, opens no session and changes nothing but
\* the prompt and the inactivity count preserves the invariant.
LEMMA QuietStep ==
  ASSUME GateInv, ctx' \in GoodContexts,
         ctx'.failed_pin_attempts = ctx.failed_pin_attempts,
         ctx'.lockout_ticks_remaining = ctx.lockout_ticks_remaining,
         ctx'.wiped = ctx.wiped,
         ctx'.unlocked => ctx.unlocked,
         UNCHANGED <<settings, verifier, halted>>, ~halted,
         waited' = WaitedAfterStep
  PROVE  GateInv'
<1>1. waited' = waited
  BY DEF WaitedAfterStep, GateInv, TypeOK, ContextType
<1>2. TypeOK' /\ SessionConsistent'
  BY DEF GateInv, TypeOK, GoodContexts, SessionConsistent
<1>3. SessionClean' /\ WipeNotMissed' /\ WipedByFailures' /\ Unprovisioned'
      /\ HaltsOnlyUnprovisioned'
  BY DEF GateInv, SessionClean, WipeNotMissed, WipedByFailures, Unprovisioned,
      HaltsOnlyUnprovisioned
<1>4. DelayAccounted'
  BY <1>1 DEF GateInv, DelayAccounted
<1>5. QED
  BY <1>1, <1>2, <1>3, <1>4 DEF GateInv

LEMMA LockoutTickStep ==
  ASSUME GateInv, ctx.state = "LOCKED_OUT", ctx' = LockoutTick(ctx),
         UNCHANGED <<settings, verifier, halted>>, ~halted,
         waited' = WaitedAfterStep
  PROVE  GateInv'
<1>1. ctx \in GoodContexts
  BY DEF GateInv, TypeOK, SessionConsistent, GoodContexts
<1>2. /\ ctx' \in GoodContexts
      /\ ~ctx'.unlocked
      /\ ctx'.failed_pin_attempts = ctx.failed_pin_attempts
      /\ ctx'.lockout_ticks_remaining =
            IF ctx.wiped THEN 0 ELSE ctx.lockout_ticks_remaining - 1
      /\ ctx'.wiped = ctx.wiped
  BY <1>1, LockoutTickGood
<1>3. /\ ctx.lockout_ticks_remaining \in Nat /\ waited \in Nat
      /\ ~ctx.wiped => ctx.lockout_ticks_remaining > 0
  BY <1>1 DEF GateInv, GoodContexts, ContextType, ConsistentContext
<1>4. waited' \in Nat /\ (~ctx.wiped => waited' = waited + 1)
  BY <1>2, <1>3 DEF WaitedAfterStep
<1>5. TypeOK' /\ SessionConsistent'
  BY <1>2 DEF GateInv, TypeOK, GoodContexts, SessionConsistent
<1>6. SessionClean' /\ WipeNotMissed' /\ WipedByFailures' /\ Unprovisioned'
      /\ HaltsOnlyUnprovisioned'
  BY <1>2 DEF GateInv, SessionClean, WipeNotMissed, WipedByFailures, Unprovisioned,
      HaltsOnlyUnprovisioned
<1>7. ASSUME ~ctx'.wiped
      PROVE  DelayAccounted'
  <2>1. /\ ctx.failed_pin_attempts >= settings.pin_attempt_limit
        /\ waited + ctx.lockout_ticks_remaining =
              LockoutDelay(ctx.failed_pin_attempts, settings)
    BY <1>1, <1>2, <1>3, <1>7, SettingsFacts
    DEF GateInv, TypeOK, ContextType, DelayAccounted
  <2>2. waited' + ctx'.lockout_ticks_remaining = waited + ctx.lockout_ticks_remaining
    BY <1>2, <1>3, <1>4, <1>7
  <2>3. settings.pin_attempt_limit \in Nat /\ ctx.failed_pin_attempts \in Nat
    BY SettingsFacts DEF GateInv, TypeOK, ContextType
  <2>4. QED
    BY <1>2, <2>1, <2>2, <2>3 DEF DelayAccounted, LockoutDelay
<1>8. QED
  BY <1>4, <1>5, <1>6, <1>7 DEF GateInv, DelayAccounted

\* A PIN is examined only with the countdown at zero, hence with the whole
\* debt of the earlier failures served.
LEMMA EvaluatedAfterDebt ==
  ASSUME GateInv, EvaluatesPin(ctx, verifier)
  PROVE  /\ ctx \in GoodContexts
         /\ ctx.wiped = FALSE
         /\ ctx.lockout_ticks_remaining = 0
         /\ ctx.failed_pin_attempts >= settings.pin_attempt_limit =>
               waited = LockoutDelay(ctx.failed_pin_attempts, settings)
         /\ ctx.failed_pin_attempts < settings.pin_attempt_limit => waited = 0
<1>1. ctx \in GoodContexts /\ ctx.wiped = FALSE /\ waited \in Nat
  BY DEF GateInv, TypeOK, ContextType, SessionConsistent, GoodContexts, EvaluatesPin
<1>2. ctx.lockout_ticks_remaining = 0
  BY <1>1 DEF GoodContexts, ContextType, ConsistentContext, EvaluatesPin
<1>3. settings.pin_attempt_limit \in Nat /\ ctx.failed_pin_attempts \in Nat
  BY SettingsFacts DEF GateInv, TypeOK, ContextType
<1>4. QED
  BY <1>1, <1>2, <1>3 DEF GateInv, DelayAccounted

LEMMA CorrectPinStep ==
  ASSUME GateInv, EvaluatesPin(ctx, verifier), ctx' = AfterCorrectPin(ctx),
         UNCHANGED <<settings, verifier>>, halted' = FALSE,
         waited' = WaitedAfterStep
  PROVE  GateInv'
<1>1. /\ ctx' \in GoodContexts
      /\ ctx'.unlocked = TRUE
      /\ ctx'.failed_pin_attempts = 0
      /\ ctx'.lockout_ticks_remaining = 0
      /\ ctx'.wiped = FALSE
  BY EvaluatedAfterDebt, CorrectPinGood
<1>2. settings.pin_attempt_limit \in Nat \ {0} /\ WipeThreshold \in Nat \ {0}
  BY SettingsFacts, LimitsAssumption DEF GateInv, TypeOK
<1>3. waited' = 0
  BY <1>1, <1>2, EvaluatedAfterDebt DEF WaitedAfterStep
<1>4. verifier # NoVerifier
  BY DEF EvaluatesPin
<1>5. TypeOK' /\ SessionConsistent'
  BY <1>1 DEF GateInv, TypeOK, GoodContexts, SessionConsistent
<1>6. SessionClean' /\ WipeNotMissed' /\ WipedByFailures' /\ Unprovisioned'
      /\ HaltsOnlyUnprovisioned'
  BY <1>1, <1>2, <1>4 DEF SessionClean, WipeNotMissed, WipedByFailures, Unprovisioned,
      HaltsOnlyUnprovisioned
<1>7. DelayAccounted'
  BY <1>1, <1>2, <1>3 DEF DelayAccounted
<1>8. QED
  BY <1>3, <1>5, <1>6, <1>7 DEF GateInv

LEMMA WrongPinStep ==
  ASSUME GateInv, EvaluatesPin(ctx, verifier), ctx' = AfterWrongPin(ctx, settings),
         UNCHANGED <<settings, verifier>>, halted' = FALSE,
         waited' = WaitedAfterStep
  PROVE  GateInv'
<1> DEFINE failed == ctx.failed_pin_attempts + 1
<1>1. /\ ctx' \in GoodContexts
      /\ ctx'.unlocked = FALSE
      /\ ctx'.failed_pin_attempts = failed
      /\ ctx'.wiped <=> (settings.wipe_on_lockout /\ failed >= WipeThreshold)
      /\ ~ctx'.wiped =>
            ctx'.lockout_ticks_remaining =
              IF failed < settings.pin_attempt_limit THEN 0 ELSE LockoutDelay(failed, settings)
  <2>1. settings \in Settings
    BY DEF GateInv, TypeOK
  <2>2. ctx \in GoodContexts /\ ctx.wiped = FALSE /\ ctx.lockout_ticks_remaining = 0
    BY EvaluatedAfterDebt
  <2>3. failed \in Nat
    BY DEF GateInv, TypeOK, ContextType
  <2>4. QED
    BY <2>1, <2>2, <2>3, WrongPinGood
<1>2. /\ failed \in Nat /\ failed # ctx.failed_pin_attempts
      /\ settings.pin_attempt_limit \in Nat \ {0} /\ WipeThreshold \in Nat \ {0}
  BY SettingsFacts, LimitsAssumption DEF GateInv, TypeOK, ContextType
<1>3. waited' = 0
  BY <1>1, <1>2 DEF WaitedAfterStep
<1>4. verifier # NoVerifier
  BY DEF EvaluatesPin
<1>5. TypeOK' /\ SessionConsistent'
  BY <1>1 DEF GateInv, TypeOK, GoodContexts, SessionConsistent
<1>6. WipeNotMissed'
  BY <1>1, <1>2 DEF WipeNotMissed
<1>7. SessionClean' /\ WipedByFailures' /\ Unprovisioned' /\ HaltsOnlyUnprovisioned'
  BY <1>1, <1>2, <1>4
  DEF GateInv, TypeOK, ContextType, SessionClean, WipedByFailures, Unprovisioned,
      HaltsOnlyUnprovisioned
<1>8. DelayAccounted'
  <2>1. ASSUME ~ctx'.wiped, failed >= settings.pin_attempt_limit
        PROVE  waited' + ctx'.lockout_ticks_remaining = LockoutDelay(failed, settings)
    <3>1. LockoutDelay(failed, settings) \in Nat
      BY <1>2, <2>1, LockoutDelayPositive DEF GateInv, TypeOK
    <3>2. QED
      BY <1>1, <1>2, <1>3, <2>1, <3>1
  <2>2. ASSUME ~ctx'.wiped, failed < settings.pin_attempt_limit
        PROVE  waited' = 0 /\ ctx'.lockout_ticks_remaining = 0
    BY <1>1, <1>3, <2>2
  <2>3. DelayAccounted' <=>
          (~ctx'.wiped =>
             IF failed < settings.pin_attempt_limit
             THEN waited' = 0 /\ ctx'.lockout_ticks_remaining = 0
             ELSE waited' + ctx'.lockout_ticks_remaining = LockoutDelay(failed, settings))
    BY <1>1 DEF DelayAccounted, LockoutDelay
  <2>4. QED
    BY <1>2, <2>1, <2>2, <2>3
<1>9. QED
  BY <1>3, <1>5, <1>6, <1>7, <1>8 DEF GateInv

LEMMA TryUnlockStep ==
  ASSUME GateInv, NEW pin \in Pins \cup MalformedPins, TryUnlock(pin),
         waited' = WaitedAfterStep
  PROVE  GateInv'
<1>1. CASE EvaluatesPin(ctx, verifier)
  <2>1. halted' = FALSE /\ UNCHANGED <<settings, verifier>>
    BY <1>1 DEF TryUnlock, EvaluatesPin
  <2>2. \/ ctx' = AfterCorrectPin(ctx)
        \/ ctx' = AfterWrongPin(ctx, settings)
    BY <1>1 DEF TryUnlock, AfterTryUnlock
  <2>3. QED
    BY <1>1, <2>1, <2>2, CorrectPinStep, WrongPinStep
<1>2. CASE ~EvaluatesPin(ctx, verifier)
  <2>1. ctx' = ctx /\ UNCHANGED <<settings, verifier>>
    BY <1>2 DEF TryUnlock, AfterTryUnlock
  <2>2. waited' = waited
    BY <2>1 DEF WaitedAfterStep, GateInv, TypeOK, ContextType
  <2>3. halted' = (Production /\ verifier = NoVerifier /\ ~ctx.wiped) /\ ~halted
    BY DEF TryUnlock
  <2>4. halted' \in BOOLEAN
    BY <2>3
  <2>5. HaltsOnlyUnprovisioned'
    <3>1. SUFFICES ASSUME verifier = NoVerifier
                   PROVE  ctx.state = "LOCKED"
      BY <2>1, <2>3 DEF HaltsOnlyUnprovisioned
    <3>2. ctx.failed_pin_attempts = 0 /\ ~ctx.wiped /\ ~ctx.unlocked
      BY <3>1 DEF GateInv, Unprovisioned, SessionClean
    <3>3. ctx.lockout_ticks_remaining = 0
      BY <3>2, SettingsFacts DEF GateInv, TypeOK, DelayAccounted
    <3>4. QED
      BY <3>2, <3>3
      DEF GateInv, TypeOK, ContextType, DeviceStates, SessionConsistent, ConsistentContext
  <2>6. TypeOK' /\ SessionConsistent' /\ SessionClean' /\ WipeNotMissed'
        /\ DelayAccounted' /\ WipedByFailures' /\ Unprovisioned'
    BY <2>1, <2>2, <2>4
    DEF GateInv, TypeOK, SessionConsistent, SessionClean, WipeNotMissed, DelayAccounted,
        WipedByFailures, Unprovisioned
  <2>7. QED
    BY <2>2, <2>5, <2>6 DEF GateInv
<1>3. QED
  BY <1>1, <1>2

LEMMA ApplySettingsStep ==
  ASSUME GateInv, NEW s \in SettingsInputs \cup {OpenGates(settings)}, ApplySettings(s),
         waited' = WaitedAfterStep
  PROVE  GateInv'
<1>1. settings' = Normalise(s) /\ UNCHANGED <<ctx, verifier, halted>> /\ ~halted
  BY DEF ApplySettings
<1>2. settings \in Settings /\ s \in RawSettings
  BY OpenGatesType, InputsAssumption DEF GateInv, TypeOK
<1>3. settings' \in Settings
  BY <1>1, <1>2, NormaliseType
<1>4. waited' = waited
  BY <1>1 DEF WaitedAfterStep, GateInv, TypeOK, ContextType
<1>5. TypeOK' /\ SessionConsistent' /\ SessionClean' /\ WipedByFailures' /\ Unprovisioned'
      /\ HaltsOnlyUnprovisioned'
  BY <1>1, <1>3
  DEF GateInv, TypeOK, SessionConsistent, SessionClean, WipedByFailures, Unprovisioned,
      HaltsOnlyUnprovisioned
<1>6. CASE MayRequest(ctx)
  <2>1. ctx.unlocked /\ ctx.failed_pin_attempts = 0 /\ ctx.lockout_ticks_remaining = 0
    BY <1>6 DEF MayRequest, GateInv, SessionClean
  <2>2. 0 < settings.pin_attempt_limit /\ 0 < settings'.pin_attempt_limit /\ 0 < WipeThreshold
    BY <1>2, <1>3, SettingsFacts, LimitsAssumption
  <2>3. ~ctx.wiped => waited = 0
    BY <2>1, <2>2 DEF GateInv, DelayAccounted
  <2>4. WipeNotMissed' /\ DelayAccounted'
    BY <1>1, <1>4, <2>1, <2>2, <2>3 DEF WipeNotMissed, DelayAccounted
  <2>5. QED
    BY <1>4, <1>5, <2>4 DEF GateInv
<1>7. CASE SameLimits(s, settings)
  <2>1. /\ settings'.pin_attempt_limit = settings.pin_attempt_limit
        /\ settings'.wipe_on_lockout = settings.wipe_on_lockout
    BY <1>1, <1>2, <1>7, SettingsFacts DEF SameLimits, Normalise, RawSettings
  <2>2. WipeNotMissed' /\ DelayAccounted'
    BY <1>1, <1>4, <2>1 DEF GateInv, WipeNotMissed, DelayAccounted, LockoutDelay
  <2>3. QED
    BY <1>4, <1>5, <2>2 DEF GateInv
<1>8. QED
  BY <1>6, <1>7 DEF ApplySettings

LEMMA BootStep ==
  ASSUME GateInv, PowerCycle, waited' = WaitedAfterStep
  PROVE  GateInv'
<1>1. /\ ctx' = InitialContext /\ settings' \in BootSettings
      /\ verifier' = NoVerifier /\ halted' = FALSE
  BY DEF PowerCycle
<1>2. /\ ctx' \in GoodContexts /\ settings' \in Settings
      /\ ctx'.failed_pin_attempts = 0 /\ ctx'.lockout_ticks_remaining = 0
      /\ ctx'.unlocked = FALSE /\ ctx'.wiped = FALSE
      /\ 0 < settings'.pin_attempt_limit /\ 0 < WipeThreshold
  BY <1>1, BootEstablishes
<1>3. waited' = 0
  <2>1. CASE ctx.failed_pin_attempts # 0
    BY <1>2, <2>1 DEF WaitedAfterStep
  <2>2. CASE ctx.failed_pin_attempts = 0
    <3>1. waited = 0 /\ ctx.lockout_ticks_remaining = 0
      BY <2>2, SettingsFacts DEF GateInv, TypeOK, DelayAccounted, WipedByFailures
    <3>2. QED
      BY <1>2, <2>2, <3>1 DEF WaitedAfterStep
  <2>3. QED
    BY <2>1, <2>2
<1>4. TypeOK' /\ SessionConsistent'
  BY <1>1, <1>2 DEF TypeOK, GoodContexts, SessionConsistent
<1>5. SessionClean' /\ WipeNotMissed' /\ WipedByFailures' /\ Unprovisioned'
      /\ HaltsOnlyUnprovisioned'
  BY <1>1, <1>2 DEF SessionClean, WipeNotMissed, WipedByFailures, Unprovisioned,
      HaltsOnlyUnprovisioned
<1>6. DelayAccounted'
  BY <1>2, <1>3 DEF DelayAccounted
<1>7. QED
  BY <1>3, <1>4, <1>5, <1>6 DEF GateInv

\* The steps that touch the prompt only: gestures, requests, locking.
LEMMA PromptStep ==
  ASSUME GateInv, waited' = WaitedAfterStep,
         \/ TouchTap \/ TouchHold \/ Lock
         \/ \E rec \in Records, origin \in Origins : RequestFill(rec, origin)
         \/ \E rec \in Records : RequestSave(rec)
  PROVE  GateInv'
<1>1. ctx \in GoodContexts /\ settings \in Settings
  BY DEF GateInv, TypeOK, SessionConsistent, GoodContexts
<1>2. CASE TouchTap
  <2>1. ctx' = AfterGesture(ctx, TapTransition)
        /\ UNCHANGED <<settings, verifier, halted>> /\ ~halted
    BY <1>2 DEF TouchTap, AfterTouchTap
  <2>2. /\ DOMAIN TapTransition \subseteq DeviceStates
        /\ \A st \in DOMAIN TapTransition :
             TapTransition[st] \in DeviceStates \ {"LOCKED", "LOCKED_OUT"}
    BY DEF TapTransition, DeviceStates
  <2>3. QED
    BY <1>1, <2>1, <2>2, GestureGood, QuietStep
<1>3. CASE TouchHold
  <2>1. ctx' = AfterGesture(ctx, HoldTransition)
        /\ UNCHANGED <<settings, verifier, halted>> /\ ~halted
    BY <1>3 DEF TouchHold, AfterTouchHold
  <2>2. /\ DOMAIN HoldTransition \subseteq DeviceStates
        /\ \A st \in DOMAIN HoldTransition :
             HoldTransition[st] \in DeviceStates \ {"LOCKED", "LOCKED_OUT"}
    BY DEF HoldTransition, DeviceStates
  <2>3. QED
    BY <1>1, <2>1, <2>2, GestureGood, QuietStep
<1>4. CASE Lock
  BY <1>1, <1>4, ResetGood, QuietStep DEF Lock
<1>5. ASSUME NEW rec \in Records, NEW origin \in Origins, RequestFill(rec, origin)
      PROVE  GateInv'
  <2>1. MayRequest(ctx)
    BY <1>5 DEF RequestFill, FillAllowed
  <2>2. \/ ctx' = [ctx EXCEPT !.inactivity_seconds = 0, !.state = "PROMPT_FILL"]
        \/ ctx' = [ctx EXCEPT !.inactivity_seconds = 0, !.state = "CONFIRM_TYPE"]
    BY <1>5 DEF RequestFill, AfterRequestFill
  <2>3. /\ "PROMPT_FILL" \in DeviceStates \ {"LOCKED", "LOCKED_OUT"}
        /\ "CONFIRM_TYPE" \in DeviceStates \ {"LOCKED", "LOCKED_OUT"}
    BY DEF DeviceStates
  <2>4. /\ ctx' \in GoodContexts /\ ctx'.unlocked = ctx.unlocked
        /\ ctx'.failed_pin_attempts = ctx.failed_pin_attempts
        /\ ctx'.lockout_ticks_remaining = ctx.lockout_ticks_remaining
        /\ ctx'.wiped = ctx.wiped
    <3>1. CASE ctx' = [ctx EXCEPT !.inactivity_seconds = 0, !.state = "PROMPT_FILL"]
      BY <1>1, <2>1, <2>3, <3>1, RequestGood
    <3>2. CASE ctx' = [ctx EXCEPT !.inactivity_seconds = 0, !.state = "CONFIRM_TYPE"]
      BY <1>1, <2>1, <2>3, <3>2, RequestGood
    <3>3. QED
      BY <2>2, <3>1, <3>2
  <2>5. UNCHANGED <<settings, verifier, halted>> /\ ~halted
    BY <1>5 DEF RequestFill
  <2>6. QED
    BY <2>4, <2>5, QuietStep
<1>6. ASSUME NEW rec \in Records, RequestSave(rec)
      PROVE  GateInv'
  <2>1. /\ MayRequest(ctx)
        /\ ctx' = [ctx EXCEPT !.inactivity_seconds = 0, !.state = "PROMPT_SAVE"]
        /\ UNCHANGED <<settings, verifier, halted>> /\ ~halted
    BY <1>6 DEF RequestSave, SaveAllowed, AfterRequestSave
  <2>2. "PROMPT_SAVE" \in DeviceStates \ {"LOCKED", "LOCKED_OUT"}
    BY DEF DeviceStates
  <2>3. /\ ctx' \in GoodContexts /\ ctx'.unlocked = ctx.unlocked
        /\ ctx'.failed_pin_attempts = ctx.failed_pin_attempts
        /\ ctx'.lockout_ticks_remaining = ctx.lockout_ticks_remaining
        /\ ctx'.wiped = ctx.wiped
    BY <1>1, <2>1, <2>2, RequestGood
  <2>4. QED
    BY <2>1, <2>3, QuietStep
<1>7. QED
  BY <1>2, <1>3, <1>4, <1>5, <1>6

\* Providing a verifier, or replacing it from inside a session.
LEMMA VerifierStep ==
  ASSUME GateInv, waited' = WaitedAfterStep,
         \/ \E v \in Pins : SetPinVerifier(v)
         \/ \E old, new \in Pins \cup MalformedPins : SetPin(old, new)
  PROVE  GateInv'
<1>1. /\ UNCHANGED <<ctx, settings, halted>> /\ ~halted
      /\ verifier' \in Pins
  BY DEF SetPinVerifier, SetPin, SetPinAllowed
<1>2. verifier' # NoVerifier
  BY <1>1, PinsAssumption
<1>3. waited' = waited
  BY <1>1 DEF WaitedAfterStep, GateInv, TypeOK, ContextType
<1>4. QED
  BY <1>1, <1>2, <1>3
  DEF GateInv, TypeOK, SessionConsistent, SessionClean, WipeNotMissed, DelayAccounted,
      WipedByFailures, Unprovisioned, HaltsOnlyUnprovisioned, LockoutDelay

LEMMA TickStep ==
  ASSUME GateInv, Tick, waited' = WaitedAfterStep
  PROVE  GateInv'
<1>1. /\ ctx' = AfterTick(ctx, settings)
      /\ UNCHANGED <<settings, verifier, halted>> /\ ~halted
  BY DEF Tick
<1>2. ctx \in GoodContexts /\ settings \in Settings
  BY DEF GateInv, TypeOK, SessionConsistent, GoodContexts
<1>3. CASE ctx.state = "LOCKED_OUT"
  BY <1>1, <1>3, LockoutTickStep DEF AfterTick
<1>4. CASE ctx.state # "LOCKED_OUT" /\ ctx.unlocked
  BY <1>1, <1>2, <1>4, SessionTickGood, QuietStep DEF AfterTick
<1>5. CASE ctx.state # "LOCKED_OUT" /\ ~ctx.unlocked
  BY <1>1, <1>2, <1>5, QuietStep DEF AfterTick
<1>6. QED
  BY <1>3, <1>4, <1>5

LEMMA GateInvNext == GateInv /\ [GateNext]_gvars => GateInv'
<1>1. SUFFICES ASSUME GateInv, [GateNext]_gvars PROVE GateInv'
  OBVIOUS
<1>2. CASE UNCHANGED gvars
  BY <1>1, <1>2
  DEF gvars, GateInv, TypeOK, SessionConsistent, SessionClean, WipeNotMissed,
      DelayAccounted, WipedByFailures, Unprovisioned, HaltsOnlyUnprovisioned, LockoutDelay
<1>3. CASE Next /\ waited' = WaitedAfterStep
  <2>1. CASE PowerCycle
    BY <1>1, <1>3, <2>1, BootStep
  <2>2. CASE Tick
    BY <1>1, <1>3, <2>2, TickStep
  <2>3. CASE TouchTap \/ TouchHold \/ Lock
    BY <1>1, <1>3, <2>3, PromptStep
  <2>4. CASE \E rec \in Records, origin \in Origins : RequestFill(rec, origin)
    BY <1>1, <1>3, <2>4, PromptStep
  <2>5. CASE \E rec \in Records : RequestSave(rec)
    BY <1>1, <1>3, <2>5, PromptStep
  <2>6. CASE \E pin \in Pins \cup MalformedPins : TryUnlock(pin)
    BY <1>1, <1>3, <2>6, TryUnlockStep
  <2>7. CASE \E old, new \in Pins \cup MalformedPins : SetPin(old, new)
    BY <1>1, <1>3, <2>7, VerifierStep
  <2>8. CASE \E s \in SettingsInputs \cup {OpenGates(settings)} : ApplySettings(s)
    BY <1>1, <1>3, <2>8, ApplySettingsStep
  <2>9. CASE \E v \in Pins : SetPinVerifier(v)
    BY <1>1, <1>3, <2>9, VerifierStep
  <2>10. QED
    BY <1>3, <2>1, <2>2, <2>3, <2>4, <2>5, <2>6, <2>7, <2>8, <2>9 DEF Next
<1>4. QED
  BY <1>1, <1>2, <1>3 DEF GateNext

LEMMA GateInvariant == GateSpec => []GateInv
BY GateInvInit, GateInvNext, PTL DEF GateSpec

\* Every variable keeps its type (state_machine.c, every entry point).
THEOREM TypeCorrect == GateSpec => []TypeOK
<1>1. GateInv => TypeOK
  BY DEF GateInv
<1>2. QED
  BY <1>1, GateInvariant, PTL

\* The flags, the state and the countdown never disagree.
THEOREM Consistent == GateSpec => []SessionConsistent
<1>1. GateInv => SessionConsistent
  BY DEF GateInv
<1>2. QED
  BY <1>1, GateInvariant, PTL

\* An open session carries no failure and no countdown, and has a verifier.
THEOREM Clean == GateSpec => []SessionClean
<1>1. GateInv => SessionClean
  BY DEF GateInv
<1>2. QED
  BY <1>1, GateInvariant, PTL

\* Under a wiping policy the threshold is never reached without wiping.
THEOREM Wipes == GateSpec => []WipeNotMissed
<1>1. GateInv => WipeNotMissed
  BY DEF GateInv
<1>2. QED
  BY <1>1, GateInvariant, PTL

\* The countdown and the ticks served make up the owed delay.
THEOREM Accounted == GateSpec => []DelayAccounted
<1>1. GateInv => DelayAccounted
  BY DEF GateInv
<1>2. QED
  BY <1>1, GateInvariant, PTL

\* Error_Handler is entered only by a device that has no verifier.
THEOREM Halts == GateSpec => []HaltsOnlyUnprovisioned
<1>1. GateInv => HaltsOnlyUnprovisioned
  BY DEF GateInv
<1>2. QED
  BY <1>1, GateInvariant, PTL

-----------------------------------------------------------------------------
(***************************************************************************)
(* The refinement of PinGate.  One lemma per kind of step says which step  *)
(* of the gate it is; GateInv supplies the debt that a PIN entry meets.    *)
(***************************************************************************)

PolicyKept ==
    /\ settings'.pin_attempt_limit = settings.pin_attempt_limit
    /\ settings'.wipe_on_lockout = settings.wipe_on_lockout

CountersKept ==
    /\ ctx'.failed_pin_attempts = ctx.failed_pin_attempts
    /\ ctx'.lockout_ticks_remaining = ctx.lockout_ticks_remaining
    /\ ctx'.wiped = ctx.wiped

LEMMA KeptWaits ==
  ASSUME GateInv, CountersKept, waited' = WaitedAfterStep
  PROVE  waited' = waited
BY DEF GateInv, TypeOK, ContextType, CountersKept, WaitedAfterStep

LEMMA GateStutters ==
  ASSUME GateInv, CountersKept, PolicyKept, waited' = WaitedAfterStep,
         ctx'.unlocked = ctx.unlocked
  PROVE  UNCHANGED Gate!vars
<1>1. waited' = waited
  BY KeptWaits
<1>2. UNCHANGED <<Phase, Policy, ctx.failed_pin_attempts>>
  BY DEF CountersKept, PolicyKept, Phase, Policy
<1>3. QED
  BY <1>1, <1>2 DEF Gate!vars

\* Closing a session leaves the counters, and the policy, as they are.
LEMMA GateCloses ==
  ASSUME GateInv, CountersKept, PolicyKept, waited' = WaitedAfterStep,
         ~ctx'.unlocked
  PROVE  [Gate!Next]_Gate!vars
<1>1. CASE ctx.unlocked
  <2>1. waited' = waited
    BY KeptWaits
  <2>2. ctx.wiped = FALSE
    BY <1>1 DEF GateInv, TypeOK, ContextType, SessionConsistent, ConsistentContext
  <2>3. Phase = "open" /\ Phase' = "closed"
    BY <1>1, <2>2 DEF Phase, CountersKept
  <2>4. UNCHANGED <<Policy, ctx.failed_pin_attempts>>
    BY DEF CountersKept, PolicyKept, Policy
  <2>5. Gate!Close
    BY <2>1, <2>3, <2>4 DEF Gate!Close
  <2>6. QED
    BY <2>5 DEF Gate!Next
<1>2. CASE ~ctx.unlocked
  <2>1. ctx'.unlocked \in BOOLEAN => ctx'.unlocked = ctx.unlocked
    BY <1>2 DEF GateInv, TypeOK, ContextType
  <2>2. UNCHANGED <<Phase, Policy, ctx.failed_pin_attempts>> /\ waited' = waited
    BY <1>2, KeptWaits DEF CountersKept, PolicyKept, Phase, Policy
  <2>3. QED
    BY <2>2 DEF Gate!vars
<1>3. QED
  BY <1>1, <1>2

\* A PIN is examined only when the gate admits an attempt.
LEMMA EvaluatedMayAttempt ==
  ASSUME GateInv, EvaluatesPin(ctx, verifier)
  PROVE  Gate!MayAttempt
<1>1. /\ settings.pin_attempt_limit \in Nat /\ ctx.failed_pin_attempts \in Nat
      /\ waited \in Nat
  BY SettingsFacts DEF GateInv, TypeOK, ContextType
<1>2. Phase # "wiped"
  BY EvaluatedAfterDebt DEF Phase
<1>3. CASE ctx.failed_pin_attempts < settings.pin_attempt_limit
  <2>1. Gate!Owed(ctx.failed_pin_attempts) = 0
    BY <1>3 DEF Gate!Owed, Policy
  <2>2. QED
    BY <1>1, <1>2, <2>1 DEF Gate!MayAttempt
<1>4. CASE ctx.failed_pin_attempts >= settings.pin_attempt_limit
  <2>1. waited = LockoutDelay(ctx.failed_pin_attempts, settings)
    BY <1>4, EvaluatedAfterDebt
  <2>2. Gate!Owed(ctx.failed_pin_attempts) = LockoutDelay(ctx.failed_pin_attempts, settings)
    BY <1>1, <1>4 DEF Gate!Owed, Policy, LockoutDelay
  <2>3. QED
    BY <1>1, <1>2, <2>1, <2>2 DEF Gate!MayAttempt
<1>5. QED
  BY <1>1, <1>3, <1>4

LEMMA TryUnlockGate ==
  ASSUME GateInv, NEW pin \in Pins \cup MalformedPins, TryUnlock(pin),
         waited' = WaitedAfterStep
  PROVE  [Gate!Next]_Gate!vars
<1>1. PolicyKept /\ UNCHANGED Policy
  BY DEF TryUnlock, PolicyKept, Policy
<1>2. settings \in Settings /\ settings.pin_attempt_limit \in Nat \ {0}
  BY SettingsFacts DEF GateInv, TypeOK
<1>3. CASE ~EvaluatesPin(ctx, verifier)
  <2>1. ctx' = ctx
    BY <1>3 DEF TryUnlock, AfterTryUnlock
  <2>2. QED
    BY <1>1, <2>1, GateStutters DEF CountersKept
<1>4. CASE EvaluatesPin(ctx, verifier) /\ ctx' = AfterCorrectPin(ctx)
  <2>1. /\ ctx'.unlocked = TRUE /\ ctx'.wiped = FALSE
        /\ ctx'.failed_pin_attempts = 0 /\ ctx'.lockout_ticks_remaining = 0
    BY <1>4, EvaluatedAfterDebt, CorrectPinGood
  <2>2. waited' = 0
    BY <1>2, <1>4, <2>1, EvaluatedAfterDebt DEF WaitedAfterStep
  <2>3. Phase' = "open"
    BY <2>1 DEF Phase
  <2>4. Gate!Succeed
    BY <1>1, <1>4, <2>1, <2>2, <2>3, EvaluatedMayAttempt DEF Gate!Succeed
  <2>5. QED
    BY <2>4 DEF Gate!Next
<1>5. CASE EvaluatesPin(ctx, verifier) /\ ctx' = AfterWrongPin(ctx, settings)
  <2>1. /\ ctx \in GoodContexts /\ ctx.wiped = FALSE /\ ctx.lockout_ticks_remaining = 0
        /\ ctx.failed_pin_attempts \in Nat /\ ctx.failed_pin_attempts + 1 \in Nat
    <3>1. ctx.failed_pin_attempts \in Nat /\ ctx.failed_pin_attempts + 1 \in Nat
      BY DEF GateInv, TypeOK, ContextType
    <3>2. QED
      BY <1>5, <3>1, EvaluatedAfterDebt
  <2>2. /\ ctx'.unlocked = FALSE
        /\ ctx'.failed_pin_attempts = ctx.failed_pin_attempts + 1
        /\ ctx'.wiped <=> (settings.wipe_on_lockout
                             /\ ctx.failed_pin_attempts + 1 >= WipeThreshold)
    BY <1>2, <1>5, <2>1, WrongPinGood
  <2>3. waited' = 0
    BY <2>1, <2>2 DEF WaitedAfterStep
  <2>4. Phase' = IF Policy.wipe /\ ctx.failed_pin_attempts + 1 >= WipeThreshold
                 THEN "wiped" ELSE "closed"
    BY <2>2 DEF Phase, Policy
  <2>5. Gate!Fail
    BY <1>1, <1>5, <2>2, <2>3, <2>4, EvaluatedMayAttempt DEF Gate!Fail
  <2>6. QED
    BY <2>5 DEF Gate!Next
<1>6. QED
  BY <1>3, <1>4, <1>5 DEF TryUnlock, AfterTryUnlock

LEMMA TickGate ==
  ASSUME GateInv, Tick, waited' = WaitedAfterStep
  PROVE  [Gate!Next]_Gate!vars
<1>1. PolicyKept /\ UNCHANGED Policy
  BY DEF Tick, PolicyKept, Policy
<1>2. ctx \in GoodContexts /\ settings \in Settings
  BY DEF GateInv, TypeOK, SessionConsistent, GoodContexts
<1>3. CASE ctx.state = "LOCKED_OUT"
  <2>1. /\ ctx' = LockoutTick(ctx) /\ ctx.unlocked = FALSE
        /\ ctx.lockout_ticks_remaining \in Nat /\ waited \in Nat
    BY <1>2, <1>3 DEF Tick, AfterTick, GoodContexts, ContextType, ConsistentContext, GateInv
  <2>2. /\ ~ctx'.unlocked
        /\ ctx'.failed_pin_attempts = ctx.failed_pin_attempts
        /\ ctx'.lockout_ticks_remaining =
              IF ctx.wiped THEN 0 ELSE ctx.lockout_ticks_remaining - 1
        /\ ctx'.wiped = ctx.wiped
    BY <1>2, <1>3, <2>1, LockoutTickGood
  <2>3. CASE ctx.wiped
    <3>1. ctx.lockout_ticks_remaining = 0
      BY <1>2, <2>1, <2>3 DEF GoodContexts, ConsistentContext
    <3>2. CountersKept
      BY <2>2, <2>3, <3>1 DEF CountersKept
    <3>3. QED
      BY <1>1, <2>2, <3>2, GateCloses
  <2>4. CASE ~ctx.wiped
    <3>1. /\ ctx.lockout_ticks_remaining > 0
          /\ ctx.failed_pin_attempts \in Nat /\ settings.pin_attempt_limit \in Nat
      BY <1>2, <1>3, <2>4, SettingsFacts DEF GoodContexts, ContextType, ConsistentContext
    <3>2. /\ ctx.failed_pin_attempts >= settings.pin_attempt_limit
          /\ waited + ctx.lockout_ticks_remaining =
                LockoutDelay(ctx.failed_pin_attempts, settings)
      BY <2>1, <2>4, <3>1 DEF GateInv, DelayAccounted
    <3>3. Gate!Owed(ctx.failed_pin_attempts) = LockoutDelay(ctx.failed_pin_attempts, settings)
      BY <3>1, <3>2 DEF Gate!Owed, Policy, LockoutDelay
    <3>4. waited' = waited + 1
      BY <2>1, <2>2, <2>4, <3>1 DEF WaitedAfterStep
    <3>5. Phase = "closed" /\ Phase' = "closed"
      BY <2>1, <2>2, <2>4 DEF Phase
    <3>6. waited < Gate!Owed(ctx.failed_pin_attempts)
      BY <2>1, <3>1, <3>2, <3>3
    <3>7. Gate!Serve
      BY <1>1, <2>2, <3>4, <3>5, <3>6 DEF Gate!Serve
    <3>8. QED
      BY <3>7 DEF Gate!Next
  <2>5. QED
    BY <2>3, <2>4
<1>4. CASE ctx.state # "LOCKED_OUT" /\ ctx.unlocked
  <2>1. ctx' = SessionTick(ctx, settings)
    BY <1>4 DEF Tick, AfterTick
  <2>2. CountersKept
    BY <1>2, <1>4, <2>1, SessionTickGood DEF CountersKept
  <2>3. CASE ctx' = ResetUnlockSession(ctx)
    <3>1. ~ctx'.unlocked
      BY <1>2, <2>3, ResetGood
    <3>2. QED
      BY <1>1, <2>2, <3>1, GateCloses
  <2>4. CASE ctx' = [ctx EXCEPT !.inactivity_seconds = @ + 1]
    <3>1. ctx'.unlocked = ctx.unlocked
      BY <1>2, <2>4 DEF GoodContexts, ContextType
    <3>2. QED
      BY <1>1, <2>2, <3>1, GateStutters
  <2>5. QED
    BY <2>1, <2>3, <2>4 DEF SessionTick
<1>5. CASE ctx.state # "LOCKED_OUT" /\ ~ctx.unlocked
  <2>1. ctx' = ctx
    BY <1>5 DEF Tick, AfterTick
  <2>2. QED
    BY <1>1, <2>1, GateStutters DEF CountersKept
<1>6. QED
  BY <1>3, <1>4, <1>5

\* Gestures and requests never move the gate; locking closes it.
LEMMA PromptGate ==
  ASSUME GateInv, waited' = WaitedAfterStep,
         \/ TouchTap \/ TouchHold \/ Lock
         \/ \E rec \in Records, origin \in Origins : RequestFill(rec, origin)
         \/ \E rec \in Records : RequestSave(rec)
  PROVE  [Gate!Next]_Gate!vars
<1>1. ctx \in GoodContexts /\ ctx \in ContextType
  BY DEF GateInv, TypeOK, SessionConsistent, GoodContexts
<1>2. CASE TouchTap \/ TouchHold
  <2>1. CountersKept /\ PolicyKept /\ ctx'.unlocked = ctx.unlocked
    BY <1>1, <1>2
    DEF TouchTap, TouchHold, AfterTouchTap, AfterTouchHold, AfterGesture, ContextType,
        CountersKept, PolicyKept
  <2>2. QED
    BY <2>1, GateStutters
<1>3. CASE Lock
  <2>1. CountersKept /\ PolicyKept /\ ~ctx'.unlocked
    BY <1>1, <1>3, ResetGood DEF Lock, CountersKept, PolicyKept
  <2>2. QED
    BY <2>1, GateCloses
<1>4. CASE \/ \E rec \in Records, origin \in Origins : RequestFill(rec, origin)
           \/ \E rec \in Records : RequestSave(rec)
  <2>1. CountersKept /\ PolicyKept /\ ctx'.unlocked = ctx.unlocked
    BY <1>1, <1>4
    DEF RequestFill, RequestSave, AfterRequestFill, AfterRequestSave, ContextType,
        CountersKept, PolicyKept
  <2>2. QED
    BY <2>1, GateStutters
<1>5. QED
  BY <1>2, <1>3, <1>4

LEMMA VerifierGate ==
  ASSUME GateInv, waited' = WaitedAfterStep,
         \/ \E v \in Pins : SetPinVerifier(v)
         \/ \E old, new \in Pins \cup MalformedPins : SetPin(old, new)
  PROVE  [Gate!Next]_Gate!vars
<1>1. CountersKept /\ PolicyKept /\ ctx'.unlocked = ctx.unlocked
  BY DEF SetPinVerifier, SetPin, CountersKept, PolicyKept
<1>2. QED
  BY <1>1, GateStutters

\* The policy changes with the gate open, or not at all.
LEMMA ApplySettingsGate ==
  ASSUME GateInv, NEW s \in SettingsInputs \cup {OpenGates(settings)}, ApplySettings(s),
         waited' = WaitedAfterStep
  PROVE  [Gate!Next]_Gate!vars
<1>1. settings' = Normalise(s) /\ UNCHANGED ctx
  BY DEF ApplySettings
<1>2. settings \in Settings /\ s \in RawSettings
  BY OpenGatesType, InputsAssumption DEF GateInv, TypeOK
<1>3. CASE MayRequest(ctx)
  <2>1. settings' \in Settings
    BY <1>1, <1>2, NormaliseType
  <2>2. Policy' \in Gate!Policies
    BY <2>1, SettingsFacts DEF Policy, Gate!Policies
  <2>3. waited' = waited
    BY <1>1, KeptWaits DEF CountersKept
  <2>4. Phase = "open" /\ UNCHANGED <<Phase, ctx.failed_pin_attempts>>
    BY <1>1, <1>3 DEF MayRequest, Phase
  <2>5. Gate!ChangePolicy
    BY <2>2, <2>3, <2>4 DEF Gate!ChangePolicy
  <2>6. QED
    BY <2>5 DEF Gate!Next
<1>4. CASE SameLimits(s, settings)
  <2>1. PolicyKept
    BY <1>1, <1>2, <1>4, SettingsFacts DEF SameLimits, Normalise, RawSettings, PolicyKept
  <2>2. QED
    BY <1>1, <2>1, GateStutters DEF CountersKept
<1>5. QED
  BY <1>3, <1>4 DEF ApplySettings

LEMMA BootGate ==
  ASSUME NEW c, c = InitialContext, NEW s \in BootSettings
  PROVE  /\ c.failed_pin_attempts = 0 /\ ~c.wiped /\ ~c.unlocked
         /\ [limit |-> s.pin_attempt_limit, wipe |-> s.wipe_on_lockout] \in Gate!Policies
<1>1. s \in Settings
  BY BootSettingsType
<1>2. QED
  BY <1>1, InitialGood, SettingsFacts DEF Gate!Policies

LEMMA PowerCycleGate ==
  ASSUME GateInv, PowerCycle, waited' = WaitedAfterStep
  PROVE  [Gate!Next]_Gate!vars
<1>1. ctx' = InitialContext /\ settings' \in BootSettings
  BY DEF PowerCycle
<1>2. ctx'.failed_pin_attempts = 0 /\ Phase' = "closed" /\ Policy' \in Gate!Policies
  BY <1>1, BootGate DEF Phase, Policy
<1>3. waited' = 0
  <2>1. CASE ctx.failed_pin_attempts # 0
    BY <1>2, <2>1 DEF WaitedAfterStep
  <2>2. CASE ctx.failed_pin_attempts = 0
    <3>1. waited = 0 /\ ctx.lockout_ticks_remaining = 0
      BY <2>2, SettingsFacts DEF GateInv, TypeOK, DelayAccounted, WipedByFailures
    <3>2. ctx'.lockout_ticks_remaining = 0
      BY <1>1, InitialGood
    <3>3. QED
      BY <1>2, <2>2, <3>1, <3>2 DEF WaitedAfterStep
  <2>3. QED
    BY <2>1, <2>2
<1>4. Gate!PowerCycle
  BY <1>2, <1>3 DEF Gate!PowerCycle
<1>5. QED
  BY <1>4 DEF Gate!Next

LEMMA GateStep == GateInv /\ [GateNext]_gvars => [Gate!Next]_Gate!vars
<1>1. SUFFICES ASSUME GateInv, [GateNext]_gvars PROVE [Gate!Next]_Gate!vars
  OBVIOUS
<1>2. CASE UNCHANGED gvars
  BY <1>2 DEF gvars, Gate!vars, Phase, Policy
<1>3. CASE Next /\ waited' = WaitedAfterStep
  <2>1. CASE PowerCycle
    BY <1>1, <1>3, <2>1, PowerCycleGate
  <2>2. CASE Tick
    BY <1>1, <1>3, <2>2, TickGate
  <2>3. CASE TouchTap \/ TouchHold \/ Lock
    BY <1>1, <1>3, <2>3, PromptGate
  <2>4. CASE \E rec \in Records, origin \in Origins : RequestFill(rec, origin)
    BY <1>1, <1>3, <2>4, PromptGate
  <2>5. CASE \E rec \in Records : RequestSave(rec)
    BY <1>1, <1>3, <2>5, PromptGate
  <2>6. CASE \E pin \in Pins \cup MalformedPins : TryUnlock(pin)
    BY <1>1, <1>3, <2>6, TryUnlockGate
  <2>7. CASE \E old, new \in Pins \cup MalformedPins : SetPin(old, new)
    BY <1>1, <1>3, <2>7, VerifierGate
  <2>8. CASE \E s \in SettingsInputs \cup {OpenGates(settings)} : ApplySettings(s)
    BY <1>1, <1>3, <2>8, ApplySettingsGate
  <2>9. CASE \E v \in Pins : SetPinVerifier(v)
    BY <1>1, <1>3, <2>9, VerifierGate
  <2>10. QED
    BY <1>3, <2>1, <2>2, <2>3, <2>4, <2>5, <2>6, <2>7, <2>8, <2>9 DEF Next
<1>4. QED
  BY <1>1, <1>2, <1>3 DEF GateNext

\* The device implements the gate: from the limit-th failure on, a PIN is
\* examined only after the delay owed has been served, the failure that reaches
\* the threshold of a wiping policy wipes, and the policy changes only while
\* the gate is open.
THEOREM Implements == GateSpec => ImplementsGate
<1>1. GateInit => Gate!Init
  <2>1. SUFFICES ASSUME GateInit PROVE Gate!Init
    OBVIOUS
  <2>2. ctx = InitialContext /\ settings \in BootSettings /\ waited = 0
    BY <2>1 DEF GateInit, Init
  <2>3. ctx.failed_pin_attempts = 0 /\ Phase = "closed" /\ Policy \in Gate!Policies
    BY <2>2, BootGate DEF Phase, Policy
  <2>4. QED
    BY <2>2, <2>3 DEF Gate!Init
<1>2. QED
  BY <1>1, GateStep, GateInvariant, PTL DEF GateSpec, ImplementsGate, Gate!Spec

=============================================================================
