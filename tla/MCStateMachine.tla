--------------------------- MODULE MCStateMachine ---------------------------
(***************************************************************************)
(* Instances of StateMachine (and its history extension) for TLC: the      *)
(* limits and delays of the source, a short autolock, records that pass    *)
(* and fail each check, and settings that need normalising.                *)
(***************************************************************************)
EXTENDS StateMachineGate

MCRecords ==
    {[origin |-> "siteA", safe |-> TRUE, savable |-> TRUE, requires_touch |-> TRUE],
     [origin |-> "siteA", safe |-> TRUE, savable |-> FALSE, requires_touch |-> FALSE],
     [origin |-> "siteB", safe |-> FALSE, savable |-> TRUE, requires_touch |-> TRUE]}

\* Zero autolock and an unknown limit; a strict wiping policy; a lax one that
\* wipes at the very failure that first locks out.
MCSettings ==
    {[auto_popup_enabled |-> FALSE, manual_popup_requires_touch |-> TRUE,
      require_touch_for_fill |-> FALSE, autolock_seconds |-> 0,
      pin_attempt_limit |-> 4, wipe_on_lockout |-> FALSE],
     [auto_popup_enabled |-> TRUE, manual_popup_requires_touch |-> FALSE,
      require_touch_for_fill |-> TRUE, autolock_seconds |-> 2,
      pin_attempt_limit |-> 3, wipe_on_lockout |-> TRUE],
     [auto_popup_enabled |-> TRUE, manual_popup_requires_touch |-> FALSE,
      require_touch_for_fill |-> FALSE, autolock_seconds |-> 3,
      pin_attempt_limit |-> 10, wipe_on_lockout |-> TRUE]}

=============================================================================
