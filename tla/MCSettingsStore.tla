--------------------------- MODULE MCSettingsStore ---------------------------
(***************************************************************************)
(* SettingsStore for TLC: two values of each setting, one of them zero for *)
(* the autolock, room for one TOTP account and generations that let every  *)
(* order of two slots and a reset after each cut occur.                    *)
(***************************************************************************)
EXTENDS SettingsStore

MCRecords ==
    {[kind |-> "settings",
      settings |-> [autolock |-> DefaultAutolock, limit |-> limit]] : limit \in Limits}
    \cup {[kind |-> "totp"]}

=============================================================================
