--------------------------- MODULE MCActionEngine ---------------------------
(***************************************************************************)
(* ActionEngine for TLC.  An entry cannot tell the two long usernames      *)
(* apart, and there is a password of each class.  PIN limits, delays and   *)
(* the rate window are small.                                              *)
(***************************************************************************)
EXTENDS ActionEngine, FiniteSets

MCTruncate == [u \in Usernames |-> IF u = "longname2" THEN "longname1" ELSE u]

MCGenerated == [o \in Origins |-> "generated"]

Command(type, nonce, origin, username, password) ==
    [type |-> type, nonce |-> nonce, origin |-> origin,
     username |-> username, password |-> password]

\* Fills, saves and selections that stay pending, under nonces that repeat and go
\* back, on commands that some states refuse.
MCCommands ==
    {Command("FILL", 0, "site", NoUsername, NoPassword),
     Command("SAVE", 1, "other", "longname1", "common"),
     Command("SELECT", 2, "site", NoUsername, NoPassword)}

\* Names that are one once cut; with the host's and the generated ones there are
\* more accounts than entries.
MCLogins == {<<"site", "longname2", "strong">>, <<"site", "longname1", "short">>}

\* The owner's wish for a wiping policy, under the manual button gate.
MCSettings ==
    {[auto_popup_enabled |-> FALSE, manual_popup_requires_touch |-> TRUE,
      require_touch_for_fill |-> TRUE, autolock_seconds |-> 1,
      pin_attempt_limit |-> 1, wipe_on_lockout |-> TRUE]}

=============================================================================
