----------------------------- MODULE AccountMap -----------------------------
(***************************************************************************)
(* What the credential store promises: a bounded map from accounts (an     *)
(* origin and a username) to passwords.  Saving sets the password of one   *)
(* account and disturbs no other; it is refused only for a new account     *)
(* when the map is full.                                                   *)
(***************************************************************************)
EXTENDS Naturals, FiniteSets

CONSTANTS Accounts, Passwords, VaultCapacity

VARIABLE map  \* from the stored accounts to their passwords

Init == map = [a \in {} |-> 0]

Put(account, password) ==
    /\ account \in DOMAIN map \/ Cardinality(DOMAIN map) < VaultCapacity
    /\ map' = [a \in DOMAIN map \cup {account} |->
                 IF a = account THEN password ELSE map[a]]

Erase == map' = [a \in {} |-> 0]

Next ==
    \/ \E account \in Accounts, password \in Passwords : Put(account, password)
    \/ Erase

Spec == Init /\ [][Next]_map

=============================================================================
