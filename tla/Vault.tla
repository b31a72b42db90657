-------------------------------- MODULE Vault --------------------------------
(***************************************************************************)
(* The credential store of firmware/src/vault.c: an array of entries, of   *)
(* which the first vault->count are in use.  Entries are only ever added   *)
(* at the end and overwritten in place, so the array is a sequence of      *)
(* valid entries.  Passwords are kept as ciphertext in the code; here an   *)
(* entry holds the password its ciphertext decrypts to, and the timestamps, *)
(* which nothing reads, are left out.                                      *)
(***************************************************************************)
EXTENDS Naturals, Sequences, FiniteSetsExt

CONSTANTS
    Origins, Usernames, Passwords,
    VaultCapacity,  \* the length of vault->credentials
    IdLimit         \* UINT32_MAX

ASSUME VaultAssumption == VaultCapacity \in Nat \ {0} /\ IdLimit \in Nat \ {0}

Ids == 0..IdLimit

Entries == [id : Ids, origin : Origins, username : Usernames, password : Passwords]

SameAccount(c, d) == c.origin = d.origin /\ c.username = d.username

OfOrigin(v, origin) == {i \in DOMAIN v : v[i].origin = origin}

\* Mutants: entries compared by id; by origin alone.
OfId(v, entry) == {i \in DOMAIN v : v[i].id = entry.id}

OfSameOrigin(v, entry) == OfOrigin(v, entry.origin)

OfAccount(v, entry) == {i \in DOMAIN v : SameAccount(v[i], entry)}

\* password_store_find_by_origin: the oldest entry of the origin.
HasOrigin(v, origin) == OfOrigin(v, origin) # {}

FindByOrigin(v, origin) == v[Min(OfOrigin(v, origin))]

\* password_store_get_by_index, with the code's indices from zero.
HasIndex(v, index) == index < Len(v)

GetByIndex(v, index) == v[index + 1]

Exists(v, entry) == OfAccount(v, entry) # {}

Storable(v, entry) == Exists(v, entry) \/ Len(v) < VaultCapacity

\* Mutant: an off-by-one in the capacity check.
UpsertOneTooMany(v, entry) ==
    IF Exists(v, entry) THEN [v EXCEPT ![Min(OfAccount(v, entry))] = entry]
    ELSE IF Len(v) <= VaultCapacity THEN Append(v, entry)
    ELSE v

Upsert(v, entry) ==
    IF Exists(v, entry) THEN [v EXCEPT ![Min(OfAccount(v, entry))] = entry]
    ELSE IF Len(v) < VaultCapacity THEN Append(v, entry)
    ELSE v

\* Mutant: ids follow the number of entries.
NextIdByCount(v) == Len(v) + 1

\* One more than the largest id in use; zero when that would not fit.
NextId(v) ==
    LET largest == Max({0} \cup {v[i].id : i \in DOMAIN v})
    IN  IF largest = IdLimit THEN 0 ELSE largest + 1

-----------------------------------------------------------------------------
VARIABLE vault

Init == vault = << >>

\* A save as the action engine performs one: the id is taken from the vault as
\* it is, and the entry is then stored or refused.
Save(origin, username, password) ==
    vault' = Upsert(vault, [id |-> NextId(vault), origin |-> origin,
                            username |-> username, password |-> password])

SecureWipe == vault' = << >>

Next ==
    \/ \E origin \in Origins, username \in Usernames, password \in Passwords :
          Save(origin, username, password)
    \/ SecureWipe

Spec == Init /\ [][Next]_vault

-----------------------------------------------------------------------------
\* The vault never holds more entries than its array.
TypeOK == vault \in Seq(Entries) /\ Len(vault) <= VaultCapacity

\* No account has two entries: a lookup and an update always mean the same one.
AccountsUnique(v) ==
    \A i, j \in DOMAIN v : SameAccount(v[i], v[j]) => i = j

OneEntryPerAccount == AccountsUnique(vault)

Accounts == Origins \X Usernames

AsMap ==
    [a \in {<<vault[i].origin, vault[i].username>> : i \in DOMAIN vault} |->
       vault[CHOOSE i \in DOMAIN vault : <<vault[i].origin, vault[i].username>> = a].password]

Map == INSTANCE AccountMap WITH map <- AsMap

\* The array of entries behaves as a map from accounts to passwords: no save
\* loses, duplicates or disturbs another account, and none is refused that
\* could be stored.
ImplementsMap == Map!Spec

\* Ids identify entries.
IdsUnique == \A i, j \in DOMAIN vault : vault[i].id = vault[j].id => i = j

=============================================================================
