----------------------------- MODULE VaultProofs -----------------------------
(***************************************************************************)
(* Proofs about the credential store: its type, the uniqueness of its      *)
(* accounts, and that the array of entries implements a bounded map from   *)
(* accounts to passwords, for every capacity, id width, set of origins,    *)
(* usernames and passwords.                                                *)
(***************************************************************************)
EXTENDS Vault, FiniteSetTheorems, SequenceTheorems, WellFoundedInduction, TLAPS

-----------------------------------------------------------------------------
(***************************************************************************)
(* Least and largest elements.  The least-number principle of the library  *)
(* takes an operator as a parameter; here it is stated for a set.          *)
(***************************************************************************)

LEMMA LeastNumber ==
  ASSUME NEW S, S \subseteq Nat, S # {}
  PROVE  \E x \in S : \A y \in S : x <= y
<1>1. PICK x \in S : \A y \in S : ~(<<y, x>> \in OpToRel(<, Nat))
  BY NatLessThanWellFounded, WFMin
<1>2. ASSUME NEW y \in S PROVE x <= y
  <2>1. <<y, x>> \notin OpToRel(<, Nat) /\ <<y, x>> \in Nat \X Nat
    BY <1>1
  <2>2. ~(y < x)
    BY <2>1 DEF OpToRel
  <2>3. QED
    BY <2>2
<1>3. QED
  BY <1>2

LEMMA MinInSet ==
  ASSUME NEW S, S \subseteq Nat, S # {}
  PROVE  Min(S) \in S
BY LeastNumber DEF Min

LEMMA MaxInSet ==
  ASSUME NEW n \in Nat, NEW S, S \subseteq 0..n, S # {}
  PROVE  Max(S) \in S /\ \A x \in S : Max(S) >= x
<1> DEFINE T == {k \in Nat : n - k \in S}
<1>1. \A x \in S : x \in Nat /\ x <= n /\ n - x \in T
  OBVIOUS
<1>2. T \subseteq Nat /\ T # {}
  BY <1>1
<1>3. PICK least \in T : \A k \in T : least <= k
  BY <1>2, LeastNumber
<1>4. n - least \in S /\ least \in Nat
  BY <1>3
<1>5. ASSUME NEW y \in S PROVE n - least >= y
  <2>1. least <= n - y /\ y \in Nat
    BY <1>1, <1>3
  <2>2. QED
    BY <1>4, <2>1
<1>6. QED
  BY <1>4, <1>5 DEF Max

-----------------------------------------------------------------------------
(***************************************************************************)
(* The array.                                                              *)
(***************************************************************************)

VaultInv == TypeOK /\ OneEntryPerAccount

\* What an array of entries is, its indices included.
LEMMA EntriesOf ==
  ASSUME NEW v \in Seq(Entries)
  PROVE  /\ Len(v) \in Nat /\ DOMAIN v = 1..Len(v)
         /\ \A i \in 1..Len(v) : v[i] \in Entries
BY LenProperties, ElementOfSeq

\* An id is never larger than what its field holds, and above every id in use
\* unless the ids are exhausted.
LEMMA NextIdFits ==
  ASSUME NEW v \in Seq(Entries)
  PROVE  /\ NextId(v) \in Ids
         /\ NextId(v) # 0 => \A i \in DOMAIN v : v[i].id < NextId(v)
<1> DEFINE used == {0} \cup {v[i].id : i \in DOMAIN v}
<1>1. used \subseteq 0..IdLimit /\ used # {}
  <2>1. \A i \in DOMAIN v : v[i].id \in 0..IdLimit
    BY EntriesOf DEF Entries, Ids
  <2>2. 0 \in 0..IdLimit
    BY VaultAssumption
  <2>3. QED
    BY <2>1, <2>2
<1>2. Max(used) \in 0..IdLimit /\ \A x \in used : Max(used) >= x
  BY <1>1, MaxInSet, VaultAssumption
<1>3. \A i \in DOMAIN v : v[i].id \in used
  OBVIOUS
<1> HIDE DEF used
<1>4. NextId(v) = IF Max(used) = IdLimit THEN 0 ELSE Max(used) + 1
  BY DEF NextId, used
<1>5. NextId(v) \in 0..IdLimit
  BY <1>2, <1>4, VaultAssumption
<1>6. ASSUME NextId(v) # 0, NEW i \in DOMAIN v PROVE v[i].id < NextId(v)
  <2>1. NextId(v) = Max(used) + 1
    BY <1>4, <1>6
  <2>2. v[i].id \in used
    BY <1>3, <1>6
  <2>3. v[i].id \in 0..IdLimit /\ Max(used) >= v[i].id
    BY <1>1, <1>2, <2>2
  <2>4. IdLimit \in Nat
    BY VaultAssumption
  <2>5. QED
    BY <1>2, <2>1, <2>3, <2>4
<1>7. QED
  BY <1>5, <1>6 DEF Ids

\* The outcome of a save: the only entry of the account is overwritten in
\* place, a new account is appended, or nothing changes.
LEMMA UpsertOutcome ==
  ASSUME NEW v \in Seq(Entries), NEW entry \in Entries
  PROVE  \/ \E i \in DOMAIN v :
              SameAccount(v[i], entry) /\ Upsert(v, entry) = [v EXCEPT ![i] = entry]
         \/ /\ \A i \in DOMAIN v : ~SameAccount(v[i], entry)
            /\ Len(v) < VaultCapacity /\ Upsert(v, entry) = Append(v, entry)
         \/ Upsert(v, entry) = v
<1>1. CASE Exists(v, entry)
  <2>1. OfAccount(v, entry) \subseteq Nat /\ OfAccount(v, entry) # {}
    BY <1>1, EntriesOf DEF Exists, OfAccount
  <2>2. Min(OfAccount(v, entry)) \in OfAccount(v, entry)
    BY <2>1, MinInSet
  <2>3. QED
    BY <1>1, <2>2 DEF Upsert, OfAccount
<1>2. CASE ~Exists(v, entry)
  BY <1>2 DEF Upsert, Exists, OfAccount
<1>3. QED
  BY <1>1, <1>2

\* Whatever entry is saved, the array keeps its type and its accounts apart.
LEMMA UpsertKeeps ==
  ASSUME NEW v \in Seq(Entries), Len(v) <= VaultCapacity, AccountsUnique(v),
         NEW entry \in Entries
  PROVE  /\ Upsert(v, entry) \in Seq(Entries)
         /\ Len(Upsert(v, entry)) <= VaultCapacity
         /\ AccountsUnique(Upsert(v, entry))
<1> DEFINE after == Upsert(v, entry)
<1>1. CASE \E i \in DOMAIN v : SameAccount(v[i], entry) /\ after = [v EXCEPT ![i] = entry]
  <2>1. PICK i \in DOMAIN v : SameAccount(v[i], entry) /\ after = [v EXCEPT ![i] = entry]
    BY <1>1
  <2> HIDE DEF after
  <2>2. i \in 1..Len(v) /\ DOMAIN v = 1..Len(v)
    BY EntriesOf
  <2>3. /\ after \in Seq(Entries) /\ Len(after) = Len(v)
        /\ \A j \in 1..Len(v) : after[j] = IF j = i THEN entry ELSE v[j]
    BY <2>1, <2>2, ExceptSeq
  <2>4. DOMAIN after = DOMAIN v
    BY <2>2, <2>3, EntriesOf
  <2>5. \A j \in DOMAIN v : SameAccount(after[j], v[j])
    BY <2>1, <2>2, <2>3 DEF SameAccount
  <2>6. AccountsUnique(after)
    BY <2>4, <2>5 DEF AccountsUnique, SameAccount
  <2>7. QED
    BY <2>3, <2>6 DEF after
<1>2. CASE /\ \A i \in DOMAIN v : ~SameAccount(v[i], entry)
           /\ Len(v) < VaultCapacity /\ after = Append(v, entry)
  <2> HIDE DEF after
  <2>1. /\ after \in Seq(Entries) /\ Len(after) = Len(v) + 1
        /\ \A i \in 1..Len(v) : after[i] = v[i]
        /\ after[Len(v) + 1] = entry
    BY <1>2, AppendProperties
  <2>2. DOMAIN after = 1..Len(v) + 1 /\ DOMAIN v = 1..Len(v) /\ Len(v) \in Nat
    BY <2>1, EntriesOf
  <2>3. ASSUME NEW i \in DOMAIN after, NEW j \in DOMAIN after, SameAccount(after[i], after[j])
        PROVE  i = j
    <3>1. CASE i \in DOMAIN v /\ j \in DOMAIN v
      BY <2>1, <2>2, <2>3, <3>1 DEF AccountsUnique
    <3>2. CASE i = Len(v) + 1 /\ j \in DOMAIN v
      BY <1>2, <2>1, <2>2, <2>3, <3>2 DEF SameAccount
    <3>3. CASE i \in DOMAIN v /\ j = Len(v) + 1
      BY <1>2, <2>1, <2>2, <2>3, <3>3 DEF SameAccount
    <3>4. CASE i = Len(v) + 1 /\ j = Len(v) + 1
      BY <3>4
    <3>5. QED
      BY <2>2, <3>1, <3>2, <3>3, <3>4
  <2>4. Len(after) <= VaultCapacity
    BY <1>2, <2>1, <2>2, VaultAssumption
  <2>5. QED
    BY <2>1, <2>3, <2>4 DEF AccountsUnique, after
<1>3. CASE after = v
  BY <1>3
<1>4. QED
  BY <1>1, <1>2, <1>3, UpsertOutcome

\* An entry whose id is not in use keeps the ids apart.
LEMMA UpsertKeepsIds ==
  ASSUME NEW v \in Seq(Entries), NEW entry \in Entries,
         \A i, j \in DOMAIN v : v[i].id = v[j].id => i = j,
         \A i \in DOMAIN v : v[i].id # entry.id
  PROVE  \A i, j \in DOMAIN Upsert(v, entry) :
            Upsert(v, entry)[i].id = Upsert(v, entry)[j].id => i = j
<1> DEFINE after == Upsert(v, entry)
<1>1. CASE \E i \in DOMAIN v : SameAccount(v[i], entry) /\ after = [v EXCEPT ![i] = entry]
  <2>1. PICK i \in DOMAIN v : after = [v EXCEPT ![i] = entry]
    BY <1>1
  <2> HIDE DEF after
  <2>2. DOMAIN after = DOMAIN v /\ \A j \in DOMAIN v : after[j] = IF j = i THEN entry ELSE v[j]
    BY <2>1
  <2>3. \A j, k \in DOMAIN after : after[j].id = after[k].id => j = k
    BY <2>2
  <2>4. QED
    BY <2>3 DEF after
<1>2. CASE after = Append(v, entry)
  <2> HIDE DEF after
  <2>1. /\ after \in Seq(Entries) /\ Len(after) = Len(v) + 1
        /\ \A i \in 1..Len(v) : after[i] = v[i]
        /\ after[Len(v) + 1] = entry
    BY <1>2, AppendProperties
  <2>2. DOMAIN after = 1..Len(v) + 1 /\ DOMAIN v = 1..Len(v) /\ Len(v) \in Nat
    BY <2>1, EntriesOf
  <2>3. \A j, k \in DOMAIN after : after[j].id = after[k].id => j = k
    <3>1. \A j \in DOMAIN after : j \in DOMAIN v \/ j = Len(v) + 1
      BY <2>2
    <3>2. QED
      BY <2>1, <2>2, <3>1
  <2>4. QED
    BY <2>3 DEF after
<1>3. CASE after = v
  BY <1>3
<1>4. QED
  BY <1>1, <1>2, <1>3, UpsertOutcome

\* A lookup by origin finds an entry of that origin.
LEMMA FoundByOrigin ==
  ASSUME NEW v \in Seq(Entries), NEW origin, HasOrigin(v, origin)
  PROVE  FindByOrigin(v, origin) \in Entries /\ FindByOrigin(v, origin).origin = origin
<1>1. OfOrigin(v, origin) \subseteq Nat /\ OfOrigin(v, origin) # {}
  BY EntriesOf DEF HasOrigin, OfOrigin
<1>2. Min(OfOrigin(v, origin)) \in OfOrigin(v, origin)
  BY <1>1, MinInSet
<1>3. QED
  BY <1>2, EntriesOf DEF FindByOrigin, OfOrigin

-----------------------------------------------------------------------------
(***************************************************************************)
(* The invariant.                                                          *)
(***************************************************************************)

\* The entry a save builds.
EntryOf(origin, username, password) ==
    [id |-> NextId(vault), origin |-> origin, username |-> username, password |-> password]

LEMMA EntryOfType ==
  ASSUME TypeOK, NEW origin \in Origins, NEW username \in Usernames,
         NEW password \in Passwords
  PROVE  EntryOf(origin, username, password) \in Entries
BY NextIdFits DEF EntryOf, TypeOK, Entries

LEMMA InitInv == Init => VaultInv
BY EmptySeq, VaultAssumption DEF Init, VaultInv, TypeOK, OneEntryPerAccount, AccountsUnique

LEMMA StepInv == VaultInv /\ [Next]_vault => VaultInv'
<1> SUFFICES ASSUME VaultInv, [Next]_vault PROVE VaultInv'
  OBVIOUS
<1>1. ASSUME NEW origin \in Origins, NEW username \in Usernames, NEW password \in Passwords,
             Save(origin, username, password)
      PROVE  VaultInv'
  <2>1. vault' = Upsert(vault, EntryOf(origin, username, password))
    BY <1>1 DEF Save, EntryOf
  <2>2. EntryOf(origin, username, password) \in Entries
    BY EntryOfType DEF VaultInv
  <2>3. QED
    BY <2>1, <2>2, UpsertKeeps DEF VaultInv, TypeOK, OneEntryPerAccount, AccountsUnique
<1>2. CASE SecureWipe
  BY <1>2, EmptySeq, VaultAssumption
     DEF SecureWipe, VaultInv, TypeOK, OneEntryPerAccount, AccountsUnique
<1>3. CASE UNCHANGED vault
  BY <1>3 DEF VaultInv, TypeOK, OneEntryPerAccount, AccountsUnique
<1>4. QED
  BY <1>1, <1>2, <1>3 DEF Next

THEOREM VaultInvariant == Spec => []VaultInv
BY InitInv, StepInv, PTL DEF Spec

\* vault->count never passes the length of vault->credentials, and every entry
\* in use is well-formed, its id within its field.
THEOREM VaultTypeCorrect == Spec => []TypeOK
BY VaultInvariant, PTL DEF VaultInv

\* password_store_upsert never gives an account a second entry.
THEOREM AccountsStayUnique == Spec => []OneEntryPerAccount
BY VaultInvariant, PTL DEF VaultInv

-----------------------------------------------------------------------------
(***************************************************************************)
(* The refinement: the array as a map from accounts to passwords.          *)
(***************************************************************************)

AccountOf(entry) == <<entry.origin, entry.username>>

\* What the map is: with one entry per account, every entry is the one found.
LEMMA MapIs ==
  VaultInv => /\ vault \in Seq(Entries) /\ DOMAIN vault = 1..Len(vault)
              /\ AsMap = [a \in DOMAIN AsMap |-> AsMap[a]]
              /\ \A a : a \in DOMAIN AsMap <=>
                          \E i \in DOMAIN vault : a = AccountOf(vault[i])
              /\ \A i \in DOMAIN vault :
                    AsMap[AccountOf(vault[i])] = vault[i].password
<1> SUFFICES ASSUME VaultInv
             PROVE  /\ vault \in Seq(Entries) /\ DOMAIN vault = 1..Len(vault)
                    /\ AsMap = [a \in DOMAIN AsMap |-> AsMap[a]]
                    /\ \A a : a \in DOMAIN AsMap <=>
                                \E i \in DOMAIN vault : a = AccountOf(vault[i])
                    /\ \A i \in DOMAIN vault :
                          AsMap[AccountOf(vault[i])] = vault[i].password
  OBVIOUS
<1>1. vault \in Seq(Entries) /\ DOMAIN vault = 1..Len(vault)
  BY EntriesOf DEF VaultInv, TypeOK
<1>2. \A a : a \in DOMAIN AsMap <=> \E i \in DOMAIN vault : a = AccountOf(vault[i])
  BY DEF AsMap, AccountOf
<1>3. AsMap = [a \in DOMAIN AsMap |-> AsMap[a]]
  BY DEF AsMap
<1>4. ASSUME NEW i \in DOMAIN vault
      PROVE  AsMap[AccountOf(vault[i])] = vault[i].password
  <2> DEFINE a == AccountOf(vault[i])
             found == CHOOSE j \in DOMAIN vault :
                        <<vault[j].origin, vault[j].username>> = a
  <2>1. a = <<vault[i].origin, vault[i].username>>
    BY DEF AccountOf
  <2>2. found \in DOMAIN vault /\ <<vault[found].origin, vault[found].username>> = a
    BY <2>1
  <2>3. found = i
    BY <2>1, <2>2 DEF VaultInv, OneEntryPerAccount, AccountsUnique, SameAccount
  <2>4. AsMap[a] = vault[found].password
    BY <2>1 DEF AsMap
  <2>5. QED
    BY <2>3, <2>4
<1>5. QED
  BY <1>1, <1>2, <1>3, <1>4

LEMMA MapIsNext ==
  VaultInv' => /\ vault' \in Seq(Entries) /\ DOMAIN vault' = 1..Len(vault')
               /\ AsMap' = [a \in DOMAIN AsMap' |-> AsMap'[a]]
               /\ \A a : a \in DOMAIN AsMap' <=>
                           \E i \in DOMAIN vault' : a = AccountOf(vault'[i])
               /\ \A i \in DOMAIN vault' :
                     AsMap'[AccountOf(vault'[i])] = vault'[i].password
<1>1. (VaultInv => /\ vault \in Seq(Entries) /\ DOMAIN vault = 1..Len(vault)
                   /\ AsMap = [a \in DOMAIN AsMap |-> AsMap[a]]
                   /\ \A a : a \in DOMAIN AsMap <=>
                               \E i \in DOMAIN vault : a = AccountOf(vault[i])
                   /\ \A i \in DOMAIN vault :
                         AsMap[AccountOf(vault[i])] = vault[i].password)'
  BY MapIs, PTL
<1>2. QED
  BY <1>1 DEF AccountOf

\* The map has at most as many accounts as the array has entries.
LEMMA MapSize ==
  ASSUME VaultInv
  PROVE  Cardinality(DOMAIN AsMap) <= Len(vault)
<1> DEFINE f == [i \in 1..Len(vault) |-> AccountOf(vault[i])]
<1>1. f \in Surjection(1..Len(vault), DOMAIN AsMap)
  BY MapIs DEF Surjection
<1>2. Len(vault) \in Nat
  BY EntriesOf DEF VaultInv, TypeOK
<1>3. QED
  BY <1>1, <1>2, FS_SurjCardinalityBound DEF ExistsSurjection

LEMMA MapFinite == ASSUME VaultInv PROVE IsFiniteSet(DOMAIN AsMap)
<1>1. DOMAIN AsMap = {AccountOf(vault[i]) : i \in 1..Len(vault)}
  BY MapIs
<1>2. Len(vault) \in Nat /\ IsFiniteSet(1..Len(vault))
  BY EntriesOf, FS_Interval DEF VaultInv, TypeOK
<1> DEFINE f == [i \in 1..Len(vault) |-> AccountOf(vault[i])]
<1>3. f \in Surjection(1..Len(vault), DOMAIN AsMap)
  BY MapIs DEF Surjection
<1>4. QED
  BY <1>2, <1>3, FS_Surjection

\* The abstract module counts as this one does.
LEMMA SameCardinality == \A S : Map!Cardinality(S) = Cardinality(S)
BY DEF Map!Cardinality, Cardinality

\* A map whose account has got the password, and is otherwise as before.
LEMMA PutFrom ==
  ASSUME NEW a \in Accounts, NEW password \in Passwords,
         a \in DOMAIN AsMap \/ Cardinality(DOMAIN AsMap) < VaultCapacity,
         AsMap' = [b \in DOMAIN AsMap' |-> AsMap'[b]],
         DOMAIN AsMap' = DOMAIN AsMap \cup {a},
         AsMap'[a] = password,
         \A b \in DOMAIN AsMap \ {a} : AsMap'[b] = AsMap[b]
  PROVE  Map!Next
<1>1. AsMap' = [b \in DOMAIN AsMap \cup {a} |-> IF b = a THEN password ELSE AsMap[b]]
  BY Zenon
<1>2. Map!Put(a, password)
  BY <1>1, SameCardinality DEF Map!Put
<1>3. QED
  BY <1>2 DEF Map!Next

LEMMA SavePuts ==
  ASSUME VaultInv, VaultInv', NEW origin \in Origins, NEW username \in Usernames,
         NEW password \in Passwords, Save(origin, username, password)
  PROVE  [Map!Next]_AsMap
<1> DEFINE entry == EntryOf(origin, username, password)
           a == <<origin, username>>
<1>1. vault' = Upsert(vault, entry) /\ entry \in Entries
  BY EntryOfType DEF Save, EntryOf, VaultInv
<1>2. a = AccountOf(entry) /\ a \in Accounts /\ entry.password = password
  BY DEF EntryOf, AccountOf, Accounts
<1>3. \A i \in DOMAIN vault : SameAccount(vault[i], entry) <=> AccountOf(vault[i]) = a
  BY <1>2 DEF SameAccount, AccountOf
<1>4. vault \in Seq(Entries)
  BY MapIs
<1> HIDE DEF entry, a
<1>5. CASE \E i \in DOMAIN vault :
             SameAccount(vault[i], entry) /\ vault' = [vault EXCEPT ![i] = entry]
  <2>1. PICK i \in DOMAIN vault :
             SameAccount(vault[i], entry) /\ vault' = [vault EXCEPT ![i] = entry]
    BY <1>5
  <2>2. /\ DOMAIN vault' = DOMAIN vault /\ vault'[i] = entry
        /\ \A j \in DOMAIN vault \ {i} : vault'[j] = vault[j]
    BY <2>1
  <2>3. AccountOf(vault[i]) = a /\ AccountOf(vault'[i]) = a
    BY <1>2, <1>3, <2>1, <2>2
  <2>4. \A j \in DOMAIN vault : AccountOf(vault'[j]) = AccountOf(vault[j])
    BY <2>2, <2>3
  <2>5. DOMAIN AsMap' = DOMAIN AsMap /\ a \in DOMAIN AsMap
    BY <2>1, <2>2, <2>3, <2>4, MapIs, MapIsNext
  <2>6. AsMap'[a] = password
    BY <1>2, <2>1, <2>2, <2>3, MapIsNext
  <2>7. ASSUME NEW b \in DOMAIN AsMap \ {a} PROVE AsMap'[b] = AsMap[b]
    <3>1. PICK j \in DOMAIN vault : b = AccountOf(vault[j])
      BY MapIs
    <3>2. j # i
      BY <2>3, <2>7, <3>1
    <3>3. vault'[j] = vault[j] /\ j \in DOMAIN vault'
      BY <2>2, <3>2
    <3>4. QED
      BY <3>1, <3>3, MapIs, MapIsNext
  <2>8. DOMAIN AsMap' = DOMAIN AsMap \cup {a}
    BY <2>5
  <2>9. QED
    BY <1>2, <2>5, <2>6, <2>7, <2>8, MapIsNext, PutFrom
<1>6. CASE /\ \A i \in DOMAIN vault : ~SameAccount(vault[i], entry)
           /\ Len(vault) < VaultCapacity /\ vault' = Append(vault, entry)
  <2> DEFINE last == Len(vault) + 1
  <2>1. /\ DOMAIN vault = 1..Len(vault) /\ DOMAIN vault' = 1..last /\ Len(vault) \in Nat
        /\ vault'[last] = entry
        /\ \A i \in DOMAIN vault : vault'[i] = vault[i]
    BY <1>1, <1>4, <1>6, AppendProperties, EntriesOf
  <2>2. /\ last \in DOMAIN vault' /\ DOMAIN vault \subseteq DOMAIN vault'
        /\ DOMAIN vault' = DOMAIN vault \cup {last}
    BY <2>1
  <2> HIDE DEF last
  <2>3. AccountOf(vault'[last]) = a
    BY <1>2, <2>1
  <2>4. DOMAIN AsMap' = DOMAIN AsMap \cup {a}
    <3>1. ASSUME NEW i \in DOMAIN vault PROVE AccountOf(vault'[i]) = AccountOf(vault[i])
      BY <2>1
    <3>2. ASSUME NEW b, b \in DOMAIN AsMap' PROVE b \in DOMAIN AsMap \cup {a}
      <4>1. PICK i \in DOMAIN vault' : b = AccountOf(vault'[i])
        BY <3>2, MapIsNext
      <4>2. QED
        BY <2>2, <2>3, <3>1, <4>1, MapIs
    <3>3. ASSUME NEW b, b \in DOMAIN AsMap \cup {a} PROVE b \in DOMAIN AsMap'
      <4>1. CASE b = a
        BY <2>2, <2>3, <4>1, MapIsNext
      <4>2. CASE b \in DOMAIN AsMap
        <5>1. PICK i \in DOMAIN vault : b = AccountOf(vault[i])
          BY <4>2, MapIs
        <5>2. i \in DOMAIN vault' /\ b = AccountOf(vault'[i])
          BY <2>2, <3>1, <5>1
        <5>3. QED
          BY <5>2, MapIsNext
      <4>3. QED
        BY <3>3, <4>1, <4>2
    <3>4. QED
      BY <3>2, <3>3
  <2>5. AsMap'[a] = password
    BY <1>2, <2>1, <2>2, <2>3, MapIsNext
  <2>6. ASSUME NEW b \in DOMAIN AsMap \ {a} PROVE AsMap'[b] = AsMap[b]
    <3>1. PICK j \in DOMAIN vault : b = AccountOf(vault[j])
      BY MapIs
    <3>2. vault'[j] = vault[j] /\ j \in DOMAIN vault'
      BY <2>1, <2>2
    <3>3. QED
      BY <3>1, <3>2, MapIs, MapIsNext
  <2>7. Cardinality(DOMAIN AsMap) < VaultCapacity
    <3>1. IsFiniteSet(DOMAIN AsMap)
      BY MapFinite
    <3>2. Cardinality(DOMAIN AsMap) \in Nat
      BY <3>1, FS_CardinalityType
    <3>3. Cardinality(DOMAIN AsMap) <= Len(vault) /\ Len(vault) < VaultCapacity
      BY <1>6, MapSize
    <3>4. QED
      BY <2>1, <3>2, <3>3, VaultAssumption
  <2>8. QED
    BY <1>2, <2>4, <2>5, <2>6, <2>7, MapIsNext, PutFrom
<1>7. CASE vault' = vault
  BY <1>7 DEF AsMap
<1>8. QED
  BY <1>1, <1>4, <1>5, <1>6, <1>7, UpsertOutcome

\* Saving through password_store_upsert sets the password of one account and
\* disturbs no other, and refuses only a new account in a full array; wiping
\* forgets them all.
THEOREM ArrayImplementsMap == Spec => ImplementsMap
<1>1. Init => Map!Init
  <2>1. ASSUME Init PROVE AsMap = [a \in {} |-> 0]
    <3>1. DOMAIN vault = {}
      BY <2>1 DEF Init
    <3>2. AsMap \in [{} -> {}]
      BY <3>1 DEF AsMap
    <3>3. QED
      BY <3>2
  <2>2. QED
    BY <2>1 DEF Map!Init
<1>2. VaultInv /\ VaultInv' /\ [Next]_vault => [Map!Next]_AsMap
  <2> SUFFICES ASSUME VaultInv, VaultInv', [Next]_vault PROVE [Map!Next]_AsMap
    OBVIOUS
  <2>1. CASE SecureWipe
    <3>1. DOMAIN vault' = {}
      BY <2>1 DEF SecureWipe
    <3>2. AsMap' \in [{} -> {}]
      BY <3>1 DEF AsMap
    <3>3. AsMap' = [a \in {} |-> 0]
      BY <3>2
    <3>4. QED
      BY <3>3 DEF Map!Next, Map!Erase
  <2>2. CASE UNCHANGED vault
    BY <2>2 DEF AsMap
  <2>3. QED
    BY <2>1, <2>2, SavePuts DEF Next
<1>3. QED
  BY <1>1, <1>2, VaultInvariant, PTL DEF Spec, ImplementsMap, Map!Spec

=============================================================================
