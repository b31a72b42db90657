------------------------- MODULE SecureElementProofs -------------------------
(***************************************************************************)
(* Proofs about the simulated secure element, the crypto engine above it,  *)
(* secure boot and the FIDO2 authenticator, called in any order: for all   *)
(* keys, secrets, versions and relying parties, and for both builds.       *)
(***************************************************************************)
EXTENDS SecureElement, FiniteSetTheorems, TLAPS

-----------------------------------------------------------------------------
(***************************************************************************)
(* The inductive invariant.                                                *)
(***************************************************************************)

\* The flags of the engine tell the truth about the element below it.
FlagsTrue ==
    /\ engine.initialized => IsAvailable
    /\ engine.master_key => slots[MASTER_KEY] # Empty
    /\ engine.device_secret => slots[DEVICE_SECRET] # Empty

\* What has encrypted a password can encrypt and decrypt until power is cut.
SealedReady == sealed # None => ReadyForSensitiveOps /\ AeadReady

EngineInv == EngineTypeOK /\ FlagsTrue /\ SealedReady

\* The version counter has reached every version that was accepted.
CounterReached ==
    accepted # 0 => VersionReadable /\ accepted <= slots[VERSION_COUNTER]

SecureElementInv ==
    EngineInv /\ SecureElementTypeOK /\ CounterReached /\ CountsRise

-----------------------------------------------------------------------------
(***************************************************************************)
(* The driver.                                                             *)
(***************************************************************************)

LEMMA SlotsApart ==
  /\ SlotIds = {0, 1, 3, 4, 5, 7}
  /\ MASTER_KEY = 0 /\ DEVICE_SECRET = 1 /\ VERSION_COUNTER = 7
  /\ FIDO_PRIVKEY_BASE = 3
BY DEF SlotIds, MASTER_KEY, DEVICE_SECRET, FIDO_PRIVKEY_BASE, KDF_READY, SIGN_READY,
       VERSION_COUNTER

\* Writing a slot changes that slot and provisions it.
LEMMA WriteSlotKeeps ==
  ASSUME EngineTypeOK, NEW slot \in SlotIds,
         NEW contents \in Keys \cup SecretLengths \cup Versions,
         WriteSlot(slot, contents)
  PROVE  /\ slots' \in [SlotIds -> Contents]
         /\ slots'[slot] = contents /\ slots'[slot] # Empty
         /\ \A s \in SlotIds \ {slot} : slots'[s] = slots[s]
BY EngineAssumption DEF EngineTypeOK, WriteSlot, Contents

\* Binding a slot keeps the contents of every slot that has any.
LEMMA ProvisionKeeps ==
  ASSUME EngineTypeOK, NEW slot \in SlotIds, Provision(slot)
  PROVE  /\ slots' \in [SlotIds -> Contents]
         /\ \A s \in SlotIds : slots[s] # Empty => slots'[s] = slots[s]
BY EngineAssumption DEF EngineTypeOK, Provision, Contents

\* The engine is not disturbed by a step that leaves it and the driver alone and
\* empties no slot it relies on.
LEMMA EngineKept ==
  ASSUME EngineInv, EngineTypeOK',
         UNCHANGED <<production, atecc, engine, sealed>>,
         \A s \in {MASTER_KEY, DEVICE_SECRET, VERSION_COUNTER} :
            slots[s] # Empty => slots'[s] # Empty
  PROVE  EngineInv'
BY DEF EngineInv, FlagsTrue, SealedReady, ReadyForSensitiveOps, AeadReady, IsReady,
       IsAvailable, IsSlotProvisioned

-----------------------------------------------------------------------------
(***************************************************************************)
(* Calls of the engine.                                                    *)
(***************************************************************************)

\* What a call must leave in order.
EngineSound ==
    /\ EngineInv'
    /\ VersionReadable => VersionReadable' /\ slots'[VERSION_COUNTER] = slots[VERSION_COUNTER]

LEMMA HaltSound == ASSUME EngineInv, Halt PROVE EngineSound
<1>1. /\ halted' = TRUE
      /\ UNCHANGED <<production, atecc, slots, engine, aad, sealed>>
  BY DEF Halt
<1>2. EngineTypeOK'
  BY <1>1 DEF EngineInv, EngineTypeOK
<1>3. QED
  BY <1>1, <1>2, EngineKept DEF EngineSound, VersionReadable

LEMMA InitSound == ASSUME EngineInv, CryptoEngineInit PROVE EngineSound
<1>1. /\ atecc' = [initialized |-> TRUE, self_test |-> TRUE]
      /\ engine' = [initialized |-> TRUE, available |-> TRUE,
                    master_key |-> slots[MASTER_KEY] # Empty,
                    device_secret |-> slots[DEVICE_SECRET] # Empty]
      /\ UNCHANGED <<production, halted, slots, aad, sealed>>
  BY DEF CryptoEngineInit, build
<1>2. EngineTypeOK'
  BY <1>1 DEF EngineInv, EngineTypeOK
<1>3. FlagsTrue'
  BY <1>1 DEF FlagsTrue, IsAvailable
<1>4. SealedReady'
  BY <1>1 DEF EngineInv, FlagsTrue, SealedReady, ReadyForSensitiveOps, AeadReady, IsReady,
              IsAvailable, IsSlotProvisioned
<1>5. QED
  BY <1>1, <1>2, <1>3, <1>4 DEF EngineInv, EngineSound, VersionReadable

LEMMA SetMasterKeySlotReadySound ==
  ASSUME EngineInv, SetMasterKeySlotReady
  PROVE  EngineSound
<1> DEFINE provisioned == IsAvailable /\ IsSlotProvisioned(MASTER_KEY)
<1>1. CASE production /\ ~provisioned
  BY <1>1, HaltSound DEF SetMasterKeySlotReady
<1>2. CASE ~(production /\ ~provisioned)
  <2>1. /\ engine' = [engine EXCEPT !.master_key = provisioned]
        /\ UNCHANGED <<production, halted, atecc, slots, aad, sealed>>
    BY <1>2 DEF SetMasterKeySlotReady, build
  <2>2. engine \in [initialized : BOOLEAN, available : BOOLEAN,
                    master_key : BOOLEAN, device_secret : BOOLEAN]
    BY DEF EngineInv, EngineTypeOK
  <2>3. /\ engine'.initialized = engine.initialized /\ engine'.available = engine.available
        /\ engine'.device_secret = engine.device_secret
        /\ engine'.master_key = provisioned
        /\ engine' \in [initialized : BOOLEAN, available : BOOLEAN,
                        master_key : BOOLEAN, device_secret : BOOLEAN]
    BY <2>1, <2>2
  <2>4. EngineTypeOK' /\ FlagsTrue'
    BY <2>1, <2>3
       DEF EngineInv, EngineTypeOK, FlagsTrue, IsAvailable, IsSlotProvisioned
  <2>5. sealed # None => provisioned
    BY DEF EngineInv, FlagsTrue, SealedReady, AeadReady, IsReady, IsAvailable,
           IsSlotProvisioned
  <2>6. SealedReady'
    BY <2>1, <2>3, <2>5
       DEF EngineInv, SealedReady, ReadyForSensitiveOps, AeadReady, IsReady, IsAvailable,
           IsSlotProvisioned
  <2>7. QED
    BY <2>1, <2>4, <2>6 DEF EngineInv, EngineSound, VersionReadable
<1>3. QED
  BY <1>1, <1>2

LEMMA SetDeviceSecretSound == ASSUME EngineInv, SetDeviceSecret PROVE EngineSound
<1>1. PICK length \in SecretLengths : WriteSlot(DEVICE_SECRET, length)
  BY DEF SetDeviceSecret
<1>2. /\ slots' \in [SlotIds -> Contents] /\ slots'[DEVICE_SECRET] # Empty
      /\ slots'[MASTER_KEY] = slots[MASTER_KEY]
      /\ slots'[VERSION_COUNTER] = slots[VERSION_COUNTER]
  BY <1>1, WriteSlotKeeps, SlotsApart DEF EngineInv
<1>3. /\ engine' = [engine EXCEPT !.device_secret = TRUE]
      /\ UNCHANGED <<production, halted, atecc, aad, sealed>>
  BY DEF SetDeviceSecret, build
<1>4. /\ engine'.initialized = engine.initialized /\ engine'.available = engine.available
      /\ engine'.master_key = engine.master_key /\ engine'.device_secret = TRUE
      /\ engine' \in [initialized : BOOLEAN, available : BOOLEAN,
                      master_key : BOOLEAN, device_secret : BOOLEAN]
  BY <1>3 DEF EngineInv, EngineTypeOK
<1>5. EngineTypeOK' /\ FlagsTrue'
  BY <1>2, <1>3, <1>4 DEF EngineInv, EngineTypeOK, FlagsTrue, IsAvailable
<1>6. SealedReady'
  BY <1>2, <1>3, <1>4
     DEF EngineInv, SealedReady, ReadyForSensitiveOps, AeadReady, IsReady, IsAvailable,
         IsSlotProvisioned
<1>7. QED
  BY <1>2, <1>3, <1>5, <1>6 DEF EngineInv, EngineSound, VersionReadable

LEMMA BindAteccSlotSound == ASSUME EngineInv, BindAteccSlot PROVE EngineSound
<1>1. PICK slot \in SlotIds : Provision(slot)
  BY DEF BindAteccSlot
<1>2. /\ slots' \in [SlotIds -> Contents]
      /\ \A s \in SlotIds : slots[s] # Empty => slots'[s] = slots[s]
  BY <1>1, ProvisionKeeps DEF EngineInv
<1>3. UNCHANGED <<production, halted, atecc, engine, aad, sealed>>
  BY DEF BindAteccSlot, build
<1>4. EngineTypeOK'
  BY <1>2, <1>3 DEF EngineInv, EngineTypeOK
<1>5. EngineInv'
  BY <1>2, <1>3, <1>4, EngineKept, SlotsApart
<1>6. QED
  BY <1>2, <1>3, <1>5, SlotsApart, EngineAssumption DEF EngineSound, VersionReadable

LEMMA WriteAteccSlotSound == ASSUME EngineInv, WriteAteccSlot PROVE EngineSound
<1>1. PICK slot \in {MASTER_KEY, VERSION_COUNTER}, contents \in Keys \cup Versions :
        /\ WriteSlot(slot, contents)
        /\ slot = VERSION_COUNTER => ~VersionReadable
  BY SlotsApart DEF WriteAteccSlot
<1>2. /\ slots' \in [SlotIds -> Contents] /\ slots'[slot] # Empty
      /\ \A s \in SlotIds \ {slot} : slots'[s] = slots[s]
  BY <1>1, WriteSlotKeeps, SlotsApart DEF EngineInv
<1>3. UNCHANGED <<production, halted, atecc, engine, aad, sealed>>
  BY DEF WriteAteccSlot, build
<1>4. EngineTypeOK'
  BY <1>2, <1>3 DEF EngineInv, EngineTypeOK
<1>5. EngineInv'
  BY <1>2, <1>3, <1>4, EngineKept, SlotsApart
<1>6. QED
  BY <1>1, <1>2, <1>3, <1>5, SlotsApart DEF EngineSound, VersionReadable

LEMMA EncryptPasswordSound ==
  ASSUME EngineInv, NEW password \in Passwords, EncryptPassword(password)
  PROVE  EngineSound
<1>1. CASE AadHalts \/ ~AeadReady
  BY <1>1, HaltSound DEF EncryptPassword
<1>2. CASE ~(AadHalts \/ ~AeadReady)
  <2>1. /\ ReadyForSensitiveOps /\ AeadReady
        /\ aad < MaxAad /\ aad' = aad + 1
        /\ sealed' = IF KeyReadable /\ FitsBuffer(password) THEN slots[MASTER_KEY] ELSE sealed
        /\ UNCHANGED <<production, halted, atecc, slots, engine>>
    BY <1>2 DEF EncryptPassword, build
  <2>2. aad' \in 1..MaxAad
    BY <2>1, EngineAssumption DEF EngineInv, EngineTypeOK
  <2>3. sealed' \in Keys \cup {None}
    BY <2>1 DEF KeyReadable, EngineInv, EngineTypeOK
  <2>4. EngineTypeOK' /\ FlagsTrue' /\ SealedReady'
    BY <2>1, <2>2, <2>3
       DEF EngineInv, EngineTypeOK, FlagsTrue, SealedReady, ReadyForSensitiveOps,
           AeadReady, IsReady, IsAvailable, IsSlotProvisioned
  <2>5. QED
    BY <2>1, <2>4 DEF EngineInv, EngineSound, VersionReadable
<1>3. QED
  BY <1>1, <1>2

LEMMA EngineCallSound == ASSUME EngineInv, EngineCall PROVE EngineSound
BY HaltSound, InitSound, SetMasterKeySlotReadySound, SetDeviceSecretSound,
   BindAteccSlotSound, WriteAteccSlotSound, EncryptPasswordSound
   DEF EngineCall, UseAead, Fingerprint, DerivePinKey, UseUnavailable

-----------------------------------------------------------------------------
(***************************************************************************)
(* Calls of secure boot and of the authenticator.                          *)
(***************************************************************************)

BootTypeOK ==
    boot \in [initialized : BOOLEAN, enforce_signature : BOOLEAN,
              enforce_antirollback : BOOLEAN, current_version : Versions]

FidoTypeOK ==
    /\ fido \in [initialized : BOOLEAN, has_credential : BOOLEAN,
                 rp : Rps \cup {NoRp}, sign_counter : 0..MaxCount]
    /\ counts \subseteq 1..MaxCount /\ handed \in 0..MaxCount

\* The parts of the invariant, each with the state it is about.
BootInv == BootTypeOK /\ accepted \in Versions /\ CounterReached
FidoInv == FidoTypeOK /\ CountsRise

LEMMA InvParts == SecureElementInv <=> EngineInv /\ BootInv /\ FidoInv
BY DEF SecureElementInv, SecureElementTypeOK, EngineInv, BootInv, BootTypeOK, FidoInv,
       FidoTypeOK

LEMMA PartsKept == EngineInv' /\ BootInv' /\ FidoInv' => SecureElementInv'
BY InvParts, PTL

LEMMA VersionsNat == Versions \subseteq Nat
BY EngineAssumption

\* Secure boot is kept by what keeps its variables and a readable counter.
LEMMA BootKept ==
  ASSUME BootInv, UNCHANGED bootVars,
         VersionReadable => VersionReadable' /\ slots'[VERSION_COUNTER] = slots[VERSION_COUNTER]
  PROVE  BootInv'
BY DEF BootInv, BootTypeOK, CounterReached, bootVars

LEMMA FidoKept == ASSUME FidoInv, UNCHANGED fidoVars PROVE FidoInv'
BY DEF FidoInv, FidoTypeOK, CountsRise, fidoVars

LEMMA AvailableElement == EngineTypeOK => IsAvailable \in BOOLEAN
BY DEF EngineTypeOK, IsAvailable

LEMMA HaltDeviceKeeps ==
  ASSUME SecureElementInv, HaltDevice
  PROVE  SecureElementInv' /\ accepted' = accepted
<1>1. EngineSound /\ UNCHANGED <<bootVars, fidoVars>>
  BY InvParts, HaltSound DEF HaltDevice
<1>2. EngineInv' /\ BootInv' /\ FidoInv'
  BY <1>1, InvParts, BootKept, FidoKept DEF EngineSound
<1>3. QED
  BY <1>1, <1>2, PartsKept DEF bootVars

LEMMA EngineKeeps ==
  ASSUME SecureElementInv, Engine
  PROVE  SecureElementInv' /\ accepted' = accepted
<1>1. EngineSound /\ UNCHANGED <<bootVars, fidoVars>>
  BY InvParts, EngineCallSound DEF Engine
<1>2. EngineInv' /\ BootInv' /\ FidoInv'
  BY <1>1, InvParts, BootKept, FidoKept DEF EngineSound
<1>3. QED
  BY <1>1, <1>2, PartsKept DEF bootVars

\* A step of secure boot that sets its record and nothing else.
LEMMA PolicyKeeps ==
  ASSUME SecureElementInv, BootTypeOK', UNCHANGED <<engineVars, accepted, fidoVars>>
  PROVE  SecureElementInv'
<1>1. EngineInv'
  BY InvParts DEF EngineInv, EngineTypeOK, FlagsTrue, SealedReady, ReadyForSensitiveOps,
                  AeadReady, IsReady, IsAvailable, IsSlotProvisioned, engineVars, build
<1>2. BootInv'
  BY InvParts DEF BootInv, CounterReached, VersionReadable, engineVars
<1>3. FidoInv'
  BY InvParts, FidoKept
<1>4. QED
  BY <1>1, <1>2, <1>3, PartsKept

LEMMA SecureBootInitKeeps ==
  ASSUME SecureElementInv, SecureBootInit
  PROVE  SecureElementInv' /\ accepted' = accepted
<1>1. CASE production /\ ~ReadVersion
  BY <1>1, HaltDeviceKeeps DEF SecureBootInit
<1>2. CASE ~(production /\ ~ReadVersion)
  <2>1. PICK version \in Versions :
          boot' = BootPolicy(version) /\ UNCHANGED <<engineVars, accepted, fidoVars>>
    BY <1>2, EngineAssumption DEF SecureBootInit, ReadVersion, VersionReadable
  <2>2. BootTypeOK'
    BY <2>1, InvParts, AvailableElement DEF BootTypeOK, BootPolicy, EngineInv
  <2>3. QED
    BY <2>1, <2>2, PolicyKeeps
<1>3. QED
  BY <1>1, <1>2

LEMMA SetPolicyKeeps ==
  ASSUME SecureElementInv, NEW signature \in BOOLEAN, NEW antirollback \in BOOLEAN,
         SetPolicy(signature, antirollback)
  PROVE  SecureElementInv' /\ accepted' = accepted
<1>1. CASE production /\ antirollback /\ ~IsAvailable
  BY <1>1, HaltDeviceKeeps DEF SetPolicy
<1>2. CASE ~(production /\ antirollback /\ ~IsAvailable)
  <2>1. /\ boot' = [boot EXCEPT !.enforce_signature = signature,
                                !.enforce_antirollback = antirollback]
        /\ UNCHANGED <<engineVars, accepted, fidoVars>>
    BY <1>2 DEF SetPolicy
  <2>2. BootTypeOK'
    BY <2>1, InvParts DEF BootInv, BootTypeOK
  <2>3. QED
    BY <2>1, <2>2, PolicyKeeps
<1>3. QED
  BY <1>1, <1>2

LEMMA SetCurrentVersionKeeps ==
  ASSUME SecureElementInv, NEW v \in Versions, SetCurrentVersion(v)
  PROVE  SecureElementInv' /\ accepted' = accepted
<1>1. BootTypeOK' /\ UNCHANGED <<engineVars, accepted, fidoVars>>
  BY InvParts DEF SetCurrentVersion, BootInv, BootTypeOK
<1>2. QED
  BY <1>1, PolicyKeeps

\* The check against the counter and the write that raises it: what is accepted
\* is not below the counter, and the counter ends where it was or at it.
LEMMA VerifyManifestKeeps ==
  ASSUME SecureElementInv, NEW v \in Versions, NEW nonzero \in BOOLEAN,
         VerifyManifest(v, nonzero)
  PROVE  SecureElementInv' /\ accepted' >= accepted
<1>1. CASE VerifyHalts
  <2>1. SecureElementInv' /\ accepted' = accepted
    BY <1>1, HaltDeviceKeeps DEF VerifyManifest
  <2>2. QED
    <3>1. accepted \in Nat
      BY InvParts, VersionsNat DEF BootInv
    <3>2. QED
      BY <2>1, <3>1
<1>2. CASE ~VerifyHalts
  <2> DEFINE counter == slots[VERSION_COUNTER]
  <2>1. /\ RollbackOK(v) /\ Accept(v)
        /\ UNCHANGED <<production, halted, atecc, engine, aad, sealed, fidoVars>>
    BY <1>2 DEF VerifyManifest, build
  <2>2. ReadVersion /\ counter \in Versions /\ counter <= v
    BY <2>1 DEF RollbackOK, Accept, ReadVersion, VersionReadable
  <2>3. accepted' = v /\ accepted \in Versions /\ accepted <= counter
    BY <2>1, <2>2, InvParts, EngineAssumption DEF Accept, BootInv, CounterReached
  <2>4. /\ slots' \in [SlotIds -> Contents] /\ BootTypeOK'
        /\ slots'[VERSION_COUNTER] = v
        /\ \A s \in SlotIds \ {VERSION_COUNTER} : slots'[s] = slots[s]
    <3>1. CASE v > counter
      <4>1. WriteSlot(VERSION_COUNTER, v) /\ boot' = [boot EXCEPT !.current_version = v]
        BY <2>1, <3>1 DEF Accept
      <4>2. QED
        BY <4>1, WriteSlotKeeps, SlotsApart, InvParts DEF EngineInv, BootInv, BootTypeOK
    <3>2. CASE ~(v > counter)
      <4>1. slots' = slots /\ boot' = boot /\ counter = v
        BY <2>1, <2>2, <3>2, EngineAssumption DEF Accept
      <4>2. QED
        BY <4>1, InvParts DEF EngineInv, EngineTypeOK, BootInv, BootTypeOK
    <3>3. QED
      BY <3>1, <3>2
  <2>5. EngineTypeOK'
    BY <2>1, <2>4, InvParts DEF EngineInv, EngineTypeOK
  <2>6. EngineInv'
    BY <2>1, <2>4, <2>5, InvParts, EngineKept, SlotsApart, EngineAssumption
  <2>7. BootInv'
    BY <2>1, <2>2, <2>3, <2>4, EngineAssumption
       DEF BootInv, CounterReached, ReadVersion, VersionReadable
  <2>8. FidoInv'
    BY <2>1, InvParts, FidoKept
  <2>9. accepted' >= accepted
    <3>1. v \in Nat /\ accepted \in Nat /\ counter \in Nat
      BY <2>2, <2>3, VersionsNat
    <3>2. counter <= v /\ accepted <= counter /\ accepted' = v
      BY <2>2, <2>3
    <3> HIDE DEF counter
    <3>3. QED
      BY <3>1, <3>2
  <2>10. QED
    BY <2>6, <2>7, <2>8, <2>9, PartsKept
<1>3. QED
  BY <1>1, <1>2

\* A credential that has handed out nothing.
LEMMA FreshCredential ==
  ASSUME FidoTypeOK', counts' = {}, handed' = 0
  PROVE  FidoInv'
BY FS_EmptySet DEF FidoInv, CountsRise

LEMMA Fido2InitKeeps ==
  ASSUME SecureElementInv, Fido2Init
  PROVE  SecureElementInv' /\ accepted' = accepted
<1>1. /\ fido' = [NoFido EXCEPT !.initialized = TRUE] /\ counts' = {} /\ handed' = 0
      /\ UNCHANGED <<engineVars, bootVars>>
  BY DEF Fido2Init
<1>2. 0 \in 0..MaxCount
  BY SecureElementAssumption
<1>3. FidoInv'
  BY <1>1, <1>2, FreshCredential DEF FidoTypeOK, NoFido
<1>4. EngineInv'
  BY <1>1, InvParts DEF EngineInv, EngineTypeOK, FlagsTrue, SealedReady,
         ReadyForSensitiveOps, AeadReady, IsReady, IsAvailable, IsSlotProvisioned,
         engineVars, build
<1>5. BootInv'
  BY <1>1, InvParts, BootKept DEF VersionReadable, engineVars
<1>6. QED
  BY <1>1, <1>3, <1>4, <1>5, PartsKept DEF bootVars

LEMMA CreateCredentialKeeps ==
  ASSUME SecureElementInv, NEW rp \in Rps, CreateCredential(rp)
  PROVE  SecureElementInv' /\ accepted' = accepted
<1>1. CASE ~engine.available
  BY <1>1, HaltDeviceKeeps DEF CreateCredential
<1>2. CASE engine.available
  <2>1. /\ Provision(FIDO_PRIVKEY_BASE)
        /\ fido' = [initialized |-> TRUE, has_credential |-> TRUE,
                    rp |-> rp, sign_counter |-> 0]
        /\ counts' = {} /\ handed' = 0
        /\ UNCHANGED <<production, halted, atecc, engine, aad, sealed, bootVars>>
    BY <1>2 DEF CreateCredential, build
  <2>2. /\ slots' \in [SlotIds -> Contents]
        /\ \A s \in SlotIds : slots[s] # Empty => slots'[s] = slots[s]
    BY <2>1, ProvisionKeeps, SlotsApart, InvParts DEF EngineInv
  <2>3. EngineTypeOK'
    BY <2>1, <2>2, InvParts DEF EngineInv, EngineTypeOK
  <2>4. EngineInv'
    BY <2>1, <2>2, <2>3, InvParts, EngineKept, SlotsApart
  <2>5. BootInv'
    BY <2>1, <2>2, InvParts, BootKept, SlotsApart, EngineAssumption DEF VersionReadable
  <2>6. 0 \in 0..MaxCount
    BY SecureElementAssumption
  <2>7. FidoInv'
    BY <2>1, <2>6, FreshCredential DEF FidoTypeOK
  <2>8. QED
    BY <2>1, <2>4, <2>5, <2>7, PartsKept DEF bootVars
<1>3. QED
  BY <1>1, <1>2

LEMMA CountedUpTo ==
  ASSUME NEW n \in Nat, NEW S, S \subseteq 1..n
  PROVE  IsFiniteSet(S) /\ Cardinality(S) <= n
<1>1. 1 \in Int /\ n \in Int
  OBVIOUS
<1>2. IsFiniteSet(1..n) /\ Cardinality(1..n) = IF 1 > n THEN 0 ELSE n - 1 + 1
  BY <1>1, FS_Interval
<1>3. Cardinality(1..n) = n
  BY <1>2
<1>4. IsFiniteSet(S) /\ Cardinality(S) <= Cardinality(1..n)
  BY <1>2, FS_Subset
<1>5. QED
  BY <1>3, <1>4

\* The count of an assertion is above every count handed out so far.
LEMMA CountRises ==
  ASSUME FidoInv, fido.sign_counter < MaxCount, NEW signed \in BOOLEAN, Count(signed)
  PROVE  FidoInv'
<1> DEFINE next == fido.sign_counter + 1
<1>1. /\ fido.sign_counter \in Nat /\ next \in 1..MaxCount
      /\ fido' = [fido EXCEPT !.sign_counter = next] /\ fido'.sign_counter = next
      /\ counts' = IF signed THEN counts \cup {next} ELSE counts
      /\ handed' = IF signed THEN handed + 1 ELSE handed
  BY SecureElementAssumption DEF FidoInv, FidoTypeOK, Count
<1>2. /\ counts \subseteq 1..fido.sign_counter /\ next \notin counts
      /\ IsFiniteSet(counts) /\ Cardinality(counts) = handed
  <2>1. counts \subseteq 1..fido.sign_counter /\ Cardinality(counts) = handed
    BY DEF FidoInv, CountsRise
  <2>2. IsFiniteSet(counts)
    BY <1>1, <2>1, CountedUpTo
  <2>3. QED
    BY <1>1, <2>1, <2>2
<1>3. counts' \subseteq 1..next /\ counts' \subseteq 1..MaxCount
  BY <1>1, <1>2, SecureElementAssumption
<1>4. Cardinality(counts') = handed' /\ IsFiniteSet(counts')
  BY <1>1, <1>2, FS_AddElement DEF FidoInv, FidoTypeOK
<1>5. Cardinality(counts') <= next
  <2>1. next \in Nat
    BY <1>1
  <2>2. QED
    BY <1>3, <2>1, CountedUpTo
<1>6. handed' \in 0..MaxCount
  BY <1>1, <1>4, <1>5, SecureElementAssumption DEF FidoInv, FidoTypeOK
<1>7. next \in 0..MaxCount
  BY <1>1
<1>8. QED
  BY <1>1, <1>3, <1>4, <1>6, <1>7 DEF FidoInv, FidoTypeOK, CountsRise

LEMMA GetAssertionKeeps ==
  ASSUME SecureElementInv, NEW rp \in Rps, GetAssertion(rp)
  PROVE  SecureElementInv' /\ accepted' = accepted
<1>1. CASE ~IsReady("sign")
  BY <1>1, HaltDeviceKeeps DEF GetAssertion
<1>2. CASE IsReady("sign")
  <2>1. /\ fido.sign_counter < MaxCount /\ UNCHANGED <<engineVars, bootVars>>
        /\ \E signed \in BOOLEAN : Count(signed)
    BY <1>2 DEF GetAssertion
  <2>2. FidoInv'
    BY <2>1, InvParts, CountRises
  <2>3. EngineInv'
    BY <2>1, InvParts DEF EngineInv, EngineTypeOK, FlagsTrue, SealedReady,
           ReadyForSensitiveOps, AeadReady, IsReady, IsAvailable, IsSlotProvisioned,
           engineVars, build
  <2>4. BootInv'
    BY <2>1, InvParts, BootKept DEF VersionReadable, engineVars
  <2>5. QED
    BY <2>1, <2>2, <2>3, <2>4, PartsKept DEF bootVars
<1>3. QED
  BY <1>1, <1>2

-----------------------------------------------------------------------------
(***************************************************************************)
(* Power, and the theorems.                                                *)
(***************************************************************************)

\* The state every power-on starts from.
Fresh ==
    /\ production \in BOOLEAN /\ halted = FALSE
    /\ atecc = [initialized |-> FALSE, self_test |-> FALSE]
    /\ slots = [s \in SlotIds |-> Empty]
    /\ engine = NoEngine /\ aad = 1 /\ sealed = None
    /\ boot = NoBoot /\ accepted = 0
    /\ fido = NoFido /\ counts = {} /\ handed = 0

LEMMA FreshInv == Fresh => SecureElementInv
<1> SUFFICES ASSUME Fresh PROVE SecureElementInv
  OBVIOUS
<1>1. EngineInv
  <2>1. aad \in 1..MaxAad /\ slots \in [SlotIds -> Contents]
    BY EngineAssumption DEF Fresh, Contents
  <2>2. QED
    BY <2>1 DEF Fresh, EngineInv, EngineTypeOK, FlagsTrue, SealedReady, NoEngine
<1>2. BootInv
  BY EngineAssumption DEF Fresh, BootInv, BootTypeOK, CounterReached, NoBoot
<1>3. FidoInv
  <2>1. 0 \in 0..MaxCount
    BY SecureElementAssumption
  <2>2. QED
    BY <2>1, FS_EmptySet DEF Fresh, FidoInv, FidoTypeOK, CountsRise, NoFido
<1>4. QED
  BY <1>1, <1>2, <1>3, InvParts

LEMMA InitInv == Init => SecureElementInv
BY FreshInv DEF Init, EngineStart, Fresh

LEMMA PowerOffKeeps ==
  ASSUME SecureElementInv, PowerOff
  PROVE  SecureElementInv'
<1>1. Fresh'
  BY DEF PowerOff, EnginePowerOff, Fresh, SecureElementInv, EngineInv, EngineTypeOK
<1>2. QED
  BY <1>1, FreshInv, PTL

LEMMA StepInv ==
  SecureElementInv /\ [Next]_vars
    => SecureElementInv' /\ (PowerOff \/ accepted' >= accepted \/ UNCHANGED vars)
<1> SUFFICES ASSUME SecureElementInv, [Next]_vars
             PROVE  SecureElementInv' /\ (PowerOff \/ accepted' >= accepted \/ UNCHANGED vars)
  OBVIOUS
<1>1. accepted \in Nat
  BY InvParts, EngineAssumption DEF BootInv
<1>2. CASE Engine
  BY <1>1, <1>2, EngineKeeps
<1>3. CASE SecureBootInit
  BY <1>1, <1>3, SecureBootInitKeeps
<1>4. CASE \E signature, antirollback \in BOOLEAN : SetPolicy(signature, antirollback)
  BY <1>1, <1>4, SetPolicyKeeps
<1>5. CASE \E v \in Versions : SetCurrentVersion(v)
  BY <1>1, <1>5, SetCurrentVersionKeeps
<1>6. CASE \E v \in Versions, nonzero \in BOOLEAN : VerifyManifest(v, nonzero)
  BY <1>6, VerifyManifestKeeps
<1>7. CASE Fido2Init
  BY <1>1, <1>7, Fido2InitKeeps
<1>8. CASE \E rp \in Rps : CreateCredential(rp) \/ GetAssertion(rp)
  BY <1>1, <1>8, CreateCredentialKeeps, GetAssertionKeeps
<1>9. CASE PowerOff
  BY <1>9, PowerOffKeeps
<1>10. CASE UNCHANGED vars
  <2>1. BootTypeOK' /\ UNCHANGED <<engineVars, accepted, fidoVars>>
    BY <1>10, InvParts DEF vars, bootVars, BootInv, BootTypeOK
  <2>2. QED
    BY <1>10, <2>1, PolicyKeeps
<1>11. QED
  BY <1>2, <1>3, <1>4, <1>5, <1>6, <1>7, <1>8, <1>9, <1>10 DEF Next

THEOREM SecureElementInvariant == Spec => []SecureElementInv
BY InitInv, StepInv, PTL DEF Spec

\* The records of secure boot, of the authenticator, of the engine and of the
\* simulated element keep their shape, whatever is called in whatever order.
THEOREM SecureElementTypeCorrect == Spec => []SecureElementTypeOK
BY SecureElementInvariant, PTL DEF SecureElementInv

\* What crypto_engine_encrypt_password has encrypted since power-on,
\* crypto_engine_decrypt_password opens at any later moment at which slot 0
\* holds the key it was encrypted with, and does not halt at any other.
THEOREM SealedOpens == Spec => []OpensWhatItSealed
<1>1. SecureElementInv => OpensWhatItSealed
  BY EngineAssumption
     DEF SecureElementInv, EngineInv, EngineTypeOK, SealedReady, OpensWhatItSealed, Opens,
         KeyReadable, AeadReady, IsReady, IsAvailable
<1>2. QED
  BY <1>1, SecureElementInvariant, PTL

\* secure_boot_verify_manifest never accepts, under anti-rollback, a version
\* below one it accepted so since power-on.
THEOREM NeverRolledBack == Spec => NoRollback
<1>1. SecureElementInv /\ [Next]_vars => [PowerOff \/ accepted' >= accepted]_vars
  BY StepInv
<1>2. QED
  BY <1>1, SecureElementInvariant, PTL DEF Spec, NoRollback

\* Every assertion of a credential carries a signature count of its own.
THEOREM CountsNeverRepeat == Spec => []CountsRise
BY SecureElementInvariant, PTL DEF SecureElementInv

=============================================================================
