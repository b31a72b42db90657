---------------------------- MODULE CryptoEngine ----------------------------
(***************************************************************************)
(* The secure element as the firmware simulates it, and the engine above   *)
(* it: atecc608a_driver.c and crypto_engine.c.  A slot is what was written *)
(* to it, and a read must name its exact length.  The engine and the       *)
(* driver number the slots differently: the engine keeps the master key in *)
(* slot 0 and the device secret in slot 1, while the driver takes slots 7, *)
(* 4 and 5 as the sign that AEAD, KDF and signing are ready.               *)
(*                                                                         *)
(* Hashes and tags are taken not to collide, so a ciphertext stands for    *)
(* the key it was made with.  Calls with null arguments or lengths out of  *)
(* range return before anything changes and are left out, as are buffers   *)
(* wiped on the way and the parsing of "v1:aad:tag:ciphertext".            *)
(***************************************************************************)
EXTENDS Naturals

CONSTANTS
    Empty,         \* a slot not provisioned
    Bound,         \* a slot provisioned without contents
    Keys,          \* 32-byte master keys
    SecretLengths, \* lengths of device secrets
    Versions,      \* firmware versions, 4 bytes
    Passwords,     \* lengths of passwords
    None,          \* no ciphertext
    MaxAad         \* bound on the AAD counter, for 2^32 - 1

ASSUME EngineAssumption ==
    /\ Empty # Bound /\ {Empty, Bound, None} \cap Keys = {}
    /\ {Empty, Bound} \cap (SecretLengths \cup Versions) = {}
    /\ SecretLengths \subseteq 1..32 /\ Passwords \subseteq 1..63
    /\ Versions \subseteq Nat /\ 0 \in Versions
    /\ MaxAad \in Nat \ {0}

VARIABLES
    production, \* FIRMWARE_PRODUCTION of the build
    halted,     \* Error_Handler has been called
    atecc,      \* g_atecc_initialized, g_atecc_self_test_passed
    slots,      \* g_atecc_slot_data, with its lengths and provisioned flags
    engine,     \* g_crypto_state
    aad,        \* g_password_encryption_aad_counter
    sealed      \* auxiliary: the key of the last password encrypted since power-on

build == <<production, halted>>

engineVars == <<build, atecc, slots, engine, aad, sealed>>

MASTER_KEY == 0
DEVICE_SECRET == 1
FIDO_PRIVKEY_BASE == 3
KDF_READY == 4
SIGN_READY == 5
VERSION_COUNTER == 7

SlotIds == {MASTER_KEY, DEVICE_SECRET, FIDO_PRIVKEY_BASE, KDF_READY,
            SIGN_READY, VERSION_COUNTER}

Contents == {Empty, Bound} \cup Keys \cup SecretLengths \cup Versions

NoEngine ==
    [initialized |-> FALSE, available |-> FALSE,
     master_key |-> FALSE, device_secret |-> FALSE]

EngineStart ==
    /\ production \in BOOLEAN /\ halted = FALSE
    /\ atecc = [initialized |-> FALSE, self_test |-> FALSE]
    /\ slots = [s \in SlotIds |-> Empty]
    /\ engine = NoEngine
    /\ aad = 1 /\ sealed = None

\* Error_Handler: nothing runs until power is cut, which clears what the call
\* had changed on its way.
Halt == ~halted /\ halted' = TRUE /\ UNCHANGED <<production, atecc, slots, engine, aad, sealed>>

----------------------------------------------------------------------------
\* The driver.

IsAvailable == atecc.initialized /\ atecc.self_test

IsSlotProvisioned(slot) == atecc.initialized /\ slots[slot] # Empty

IsReady(function) ==
    /\ IsAvailable
    /\ CASE function = "aead" -> IsSlotProvisioned(VERSION_COUNTER)
         [] function = "kdf"  -> IsSlotProvisioned(KDF_READY)
         [] function = "sign" -> IsSlotProvisioned(SIGN_READY)
         [] OTHER             -> TRUE

\* atecc608a_read_slot with the length a caller asks for.
KeyReadable == atecc.initialized /\ slots[MASTER_KEY] \in Keys
SecretReadable(length) == atecc.initialized /\ slots[DEVICE_SECRET] = length
VersionReadable == atecc.initialized /\ slots[VERSION_COUNTER] \in Versions

WriteSlot(slot, contents) ==
    IsAvailable /\ slots' = [slots EXCEPT ![slot] = contents]

\* Binding a slot, or generating a key in it, keeps what is there.
Provision(slot) ==
    /\ IsAvailable
    /\ slots' = [slots EXCEPT ![slot] = IF @ = Empty THEN Bound ELSE @]

----------------------------------------------------------------------------
\* The engine.

\* Mutant: the flags are cleared and not read back from the element.
CryptoEngineInitForgetting ==
    /\ ~halted
    /\ atecc' = [initialized |-> TRUE, self_test |-> TRUE]
    /\ engine' = [NoEngine EXCEPT !.initialized = TRUE, !.available = TRUE]
    /\ UNCHANGED <<build, slots, aad, sealed>>

\* The simulated self-test always passes.
CryptoEngineInit ==
    /\ ~halted
    /\ atecc' = [initialized |-> TRUE, self_test |-> TRUE]
    /\ engine' = [initialized |-> TRUE, available |-> TRUE,
                  master_key |-> slots[MASTER_KEY] # Empty,
                  device_secret |-> slots[DEVICE_SECRET] # Empty]
    /\ UNCHANGED <<build, slots, aad, sealed>>

\* crypto_engine_ready_for_sensitive_ops.
ReadyForSensitiveOps ==
    /\ engine.initialized
    /\ production => engine.available /\ engine.master_key /\ engine.device_secret

AeadReady == IsReady("aead") /\ engine.master_key

KdfReady == IsReady("kdf") /\ engine.device_secret

\* crypto_engine_set_master_key_slot_ready.
SetMasterKeySlotReady ==
    LET provisioned == IsAvailable /\ IsSlotProvisioned(MASTER_KEY) IN
    /\ ~halted
    /\ IF production /\ ~provisioned THEN Halt
       ELSE /\ engine' = [engine EXCEPT !.master_key = provisioned]
            /\ UNCHANGED <<build, atecc, slots, aad, sealed>>

\* An uninitialised engine is initialised by the call: CryptoEngineInit first.
SetDeviceSecret ==
    /\ ~halted /\ engine.initialized
    /\ \E length \in SecretLengths : WriteSlot(DEVICE_SECRET, length)
    /\ engine' = [engine EXCEPT !.device_secret = TRUE]
    /\ UNCHANGED <<build, atecc, aad, sealed>>

\* crypto_engine_bind_atecc_slot; the key bound to it is not told apart.
BindAteccSlot ==
    /\ ~halted /\ engine.initialized
    /\ \E slot \in SlotIds \ {FIDO_PRIVKEY_BASE} : Provision(slot)
    /\ UNCHANGED <<build, atecc, engine, aad, sealed>>

\* crypto_engine_write_atecc_slot as provisioning uses it: master keys, and the
\* first firmware version, which nothing in the firmware writes.
WriteAteccSlot ==
    /\ ~halted
    /\ \/ \E key \in Keys : WriteSlot(MASTER_KEY, key)
       \/ ~VersionReadable /\ \E v \in Versions : WriteSlot(VERSION_COUNTER, v)
    /\ UNCHANGED <<build, atecc, engine, aad, sealed>>

\* next_password_aad mixes in eight bytes of the device secret.  A secret of
\* another length cannot be read that way: a production build halts.
AadHalts == production /\ ~(engine.device_secret /\ SecretReadable(8))

\* The buffer of 64 bytes must hold the password and 16 bytes more.
FitsBuffer(password) == password + 16 <= 64

\* crypto_engine_encrypt_password.  The counter is used up even when the driver
\* then refuses.
EncryptPassword(password) ==
    /\ ~halted /\ ReadyForSensitiveOps
    /\ IF AadHalts \/ ~AeadReady THEN Halt
       ELSE /\ aad < MaxAad
            /\ aad' = aad + 1
            /\ sealed' = IF KeyReadable /\ FitsBuffer(password)
                         THEN slots[MASTER_KEY] ELSE sealed
            /\ UNCHANGED <<build, atecc, slots, engine>>

\* decrypt_aead succeeds: the tag is the one this key and ciphertext give.
Opens(key) ==
    ReadyForSensitiveOps /\ AeadReady /\ KeyReadable /\ slots[MASTER_KEY] = key

\* crypto_engine_encrypt_aead, _decrypt_aead and _decrypt_password: they change
\* no state, unless they find the element not ready.
UseAead == ReadyForSensitiveOps /\ ~AeadReady /\ Halt

\* crypto_engine_password_fingerprint.
Fingerprint == ~(KdfReady /\ SecretReadable(32)) /\ Halt

\* crypto_engine_derive_pin_key reads 16 bytes of the secret and then derives
\* from 32: it never succeeds, and halts or returns false.
DerivePinKey ==
    /\ IF SecretReadable(16) /\ IsAvailable /\ engine.device_secret
       THEN ~KdfReady ELSE production
    /\ Halt

\* crypto_engine_hash16, _hash256, _ecdsa_verify and key generation.
UseUnavailable == ~IsAvailable /\ Halt

EngineCall ==
    \/ CryptoEngineInit \/ SetMasterKeySlotReady \/ SetDeviceSecret
    \/ BindAteccSlot \/ WriteAteccSlot
    \/ \E password \in Passwords : EncryptPassword(password)
    \/ UseAead \/ Fingerprint \/ DerivePinKey \/ UseUnavailable

\* All of the state is RAM, the simulated slots included.
EnginePowerOff ==
    /\ halted' = FALSE
    /\ atecc' = [initialized |-> FALSE, self_test |-> FALSE]
    /\ slots' = [s \in SlotIds |-> Empty]
    /\ engine' = NoEngine
    /\ aad' = 1 /\ sealed' = None
    /\ UNCHANGED production

----------------------------------------------------------------------------
EngineTypeOK ==
    /\ production \in BOOLEAN /\ halted \in BOOLEAN
    /\ atecc \in [initialized : BOOLEAN, self_test : BOOLEAN]
    /\ slots \in [SlotIds -> Contents]
    /\ engine \in [initialized : BOOLEAN, available : BOOLEAN,
                   master_key : BOOLEAN, device_secret : BOOLEAN]
    /\ aad \in 1..MaxAad
    /\ sealed \in Keys \cup {None}

\* A password encrypted since power-on can be decrypted at any later moment at
\* which slot 0 holds the key it was encrypted with, and decrypting halts at
\* none: no call to initialise, provision, bind or re-check takes that away.
OpensWhatItSealed ==
    sealed # None =>
        /\ slots[MASTER_KEY] = sealed => Opens(sealed)
        /\ AeadReady

=============================================================================
